---------------------- MODULE DistributedRuntimeProofs ----------------------
(***************************************************************************)
(* Proofs about DistributedRuntime: for any number of hosts, whichever of  *)
(* their proxies are connected, no FLUSHED reaches a monitor that would    *)
(* drop it, and no scheduler exits by itself before those it waits for     *)
(* were flushed.                                                           *)
(***************************************************************************)
EXTENDS DistributedRuntime, TLAPS

Elems(s) == {s[i] : i \in DOMAIN s}
IsFlushed(m) == m.type = "FLUSHED"

(* While a monitor is in its first loop, its scheduler has not been told to
   flush. *)
RunInv ==
  \A h \in Hosts : mon[h] = "run" =>
    /\ Cmd("DONE") \notin Elems(todo[h]) /\ "DONE" \notin Elems(cmd[h])
    /\ sched[h] # "flushing"
    /\ \A m \in Elems(inbox[h][h]) : ~IsFlushed(m)

(* A FLUSHED is in the queue of the host whose scheduler sent it, or on its
   way from another host to the first, and says from whom it is. *)
WhoInv ==
  /\ \A h \in Hosts, f \in Hosts \cup {NoId} : \A m \in Elems(inbox[h][f]) :
       IsFlushed(m) => \/ f = h /\ m.id = h
                       \/ h = Primary /\ f \in Remotes /\ m.id = f
  /\ \A h, g \in Hosts : \A m \in Elems(wire[g][h]) :
       IsFlushed(m) => h = Primary /\ g \in Remotes
  /\ \A h, g \in Hosts :
       <<"FLUSHED", g>> \in Elems(todo[h]) => g = Primary /\ h \in Remotes

(* Who is flushed was told to flush. *)
FlagInv ==
  \A h \in Hosts :
    (h \in schedDone[h] \/ \E m \in Elems(inbox[h][h]) : IsFlushed(m))
      => sched[h] \in {"flushing", "exited"}

(* Wherever the first host's view of another is under way, the other's
   scheduler is flushed. *)
Coming(g) ==
  \/ <<"FLUSHED", Primary>> \in Elems(todo[g])
  \/ \E m \in Elems(wire[g][Primary]) : IsFlushed(m)
  \/ \E m \in Elems(inbox[Primary][g]) : IsFlushed(m)
SentInv ==
  \A g \in Remotes : Coming(g) \/ g \in schedDone[Primary] => g \in schedDone[g]

(* An EXIT is under way, or was obeyed, only when all is done. *)
Leaving(h) ==
  \/ Cmd("EXIT") \in Elems(todo[h])
  \/ "EXIT" \in Elems(cmd[h])
  \/ sched[h] = "exited" /\ ~(h = Primary /\ AppStopped)
ExitInv == \A h \in Hosts : Leaving(h) => AllDone(h, schedDone[h])

(* On the way from another host to the first, a DONE precedes every FLUSHED,
   as long as the first host's monitor has seen none. *)
HasDone(s) == \E j \in DOMAIN s : s[j].type = "DONE"
Led(s) == \A i \in DOMAIN s :
            IsFlushed(s[i]) => \E j \in DOMAIN s : j < i /\ s[j].type = "DONE"
Told(g) ==
  /\ <<g, Primary>> \in Connected
  /\ mon[g] = "flush" \/ <<"FLUSHED", Primary>> \in Elems(todo[g])
  /\ <<"DONE", Primary>> \notin Elems(todo[g])
Ordered(g) ==
  /\ Led(inbox[Primary][g])
  /\ HasDone(inbox[Primary][g]) \/ Led(wire[g][Primary])
  /\ Told(g) => HasDone(inbox[Primary][g]) \/ HasDone(wire[g][Primary])
OrderInv ==
  \A g \in Remotes :
    /\ <<"FLUSHED", Primary>> \in Elems(todo[g]) => <<"DONE", Primary>> \notin Elems(todo[g])
    /\ mon[Primary] = "run" => Ordered(g)

Inv == TypeOK /\ RunInv /\ WhoInv /\ FlagInv /\ SentInv /\ ExitInv /\ OrderInv

-----------------------------------------------------------------------------
(* Sequences. *)
LEMMA ElemsEmpty == Elems(<<>>) = {}
  BY DEF Elems

LEMMA ElemsTail ==
  ASSUME NEW S, NEW s \in Seq(S), s # <<>>
  PROVE  /\ Tail(s) \in Seq(S) /\ Head(s) \in S
         /\ Elems(s) = {Head(s)} \cup Elems(Tail(s))
         /\ Elems(s) \subseteq S
<1>1. Len(s) \in Nat \ {0} /\ DOMAIN s = 1..Len(s) /\ Tail(s) \in Seq(S) /\ Head(s) = s[1]
  OBVIOUS
<1>2. DOMAIN Tail(s) = 1..(Len(s) - 1) /\ \A i \in 1..(Len(s) - 1) : Tail(s)[i] = s[i + 1]
  BY <1>1
<1>3. \A i \in 1..Len(s) : s[i] \in S /\ (i = 1 \/ (i - 1 \in 1..(Len(s) - 1) /\ s[i] = Tail(s)[i - 1]))
  BY <1>1, <1>2
<1>4. Elems(s) = {s[i] : i \in 1..Len(s)} /\ Elems(Tail(s)) = {Tail(s)[i] : i \in 1..(Len(s) - 1)}
  BY <1>1, <1>2 DEF Elems
<1>5. Elems(s) \subseteq {Head(s)} \cup Elems(Tail(s)) /\ Elems(s) \subseteq S
  <2> SUFFICES ASSUME NEW i \in 1..Len(s)
               PROVE  s[i] \in S /\ (s[i] = Head(s) \/ s[i] \in Elems(Tail(s)))
    BY <1>4
  <2>1. CASE i = 1
    BY <1>1, <1>3, <2>1
  <2>2. CASE i - 1 \in 1..(Len(s) - 1) /\ s[i] = Tail(s)[i - 1]
    BY <1>3, <1>4, <2>2
  <2> QED
    BY <1>3, <2>1, <2>2
<1>6. 1 \in 1..Len(s) /\ \A i \in 1..(Len(s) - 1) : i + 1 \in 1..Len(s)
  BY <1>1
<1>7. {Head(s)} \cup Elems(Tail(s)) \subseteq Elems(s)
  BY <1>1, <1>2, <1>4, <1>6
<1> QED
  BY <1>1, <1>5, <1>7

LEMMA ElemsAppend ==
  ASSUME NEW S, NEW s \in Seq(S), NEW e \in S
  PROVE  Append(s, e) \in Seq(S) /\ Elems(Append(s, e)) = Elems(s) \cup {e}
<1>1. /\ Len(s) \in Nat /\ DOMAIN s = 1..Len(s) /\ DOMAIN Append(s, e) = 1..(Len(s) + 1)
      /\ \A i \in 1..Len(s) : Append(s, e)[i] = s[i]
      /\ Append(s, e)[Len(s) + 1] = e
  OBVIOUS
<1> QED
  BY <1>1 DEF Elems

LEMMA ElemsConcat ==
  ASSUME NEW S, NEW s \in Seq(S), NEW t \in Seq(S)
  PROVE  s \o t \in Seq(S) /\ Elems(s \o t) = Elems(s) \cup Elems(t)
<1>1. /\ Len(s) \in Nat /\ Len(t) \in Nat /\ DOMAIN s = 1..Len(s) /\ DOMAIN t = 1..Len(t)
      /\ DOMAIN (s \o t) = 1..(Len(s) + Len(t))
      /\ \A i \in 1..Len(s) : (s \o t)[i] = s[i]
      /\ \A i \in (Len(s) + 1)..(Len(s) + Len(t)) : (s \o t)[i] = t[i - Len(s)]
  OBVIOUS
<1>2. \A i \in 1..Len(t) : i + Len(s) \in (Len(s) + 1)..(Len(s) + Len(t)) /\ (s \o t)[i + Len(s)] = t[i]
  BY <1>1
<1>3. \A i \in 1..(Len(s) + Len(t)) : i \in 1..Len(s) \/ (i \in (Len(s) + 1)..(Len(s) + Len(t)) /\ i - Len(s) \in 1..Len(t))
  BY <1>1
<1>4. \A i \in 1..(Len(s) + Len(t)) : (s \o t)[i] \in Elems(s) \cup Elems(t)
  BY <1>1, <1>3 DEF Elems
<1>5. \A e \in Elems(s) : \E i \in 1..(Len(s) + Len(t)) : (s \o t)[i] = e
  BY <1>1 DEF Elems
<1>6. \A e \in Elems(t) : \E i \in 1..(Len(s) + Len(t)) : (s \o t)[i] = e
  <2> SUFFICES ASSUME NEW j \in 1..Len(t)
               PROVE  \E i \in 1..(Len(s) + Len(t)) : (s \o t)[i] = t[j]
    BY <1>1 DEF Elems
  <2>1. j + Len(s) \in 1..(Len(s) + Len(t))
    BY <1>1
  <2> QED
    BY <1>2, <2>1
<1>7. Elems(s \o t) = {(s \o t)[i] : i \in 1..(Len(s) + Len(t))}
  BY <1>1 DEF Elems
<1>8. s \o t \in Seq(S)
  OBVIOUS
<1>9. Elems(s \o t) \subseteq Elems(s) \cup Elems(t)
  BY <1>4, <1>7
<1>10. Elems(s) \cup Elems(t) \subseteq Elems(s \o t)
  BY <1>5, <1>6, <1>7
<1> QED
  BY <1>8, <1>9, <1>10

LEMMA ElemsCons ==
  ASSUME NEW S, NEW e \in S, NEW t \in Seq(S)
  PROVE  <<e>> \o t \in Seq(S) /\ Elems(<<e>> \o t) = {e} \cup Elems(t)
<1> DEFINE s == <<e>>
<1>1. s \in Seq(S) /\ Elems(s) = {e}
  BY DEF Elems
<1> HIDE DEF s
<1>2. s \o t \in Seq(S) /\ Elems(s \o t) = Elems(s) \cup Elems(t)
  BY <1>1, ElemsConcat
<1> QED
  BY <1>1, <1>2 DEF s

(* What the orders of DONE and FLUSHED in a queue become at its ends. *)
LEMMA LedTail ==
  ASSUME NEW S, NEW s \in Seq(S), s # <<>>
  PROVE  /\ Led(s) => ~IsFlushed(Head(s))
         /\ Head(s).type # "DONE" => (HasDone(Tail(s)) = HasDone(s)) /\ (Led(s) => Led(Tail(s)))
<1>1. Len(s) \in Nat \ {0} /\ DOMAIN s = 1..Len(s) /\ Head(s) = s[1]
  OBVIOUS
<1>2. DOMAIN Tail(s) = 1..(Len(s) - 1) /\ \A i \in 1..(Len(s) - 1) : Tail(s)[i] = s[i + 1]
  BY <1>1
<1>3. Led(s) => ~IsFlushed(Head(s))
  BY <1>1 DEF Led
<1>4. ASSUME Head(s).type # "DONE"
      PROVE  HasDone(Tail(s)) = HasDone(s)
  <2>1. \A j \in 1..Len(s) : s[j].type = "DONE" => j - 1 \in 1..(Len(s) - 1) /\ Tail(s)[j - 1] = s[j]
    BY <1>1, <1>2, <1>4
  <2>2. HasDone(s) => HasDone(Tail(s))
    BY <1>1, <1>2, <2>1 DEF HasDone
  <2>3. HasDone(Tail(s)) => HasDone(s)
    BY <1>1, <1>2 DEF HasDone
  <2> QED
    BY <2>2, <2>3 DEF HasDone
<1>5. ASSUME Head(s).type # "DONE", Led(s)
      PROVE  Led(Tail(s))
  <2> DEFINE t == Tail(s)
  <2> SUFFICES ASSUME NEW i \in DOMAIN t, IsFlushed(t[i])
               PROVE  \E j \in DOMAIN t : j < i /\ t[j].type = "DONE"
    BY DEF Led
  <2>a. i \in 1..(Len(s) - 1) /\ i + 1 \in 1..Len(s) /\ IsFlushed(s[i + 1])
    BY <1>1, <1>2
  <2>1. PICK j \in 1..Len(s) : j < i + 1 /\ s[j].type = "DONE"
    BY <1>1, <1>5, <2>a DEF Led
  <2>2. j # 1
    BY <1>1, <1>5, <2>1
  <2>3. j - 1 \in 1..(Len(s) - 1) /\ j - 1 < i /\ (j - 1) + 1 = j
    BY <1>1, <2>1, <2>2, <2>a
  <2>4. j - 1 \in DOMAIN t /\ t[j - 1] = s[j]
    BY <1>2, <2>3
  <2> QED
    BY <2>1, <2>3, <2>4
<1> QED
  BY <1>3, <1>4, <1>5

LEMMA LedAppend ==
  ASSUME NEW S, NEW s \in Seq(S), NEW e \in S
  PROVE  /\ HasDone(s) \/ e.type = "DONE" => HasDone(Append(s, e))
         /\ Led(s) /\ (IsFlushed(e) => HasDone(s)) => Led(Append(s, e))
<1>1. /\ Len(s) \in Nat /\ DOMAIN s = 1..Len(s) /\ DOMAIN Append(s, e) = 1..(Len(s) + 1)
      /\ \A i \in 1..Len(s) : Append(s, e)[i] = s[i]
      /\ Append(s, e)[Len(s) + 1] = e
  OBVIOUS
<1>2. HasDone(s) \/ e.type = "DONE" => HasDone(Append(s, e))
  BY <1>1 DEF HasDone
<1>3. ASSUME Led(s), IsFlushed(e) => HasDone(s), NEW i \in 1..(Len(s) + 1), IsFlushed(Append(s, e)[i])
      PROVE  \E j \in 1..(Len(s) + 1) : j < i /\ Append(s, e)[j].type = "DONE"
  <2>1. CASE i = Len(s) + 1
    BY <1>1, <1>3, <2>1 DEF HasDone
  <2>2. CASE i # Len(s) + 1
    <3>1. i \in 1..Len(s) /\ IsFlushed(s[i])
      BY <1>1, <1>3, <2>2
    <3>2. PICK j \in 1..Len(s) : j < i /\ s[j].type = "DONE"
      BY <1>1, <1>3, <3>1 DEF Led
    <3> QED
      BY <1>1, <3>2
  <2> QED
    BY <2>1, <2>2
<1> QED
  BY <1>1, <1>2, <1>3 DEF Led

-----------------------------------------------------------------------------
(* The hosts and what a monitor has to do. *)
LEMMA HostFacts ==
  /\ Primary \in Hosts /\ Remotes \subseteq Hosts /\ Primary \notin Remotes /\ NoId \notin Hosts
  /\ \A h \in Hosts : h = Primary \/ h \in Remotes
  /\ \A h \in Hosts : Peers(h) \subseteq Hosts /\ h \notin Peers(h) /\ Producers(h) = Hosts \cup {NoId}
BY HostAssumption DEF Hosts, Peers, Producers

LEMMA ToProxiesFacts ==
  ASSUME NEW h \in Hosts, NEW op \in Types
  PROVE  ToProxies(h, op) \in Seq(Steps) /\ Elems(ToProxies(h, op)) = {op} \X Peers(h)
<1>1. ProxySeq(h) \in Seq(Hosts) /\ {ProxySeq(h)[i] : i \in DOMAIN ProxySeq(h)} = Peers(h)
  <2>1. CASE h = Primary
    <3>1. ProxySeq(h) = Proxies /\ Peers(h) = {Proxies[i] : i \in DOMAIN Proxies}
      BY <2>1 DEF ProxySeq, Peers, Remotes
    <3>2. Proxies \in Seq(Remotes) /\ Remotes \subseteq Hosts
      BY HostAssumption, HostFacts
    <3>3. Proxies \in Seq(Hosts)
      BY <3>2
    <3> QED
      BY <3>1, <3>3
  <2>2. CASE h # Primary
    <3>1. ProxySeq(h) = <<Primary>> /\ Peers(h) = {Primary}
      BY <2>2 DEF ProxySeq, Peers
    <3> QED
      BY <3>1, HostFacts
  <2> QED
    BY <2>1, <2>2
<1>2. Len(ProxySeq(h)) \in Nat /\ DOMAIN ProxySeq(h) = 1..Len(ProxySeq(h))
      /\ \A i \in 1..Len(ProxySeq(h)) : ProxySeq(h)[i] \in Hosts
  BY <1>1
<1>3. \A g \in Hosts : <<op, g>> \in Steps
  BY DEF Steps
<1>4. ToProxies(h, op) \in Seq(Steps)
  BY <1>2, <1>3 DEF ToProxies
<1>5. DOMAIN ToProxies(h, op) = DOMAIN ProxySeq(h)
      /\ \A i \in DOMAIN ProxySeq(h) : ToProxies(h, op)[i] = <<op, ProxySeq(h)[i]>>
  BY DEF ToProxies
<1>6. Elems(ToProxies(h, op)) = {op} \X Peers(h)
  <2>1. Elems(ToProxies(h, op)) = {<<op, ProxySeq(h)[i]>> : i \in DOMAIN ProxySeq(h)}
    BY <1>5 DEF Elems
  <2>2. {<<op, ProxySeq(h)[i]>> : i \in DOMAIN ProxySeq(h)} = {op} \X {ProxySeq(h)[i] : i \in DOMAIN ProxySeq(h)}
    OBVIOUS
  <2> QED
    BY <1>1, <2>1, <2>2
<1> QED
  BY <1>4, <1>6

LEMMA StartFacts ==
  ASSUME NEW h \in Hosts, NEW t,
         t = <<<<"start", h>>>> \o (IF Upstream(h) THEN ToProxies(h, "START") ELSE None)
  PROVE  t \in Seq(Steps) /\ Elems(t) \subseteq {<<"start", h>>} \cup ({"START"} \X Peers(h))
<1> DEFINE e == <<"start", h>>
<1>1. e \in Steps
  BY DEF Steps
<1>2. None \in Seq(Steps) /\ Elems(None) = {}
  BY ElemsEmpty DEF None
<1>3. ToProxies(h, "START") \in Seq(Steps) /\ Elems(ToProxies(h, "START")) = {"START"} \X Peers(h)
  BY ToProxiesFacts DEF Types
<1> DEFINE r == IF Upstream(h) THEN ToProxies(h, "START") ELSE None
<1>4. r \in Seq(Steps) /\ Elems(r) \subseteq {"START"} \X Peers(h)
  BY <1>2, <1>3
<1>5. t = <<e>> \o r
  OBVIOUS
<1> HIDE DEF r, e
<1>6. <<e>> \o r \in Seq(Steps) /\ Elems(<<e>> \o r) = {e} \cup Elems(r)
  BY <1>1, <1>4, ElemsCons
<1> QED
  BY <1>4, <1>5, <1>6 DEF e

LEMMA DoneFacts ==
  ASSUME NEW h \in Hosts
  PROVE  LET t == <<Cmd("DONE")>> \o ToProxies(h, "DONE")
         IN  t \in Seq(Steps) /\ Elems(t) = {Cmd("DONE")} \cup ({"DONE"} \X Peers(h))
<1>1. Cmd("DONE") \in Steps
  BY DEF Steps
<1>2. ToProxies(h, "DONE") \in Seq(Steps) /\ Elems(ToProxies(h, "DONE")) = {"DONE"} \X Peers(h)
  BY ToProxiesFacts DEF Types
<1> QED
  BY <1>1, <1>2, ElemsCons

LEMMA FinaleFacts ==
  ASSUME NEW h \in Hosts
  PROVE  /\ Finale(h) \in Seq(Steps)
         /\ Elems(Finale(h)) \subseteq {Cmd("EXIT")} \cup ({"KILL", "close"} \X Peers(h))
                                       \cup (IF Upstream(h) THEN {} ELSE {<<"FLUSHED", Primary>>})
<1>1. CASE Upstream(h)
  <2> DEFINE p(i) == IF i % 2 = 1 THEN <<"KILL", Proxies[(i + 1) \div 2]>>
                     ELSE <<"close", Proxies[i \div 2]>>
             r == [i \in 1..(2 * Len(Proxies)) |-> p(i)]
  <2>1. Len(Proxies) \in Nat /\ \A j \in 1..Len(Proxies) : Proxies[j] \in Remotes
    BY HostAssumption
  <2>2. \A i \in 1..(2 * Len(Proxies)) : p(i) \in {"KILL", "close"} \X Remotes
    <3> SUFFICES ASSUME NEW i \in 1..(2 * Len(Proxies))
                 PROVE  p(i) \in {"KILL", "close"} \X Remotes
      OBVIOUS
    <3>1. CASE i % 2 = 1
      <4>1. (i + 1) \div 2 \in 1..Len(Proxies)
        BY <2>1, <3>1
      <4> QED
        BY <2>1, <3>1, <4>1
    <3>2. CASE i % 2 # 1
      <4>1. i \div 2 \in 1..Len(Proxies)
        BY <2>1, <3>2
      <4> QED
        BY <2>1, <3>2, <4>1
    <3> QED
      BY <3>1, <3>2
  <2> HIDE DEF p
  <2>3. {"KILL", "close"} \X Remotes \subseteq Steps
    BY HostFacts DEF Steps, Types
  <2>4. 2 * Len(Proxies) \in Nat
    BY <2>1
  <2>5. r \in Seq(Steps) /\ DOMAIN r = 1..(2 * Len(Proxies))
    BY <2>2, <2>3, <2>4
  <2>6. Elems(r) \subseteq {"KILL", "close"} \X Remotes
    BY <2>2, <2>5 DEF Elems
  <2>7. Cmd("EXIT") \in Steps
    BY DEF Steps
  <2>8. Finale(h) = <<Cmd("EXIT")>> \o r
    BY <1>1 DEF Finale, p
  <2> HIDE DEF r
  <2>9. <<Cmd("EXIT")>> \o r \in Seq(Steps) /\ Elems(<<Cmd("EXIT")>> \o r) = {Cmd("EXIT")} \cup Elems(r)
    BY <2>5, <2>7, ElemsCons
  <2> QED
    BY <1>1, <2>6, <2>8, <2>9 DEF Upstream, Peers
<1>2. CASE ~Upstream(h)
  <2>1. Finale(h) = <<<<"FLUSHED", Primary>>, Cmd("EXIT"), <<"close", Primary>>>>
    BY <1>2 DEF Finale
  <2>2. <<"FLUSHED", Primary>> \in Steps /\ Cmd("EXIT") \in Steps /\ <<"close", Primary>> \in Steps
    BY HostFacts DEF Steps, Types
  <2>3. Elems(Finale(h)) = {<<"FLUSHED", Primary>>, Cmd("EXIT"), <<"close", Primary>>}
    BY <2>1 DEF Elems
  <2>4. Peers(h) = {Primary}
    BY <1>2 DEF Upstream, Peers
  <2> QED
    BY <1>2, <2>1, <2>2, <2>3, <2>4
<1> QED
  BY <1>1, <1>2

-----------------------------------------------------------------------------
(* What a monitor's pop, its next step and a send leave in the queues. *)
Popped(h, f, type) ==
  /\ mon[h] # "stopped" /\ todo[h] = None /\ Elems(todo[h]) = {}
  /\ Head(inbox[h][f]) \in Messages /\ Head(inbox[h][f]).type = type
  /\ Head(inbox[h][f]) \in Elems(inbox[h][f])
  /\ inbox[h][f] \in Seq(Messages) /\ inbox[h][f] # <<>>
  /\ inbox' \in [Hosts -> [Hosts \cup {NoId} -> Seq(Messages)]]
  /\ inbox'[h][f] = Tail(inbox[h][f])
  /\ \A k \in Hosts, e \in Hosts \cup {NoId} :
       /\ Elems(inbox'[k][e]) \subseteq Elems(inbox[k][e])
       /\ (k # h \/ e # f) => inbox'[k][e] = inbox[k][e]

LEMMA PopFacts ==
  ASSUME TypeOK, NEW h \in Hosts, NEW f \in Producers(h), NEW type, Pop(h, f, type)
  PROVE  Popped(h, f, type)
<1>1. f \in Hosts \cup {NoId}
  BY HostFacts
<1>2. inbox \in [Hosts -> [Hosts \cup {NoId} -> Seq(Messages)]] /\ inbox[h][f] \in Seq(Messages)
  <2>1. inbox \in [Hosts -> [Hosts \cup {NoId} -> Seq(Messages)]]
    BY DEF TypeOK
  <2> QED
    BY <1>1, <2>1
<1>3. /\ mon[h] # "stopped" /\ todo[h] = None /\ inbox[h][f] # <<>> /\ Head(inbox[h][f]).type = type
      /\ inbox' = [inbox EXCEPT ![h][f] = Tail(@)]
  BY DEF Pop
<1>4. /\ Tail(inbox[h][f]) \in Seq(Messages) /\ Head(inbox[h][f]) \in Messages
      /\ Elems(inbox[h][f]) = {Head(inbox[h][f])} \cup Elems(Tail(inbox[h][f]))
  BY <1>2, <1>3, ElemsTail
<1>5. Elems(todo[h]) = {}
  BY <1>3, ElemsEmpty DEF None
<1>6. inbox' \in [Hosts -> [Hosts \cup {NoId} -> Seq(Messages)]] /\ inbox'[h][f] = Tail(inbox[h][f])
  BY <1>1, <1>2, <1>3, <1>4
<1>7. \A k \in Hosts, e \in Hosts \cup {NoId} : (k # h \/ e # f) => inbox'[k][e] = inbox[k][e]
  BY <1>1, <1>2, <1>3
<1>8. \A k \in Hosts, e \in Hosts \cup {NoId} : Elems(inbox'[k][e]) \subseteq Elems(inbox[k][e])
  BY <1>4, <1>6, <1>7
<1> QED
  BY <1>2, <1>3, <1>4, <1>5, <1>6, <1>7, <1>8 DEF Popped

Queued(h, f, m) ==
  /\ inbox[h][f] \in Seq(Messages)
  /\ inbox' \in [Hosts -> [Hosts \cup {NoId} -> Seq(Messages)]]
  /\ inbox'[h][f] = Append(inbox[h][f], m)
  /\ Elems(inbox'[h][f]) = Elems(inbox[h][f]) \cup {m}
  /\ \A k \in Hosts, e \in Hosts \cup {NoId} :
       (k # h \/ e # f) => inbox'[k][e] = inbox[k][e]

LEMMA QueueFacts ==
  ASSUME TypeOK, NEW h \in Hosts, NEW f \in Hosts \cup {NoId}, NEW m \in Messages, Queue(h, f, m)
  PROVE  Queued(h, f, m)
<1>1. inbox \in [Hosts -> [Hosts \cup {NoId} -> Seq(Messages)]] /\ inbox[h][f] \in Seq(Messages)
  <2>1. inbox \in [Hosts -> [Hosts \cup {NoId} -> Seq(Messages)]]
    BY DEF TypeOK
  <2> QED
    BY <2>1
<1>2. inbox' = [inbox EXCEPT ![h][f] = Append(@, m)]
  BY DEF Queue
<1>3. Append(inbox[h][f], m) \in Seq(Messages)
      /\ Elems(Append(inbox[h][f], m)) = Elems(inbox[h][f]) \cup {m}
  BY <1>1, ElemsAppend
<1>4. inbox' \in [Hosts -> [Hosts \cup {NoId} -> Seq(Messages)]]
      /\ inbox'[h][f] = Append(inbox[h][f], m)
  BY <1>1, <1>2, <1>3
<1>5. \A k \in Hosts, e \in Hosts \cup {NoId} : (k # h \/ e # f) => inbox'[k][e] = inbox[k][e]
  BY <1>1, <1>2
<1> QED
  BY <1>1, <1>3, <1>4, <1>5 DEF Queued

Stepped(h) ==
  /\ Head(todo[h]) \in Steps /\ Head(todo[h]) \in Elems(todo[h])
  /\ Elems(todo[h]) = {Head(todo[h])} \cup Elems(todo'[h])
  /\ todo' \in [Hosts -> Seq(Steps)]
  /\ \A k \in Hosts : Elems(todo'[k]) \subseteq Elems(todo[k])
  /\ \A k \in Hosts : k # h => todo'[k] = todo[k]

LEMMA DidFacts ==
  ASSUME TypeOK, NEW h \in Hosts, todo[h] # None, Did(h)
  PROVE  Stepped(h)
<1>1. todo \in [Hosts -> Seq(Steps)] /\ todo[h] \in Seq(Steps) /\ todo[h] # <<>>
  BY DEF TypeOK, None
<1>2. todo' = [todo EXCEPT ![h] = Tail(@)]
  BY DEF Did
<1>3. /\ Tail(todo[h]) \in Seq(Steps) /\ Head(todo[h]) \in Steps
      /\ Elems(todo[h]) = {Head(todo[h])} \cup Elems(Tail(todo[h]))
  BY <1>1, ElemsTail
<1>4. todo' \in [Hosts -> Seq(Steps)] /\ todo'[h] = Tail(todo[h])
      /\ \A k \in Hosts : k # h => todo'[k] = todo[k]
  BY <1>1, <1>2, <1>3
<1> QED
  BY <1>3, <1>4 DEF Stepped

(* The steps of each kind. *)
LEMMA StepFacts ==
  ASSUME NEW s \in Steps
  PROVE  /\ s[1] = "start" => \E h \in Hosts : s = <<"start", h>>
         /\ s[1] = "cmd" => s \in {Cmd("DONE"), Cmd("EXIT")}
         /\ s[1] \in Types \cup {"close"} => s[2] \in Hosts /\ s = <<s[1], s[2]>>
  BY DEF Steps, Cmd, Types

-----------------------------------------------------------------------------
(* What keeps each part of Inv. *)
LEMMA RunFrame ==
  ASSUME RunInv,
         \A k \in Hosts : mon'[k] = "run" =>
           /\ mon[k] = "run"
           /\ Cmd("DONE") \in Elems(todo'[k]) => Cmd("DONE") \in Elems(todo[k])
           /\ "DONE" \in Elems(cmd'[k]) => "DONE" \in Elems(cmd[k])
           /\ sched'[k] = "flushing" => sched[k] = "flushing"
           /\ \A m \in Elems(inbox'[k][k]) : IsFlushed(m) => m \in Elems(inbox[k][k])
  PROVE  RunInv'
BY DEF RunInv, IsFlushed, Cmd

LEMMA WhoFrame ==
  ASSUME WhoInv,
         \A k \in Hosts, e \in Hosts \cup {NoId} :
           \A m \in Elems(inbox'[k][e]) : IsFlushed(m) => m \in Elems(inbox[k][e]),
         \A k, g \in Hosts : \A m \in Elems(wire'[k][g]) : IsFlushed(m) => m \in Elems(wire[k][g]),
         \A k, g \in Hosts :
           <<"FLUSHED", g>> \in Elems(todo'[k]) => <<"FLUSHED", g>> \in Elems(todo[k])
  PROVE  WhoInv'
BY DEF WhoInv, IsFlushed

LEMMA FlagFrame ==
  ASSUME FlagInv,
         \A k \in Hosts :
           /\ k \in schedDone'[k] => k \in schedDone[k]
           /\ \A m \in Elems(inbox'[k][k]) : IsFlushed(m) => m \in Elems(inbox[k][k])
           /\ sched[k] \in {"flushing", "exited"} => sched'[k] \in {"flushing", "exited"}
  PROVE  FlagInv'
BY DEF FlagInv, IsFlushed

LEMMA SentFrame ==
  ASSUME SentInv, schedDone' = schedDone,
         \A g \in Remotes :
           /\ <<"FLUSHED", Primary>> \in Elems(todo'[g]) => <<"FLUSHED", Primary>> \in Elems(todo[g])
           /\ \A m \in Elems(wire'[g][Primary]) : IsFlushed(m) => Coming(g)
           /\ \A m \in Elems(inbox'[Primary][g]) : IsFlushed(m) => Coming(g)
  PROVE  SentInv'
BY DEF SentInv, Coming, IsFlushed

LEMMA ExitFrame ==
  ASSUME ExitInv, \A k \in Hosts : schedDone[k] \subseteq schedDone'[k],
         \A k \in Hosts : Leaving(k)' => Leaving(k)
  PROVE  ExitInv'
BY DEF ExitInv, AllDone

LEMMA OrderFrame ==
  ASSUME OrderInv,
         \A g \in Remotes :
           <<"FLUSHED", Primary>> \in Elems(todo'[g]) =>
             \/ <<"DONE", Primary>> \notin Elems(todo'[g])
             \/ <<"FLUSHED", Primary>> \in Elems(todo[g]) /\ <<"DONE", Primary>> \in Elems(todo[g]),
         mon'[Primary] = "run" =>
           mon[Primary] = "run" /\ \A g \in Remotes : Ordered(g) => Ordered(g)'
  PROVE  OrderInv'
BY DEF OrderInv

LEMMA OrderedFrame ==
  ASSUME NEW g \in Remotes, Ordered(g), Told(g)' => Told(g),
         inbox'[Primary][g] = inbox[Primary][g], wire'[g][Primary] = wire[g][Primary]
  PROVE  Ordered(g)'
BY DEF Ordered

LEMMA OrderedPop ==
  ASSUME NEW g \in Remotes, Ordered(g), Told(g)' => Told(g), wire'[g][Primary] = wire[g][Primary],
         NEW h \in Hosts, NEW f \in Producers(h), NEW type, Popped(h, f, type), type # "DONE"
  PROVE  Ordered(g)'
<1>1. CASE h = Primary /\ f = g
  <2>1. /\ inbox[Primary][g] \in Seq(Messages) /\ inbox[Primary][g] # <<>>
        /\ inbox'[Primary][g] = Tail(inbox[Primary][g]) /\ Head(inbox[Primary][g]).type # "DONE"
    BY <1>1 DEF Popped
  <2>2. /\ HasDone(Tail(inbox[Primary][g])) = HasDone(inbox[Primary][g])
        /\ Led(inbox[Primary][g]) => Led(Tail(inbox[Primary][g]))
    BY <2>1, LedTail
  <2> QED
    BY <2>1, <2>2 DEF Ordered
<1>2. CASE ~(h = Primary /\ f = g)
  <2>1. inbox'[Primary][g] = inbox[Primary][g]
    BY <1>2, HostFacts DEF Popped
  <2> QED
    BY <2>1, OrderedFrame
<1> QED
  BY <1>1, <1>2

-----------------------------------------------------------------------------
(* Every step of a monitor keeps Inv. *)
LEMMA MonKillInv ==
  ASSUME Inv, NEW h \in Hosts, NEW f \in Producers(h), MonKill(h, f)
  PROVE  Inv'
<1>a. TypeOK /\ RunInv /\ WhoInv /\ FlagInv /\ SentInv /\ ExitInv /\ OrderInv
  BY DEF Inv
<1>b. Pop(h, f, "KILL")
  BY DEF MonKill
<1> DEFINE kills == IF mon[h] = "run" \/ Upstream(h) THEN ToProxies(h, "KILL") ELSE None
<1>0. Popped(h, f, "KILL")
  BY <1>a, <1>b, PopFacts
<1>1. /\ mon[h] # "stopped" /\ Elems(todo[h]) = {}
      /\ inbox' \in [Hosts -> [Hosts \cup {NoId} -> Seq(Messages)]]
      /\ \A k \in Hosts, e \in Hosts \cup {NoId} :
           /\ Elems(inbox'[k][e]) \subseteq Elems(inbox[k][e])
           /\ (k # h \/ e # f) => inbox'[k][e] = inbox[k][e]
  BY <1>0 DEF Popped
<1>2. kills \in Seq(Steps) /\ Elems(kills) \subseteq {"KILL"} \X Peers(h)
  <2>1. None \in Seq(Steps) /\ Elems(None) = {}
    BY ElemsEmpty DEF None
  <2>2. ToProxies(h, "KILL") \in Seq(Steps) /\ Elems(ToProxies(h, "KILL")) = {"KILL"} \X Peers(h)
    BY ToProxiesFacts DEF Types
  <2> QED
    BY <2>1, <2>2
<1>3. mon' = [mon EXCEPT ![h] = "stopped"] /\ todo' = [todo EXCEPT ![h] = kills]
      /\ UNCHANGED <<schedDone, sched, cmd, wire, rcvDone, rcv, app>>
  BY DEF MonKill, schedVars, proxyVars
<1> HIDE DEF kills
<1>4. /\ mon \in [Hosts -> {"run", "flush", "stopped"}] /\ todo \in [Hosts -> Seq(Steps)]
  BY <1>a DEF TypeOK
<1>5. /\ mon' \in [Hosts -> {"run", "flush", "stopped"}] /\ todo' \in [Hosts -> Seq(Steps)]
      /\ mon'[h] = "stopped" /\ \A k \in Hosts : k # h => mon'[k] = mon[k] /\ todo'[k] = todo[k]
      /\ todo'[h] = kills
  BY <1>2, <1>3, <1>4
<1>6. \A k \in Hosts :
        /\ \A g \in Hosts : <<"FLUSHED", g>> \in Elems(todo'[k]) => k # h /\ <<"FLUSHED", g>> \in Elems(todo[k])
        /\ \A c : Cmd(c) \in Elems(todo'[k]) => k # h /\ Cmd(c) \in Elems(todo[k])
  BY <1>2, <1>5 DEF Cmd
<1>7. TypeOK'
  BY <1>a, <1>1, <1>3, <1>5 DEF TypeOK
<1>8. RunInv'
  BY <1>a, <1>1, <1>3, <1>5, <1>6, RunFrame
<1>9. WhoInv'
  BY <1>a, <1>1, <1>3, <1>6, WhoFrame
<1>10. FlagInv'
  BY <1>a, <1>1, <1>3, FlagFrame
<1>11. SentInv'
  <2> SUFFICES ASSUME NEW g \in Remotes, NEW m, IsFlushed(m),
                      m \in Elems(wire'[g][Primary]) \/ m \in Elems(inbox'[Primary][g])
               PROVE  Coming(g)
    BY <1>a, <1>3, <1>6, HostFacts, SentFrame
  <2> QED
    BY <1>1, <1>3, HostFacts DEF Coming
<1>12. ExitInv'
  BY <1>a, <1>3, <1>6, ExitFrame DEF Leaving, AppStopped
<1>13. OrderInv'
  <2>1. ASSUME mon'[Primary] = "run", NEW g \in Remotes, Ordered(g)
        PROVE  Ordered(g)'
    <3>1. h # Primary /\ Told(g)' => Told(g)
      BY <1>3, <1>5, <1>6, <2>1, HostFacts DEF Told
    <3> QED
      BY <1>1, <1>3, <1>5, <2>1, <3>1, HostFacts, OrderedFrame
  <2> QED
    BY <1>a, <1>3, <1>5, <1>6, <2>1, HostFacts, OrderFrame
<1> QED
  BY <1>7, <1>8, <1>9, <1>10, <1>11, <1>12, <1>13 DEF Inv

LEMMA MonStartInv ==
  ASSUME Inv, NEW h \in Hosts, NEW f \in Producers(h), MonStart(h, f)
  PROVE  Inv'
<1>a. TypeOK /\ RunInv /\ WhoInv /\ FlagInv /\ SentInv /\ ExitInv /\ OrderInv
  BY DEF Inv
<1>b. Pop(h, f, "START")
  BY DEF MonStart
<1> DEFINE starts == <<<<"start", h>>>> \o (IF Upstream(h) THEN ToProxies(h, "START") ELSE None)
           tells == IF mon[h] = "flush" THEN None ELSE starts
<1>0. Popped(h, f, "START")
  BY <1>a, <1>b, PopFacts
<1>1. /\ Elems(todo[h]) = {}
      /\ inbox' \in [Hosts -> [Hosts \cup {NoId} -> Seq(Messages)]]
      /\ \A k \in Hosts, e \in Hosts \cup {NoId} : Elems(inbox'[k][e]) \subseteq Elems(inbox[k][e])
  BY <1>0 DEF Popped
<1>2. tells \in Seq(Steps) /\ Elems(tells) \subseteq {<<"start", h>>} \cup ({"START"} \X Peers(h))
  <2>1. None \in Seq(Steps) /\ Elems(None) = {}
    BY ElemsEmpty DEF None
  <2>2. starts \in Seq(Steps) /\ Elems(starts) \subseteq {<<"start", h>>} \cup ({"START"} \X Peers(h))
    BY StartFacts
  <2> HIDE DEF starts
  <2> QED
    BY <2>1, <2>2
<1>3. todo' = [todo EXCEPT ![h] = tells]
      /\ UNCHANGED <<mon, schedDone, sched, cmd, wire, rcvDone, rcv, app>>
  BY DEF MonStart, schedVars, proxyVars
<1> HIDE DEF tells, starts
<1>4. todo \in [Hosts -> Seq(Steps)]
  BY <1>a DEF TypeOK
<1>5. /\ todo' \in [Hosts -> Seq(Steps)] /\ todo'[h] = tells
      /\ \A k \in Hosts : k # h => todo'[k] = todo[k]
  BY <1>2, <1>3, <1>4
<1>6. \A k \in Hosts :
        /\ \A g \in Hosts : <<"FLUSHED", g>> \in Elems(todo'[k]) => k # h /\ <<"FLUSHED", g>> \in Elems(todo[k])
        /\ \A c : Cmd(c) \in Elems(todo'[k]) => k # h /\ Cmd(c) \in Elems(todo[k])
  BY <1>2, <1>5 DEF Cmd
<1>7. TypeOK'
  BY <1>a, <1>1, <1>3, <1>5 DEF TypeOK
<1>8. RunInv'
  BY <1>a, <1>1, <1>3, <1>5, <1>6, RunFrame
<1>9. WhoInv'
  BY <1>a, <1>1, <1>3, <1>6, WhoFrame
<1>10. FlagInv'
  BY <1>a, <1>1, <1>3, FlagFrame
<1>11. SentInv'
  <2> SUFFICES ASSUME NEW g \in Remotes, NEW m, IsFlushed(m),
                      m \in Elems(wire'[g][Primary]) \/ m \in Elems(inbox'[Primary][g])
               PROVE  Coming(g)
    BY <1>a, <1>3, <1>6, HostFacts, SentFrame
  <2> QED
    BY <1>1, <1>3, HostFacts DEF Coming
<1>12. ExitInv'
  BY <1>a, <1>3, <1>6, ExitFrame DEF Leaving, AppStopped
<1>13. OrderInv'
  <2>1. ASSUME mon'[Primary] = "run", NEW g \in Remotes, Ordered(g)
        PROVE  Ordered(g)'
    <3>1. Told(g)' => Told(g)
      BY <1>1, <1>3, <1>5, <1>6, HostFacts DEF Told
    <3> QED
      BY <1>0, <1>3, <2>1, <3>1, OrderedPop
  <2> QED
    BY <1>a, <1>3, <1>5, <1>6, <2>1, HostFacts, OrderFrame
<1> QED
  BY <1>7, <1>8, <1>9, <1>10, <1>11, <1>12, <1>13 DEF Inv

LEMMA MonDoneInv ==
  ASSUME Inv, NEW h \in Hosts, NEW f \in Producers(h), MonDone(h, f)
  PROVE  Inv'
<1>a. TypeOK /\ RunInv /\ WhoInv /\ FlagInv /\ SentInv /\ ExitInv /\ OrderInv
  BY DEF Inv
<1>b. Pop(h, f, "DONE")
  BY DEF MonDone
<1> DEFINE tells == <<Cmd("DONE")>> \o ToProxies(h, "DONE")
<1>0. Popped(h, f, "DONE")
  BY <1>a, <1>b, PopFacts
<1>1. /\ Elems(todo[h]) = {}
      /\ inbox' \in [Hosts -> [Hosts \cup {NoId} -> Seq(Messages)]]
      /\ \A k \in Hosts, e \in Hosts \cup {NoId} :
           /\ Elems(inbox'[k][e]) \subseteq Elems(inbox[k][e])
           /\ (k # h \/ e # f) => inbox'[k][e] = inbox[k][e]
  BY <1>0 DEF Popped
<1>2. tells \in Seq(Steps) /\ Elems(tells) = {Cmd("DONE")} \cup ({"DONE"} \X Peers(h))
  BY DoneFacts
<1>3. mon' = [mon EXCEPT ![h] = "flush"] /\ todo' = [todo EXCEPT ![h] = tells]
      /\ UNCHANGED <<schedDone, sched, cmd, wire, rcvDone, rcv, app>>
  BY DEF MonDone, schedVars, proxyVars
<1> HIDE DEF tells
<1>4. /\ mon \in [Hosts -> {"run", "flush", "stopped"}] /\ todo \in [Hosts -> Seq(Steps)]
  BY <1>a DEF TypeOK
<1>5. /\ mon' \in [Hosts -> {"run", "flush", "stopped"}] /\ todo' \in [Hosts -> Seq(Steps)]
      /\ mon'[h] = "flush" /\ \A k \in Hosts : k # h => mon'[k] = mon[k] /\ todo'[k] = todo[k]
      /\ todo'[h] = tells
  BY <1>2, <1>3, <1>4
<1>6. \A k \in Hosts :
        /\ \A g \in Hosts : <<"FLUSHED", g>> \in Elems(todo'[k]) => k # h /\ <<"FLUSHED", g>> \in Elems(todo[k])
        /\ Cmd("EXIT") \in Elems(todo'[k]) => k # h /\ Cmd("EXIT") \in Elems(todo[k])
        /\ k # h => Elems(todo'[k]) = Elems(todo[k])
  BY SMTT(30), <1>2, <1>5 DEF Cmd
<1>7. TypeOK'
  BY <1>a, <1>1, <1>3, <1>5 DEF TypeOK
<1>8. RunInv'
  BY <1>a, <1>1, <1>3, <1>5, <1>6, RunFrame
<1>9. WhoInv'
  BY <1>a, <1>1, <1>3, <1>6, WhoFrame
<1>10. FlagInv'
  BY <1>a, <1>1, <1>3, FlagFrame
<1>11. SentInv'
  <2> SUFFICES ASSUME NEW g \in Remotes, NEW m, IsFlushed(m),
                      m \in Elems(wire'[g][Primary]) \/ m \in Elems(inbox'[Primary][g])
               PROVE  Coming(g)
    BY <1>a, <1>3, <1>6, HostFacts, SentFrame
  <2> QED
    BY <1>1, <1>3, HostFacts DEF Coming
<1>12. ExitInv'
  BY <1>a, <1>3, <1>6, ExitFrame DEF Leaving, AppStopped
<1>13. OrderInv'
  <2>1. ASSUME mon'[Primary] = "run", NEW g \in Remotes, Ordered(g)
        PROVE  Ordered(g)'
    <3>1. h # Primary
      BY <1>5, <2>1
    <3>2. h = g => Peers(h) = {Primary} /\ <<"DONE", Primary>> \in Elems(todo'[g])
      BY <1>2, <1>5, <3>1 DEF Peers
    <3>3. Told(g)' => Told(g)
      BY <1>5, <3>2, HostFacts DEF Told
    <3> QED
      BY <1>1, <1>3, <2>1, <3>1, <3>3, HostFacts, OrderedFrame
  <2> QED
    BY <1>a, <1>3, <1>5, <1>6, <2>1, HostFacts, OrderFrame
<1> QED
  BY <1>7, <1>8, <1>9, <1>10, <1>11, <1>12, <1>13 DEF Inv

LEMMA MonIgnoreDoneInv ==
  ASSUME Inv, NEW h \in Hosts, NEW f \in Producers(h), MonIgnoreDone(h, f)
  PROVE  Inv'
<1>a. TypeOK /\ RunInv /\ WhoInv /\ FlagInv /\ SentInv /\ ExitInv /\ OrderInv
  BY DEF Inv
<1>b. Pop(h, f, "DONE") /\ mon[h] = "flush"
  BY DEF MonIgnoreDone
<1>0. Popped(h, f, "DONE")
  BY <1>a, <1>b, PopFacts
<1>1. /\ inbox' \in [Hosts -> [Hosts \cup {NoId} -> Seq(Messages)]]
      /\ \A k \in Hosts, e \in Hosts \cup {NoId} :
           /\ Elems(inbox'[k][e]) \subseteq Elems(inbox[k][e])
           /\ (k # h \/ e # f) => inbox'[k][e] = inbox[k][e]
  BY <1>0 DEF Popped
<1>2. UNCHANGED <<mon, todo, schedDone, sched, cmd, wire, rcvDone, rcv, app>>
  BY DEF MonIgnoreDone, monVars, schedVars, proxyVars
<1>3. TypeOK'
  BY <1>a, <1>1, <1>2 DEF TypeOK
<1>4. RunInv'
  BY <1>a, <1>1, <1>2, RunFrame
<1>5. WhoInv'
  BY <1>a, <1>1, <1>2, WhoFrame
<1>6. FlagInv'
  BY <1>a, <1>1, <1>2, FlagFrame
<1>7. SentInv'
  <2> SUFFICES ASSUME NEW g \in Remotes, NEW m, IsFlushed(m),
                      m \in Elems(wire'[g][Primary]) \/ m \in Elems(inbox'[Primary][g])
               PROVE  Coming(g)
    BY <1>a, <1>2, HostFacts, SentFrame
  <2> QED
    BY <1>1, <1>2, HostFacts DEF Coming
<1>8. ExitInv'
  BY <1>a, <1>2, ExitFrame DEF Leaving, AppStopped
<1>9. OrderInv'
  <2>1. ASSUME mon'[Primary] = "run", NEW g \in Remotes, Ordered(g)
        PROVE  Ordered(g)'
    <3>1. h # Primary /\ (Told(g)' => Told(g))
      BY <1>b, <1>2, <2>1 DEF Told
    <3> QED
      BY <1>1, <1>2, <2>1, <3>1, HostFacts, OrderedFrame
  <2> QED
    BY <1>a, <1>2, <2>1, HostFacts, OrderFrame
<1> QED
  BY <1>3, <1>4, <1>5, <1>6, <1>7, <1>8, <1>9 DEF Inv

LEMMA MonFlushedInv ==
  ASSUME Inv, NEW h \in Hosts, NEW f \in Producers(h), MonFlushed(h, f)
  PROVE  Inv'
<1>a. TypeOK /\ RunInv /\ WhoInv /\ FlagInv /\ SentInv /\ ExitInv /\ OrderInv
  BY DEF Inv
<1>b. Pop(h, f, "FLUSHED")
  BY DEF MonFlushed
<1>0. Popped(h, f, "FLUSHED")
  BY <1>a, <1>b, PopFacts
<1>1. /\ mon[h] # "stopped" /\ Elems(todo[h]) = {}
      /\ inbox' \in [Hosts -> [Hosts \cup {NoId} -> Seq(Messages)]]
      /\ \A k \in Hosts, e \in Hosts \cup {NoId} :
           /\ Elems(inbox'[k][e]) \subseteq Elems(inbox[k][e])
           /\ (k # h \/ e # f) => inbox'[k][e] = inbox[k][e]
  BY <1>0 DEF Popped
<1>2. UNCHANGED <<sched, cmd, wire, rcvDone, rcv, app>>
  BY DEF MonFlushed, schedVars, proxyVars
<1>3. CASE mon[h] = "run"
  <2>1. UNCHANGED <<mon, todo, schedDone>>
    BY <1>3 DEF MonFlushed, monVars
  <2>2. TypeOK'
    BY <1>a, <1>1, <1>2, <2>1 DEF TypeOK
  <2>3. RunInv'
    BY <1>a, <1>1, <1>2, <2>1, RunFrame
  <2>4. WhoInv'
    BY <1>a, <1>1, <1>2, <2>1, WhoFrame
  <2>5. FlagInv'
    BY <1>a, <1>1, <1>2, <2>1, FlagFrame
  <2>6. SentInv'
    <3> SUFFICES ASSUME NEW g \in Remotes, NEW m, IsFlushed(m),
                        m \in Elems(wire'[g][Primary]) \/ m \in Elems(inbox'[Primary][g])
                 PROVE  Coming(g)
      BY <1>a, <2>1, HostFacts, SentFrame
    <3> QED
      BY <1>1, <1>2, HostFacts DEF Coming
  <2>7. ExitInv'
    BY <1>a, <1>2, <2>1, ExitFrame DEF Leaving, AppStopped
  <2>8. OrderInv'
    <3>1. ASSUME mon'[Primary] = "run", NEW g \in Remotes, Ordered(g)
          PROVE  Ordered(g)'
      <4>1. Told(g)' => Told(g)
        BY <2>1 DEF Told
      <4> QED
        BY <1>0, <1>2, <3>1, <4>1, OrderedPop
    <3> QED
      BY <1>a, <2>1, <3>1, HostFacts, OrderFrame
  <2> QED
    BY <2>2, <2>3, <2>4, <2>5, <2>6, <2>7, <2>8 DEF Inv
<1>4. CASE mon[h] # "run"
  <2> DEFINE m == Head(inbox[h][f])
             done == schedDone[h] \cup {m.id}
  <2>1. mon[h] = "flush"
    BY <1>a, <1>1, <1>4 DEF TypeOK
  <2>2. /\ m \in Messages /\ IsFlushed(m) /\ m \in Elems(inbox[h][f]) /\ f \in Hosts \cup {NoId}
        /\ m.id \in Hosts \cup {NoId}
    BY <1>0, HostFacts DEF Popped, IsFlushed, Messages
  <2>3. \/ f = h /\ m.id = h
        \/ h = Primary /\ f \in Remotes /\ m.id = f
    BY <1>a, <2>2 DEF WhoInv
  <2>4. /\ schedDone' = [schedDone EXCEPT ![h] = done]
        /\ IF AllDone(h, done)
           THEN /\ todo' = [todo EXCEPT ![h] = Finale(h)]
                /\ mon' = [mon EXCEPT ![h] = "stopped"]
           ELSE todo' = todo /\ mon' = mon
    BY <1>4 DEF MonFlushed
  <2>5. Finale(h) \in Seq(Steps)
        /\ Elems(Finale(h)) \subseteq {Cmd("EXIT")} \cup ({"KILL", "close"} \X Peers(h))
                                      \cup (IF Upstream(h) THEN {} ELSE {<<"FLUSHED", Primary>>})
    BY FinaleFacts
  <2>6. /\ mon \in [Hosts -> {"run", "flush", "stopped"}] /\ todo \in [Hosts -> Seq(Steps)]
        /\ schedDone \in [Hosts -> SUBSET (Hosts \cup {NoId})]
    BY <1>a DEF TypeOK
  <2> HIDE DEF m
  <2>7. /\ schedDone' \in [Hosts -> SUBSET (Hosts \cup {NoId})]
        /\ schedDone'[h] = done /\ \A k \in Hosts : k # h => schedDone'[k] = schedDone[k]
    BY <2>2, <2>4, <2>6
  <2> HIDE DEF done
  <2>8. /\ mon' \in [Hosts -> {"run", "flush", "stopped"}] /\ todo' \in [Hosts -> Seq(Steps)]
        /\ mon'[h] \in {"flush", "stopped"}
        /\ \A k \in Hosts : k # h => mon'[k] = mon[k] /\ todo'[k] = todo[k]
        /\ Elems(todo'[h]) # {} => AllDone(h, done) /\ todo'[h] = Finale(h)
    BY <1>1, <2>1, <2>4, <2>5, <2>6
  <2>9. /\ \A g \in Hosts : <<"FLUSHED", g>> \in Elems(todo'[h]) => ~Upstream(h) /\ g = Primary
        /\ <<"DONE", Primary>> \notin Elems(todo'[h])
    BY <2>5, <2>8 DEF Cmd
  <2>10. TypeOK'
    BY <1>a, <1>1, <1>2, <2>7, <2>8 DEF TypeOK
  <2>11. RunInv'
    BY <1>a, <1>1, <1>2, <2>8, RunFrame
  <2>12. WhoInv'
    <3>1. \A k, g \in Hosts : <<"FLUSHED", g>> \in Elems(todo'[k]) => g = Primary /\ k \in Remotes
      <4> SUFFICES ASSUME NEW k \in Hosts, NEW g \in Hosts, <<"FLUSHED", g>> \in Elems(todo'[k])
                   PROVE  g = Primary /\ k \in Remotes
        OBVIOUS
      <4>1. CASE k = h
        BY <2>9, <4>1, HostFacts DEF Upstream
      <4>2. CASE k # h
        BY <1>a, <2>8, <4>2 DEF WhoInv
      <4> QED
        BY <4>1, <4>2
    <3> QED
      BY <1>a, <1>1, <1>2, <3>1 DEF WhoInv
  <2>13. FlagInv'
    <3> SUFFICES ASSUME NEW k \in Hosts,
                        k \in schedDone'[k] \/ \E n \in Elems(inbox'[k][k]) : IsFlushed(n)
                 PROVE  sched[k] \in {"flushing", "exited"}
      BY <1>2 DEF FlagInv
    <3>1. CASE k \in schedDone[k] \/ \E n \in Elems(inbox[k][k]) : IsFlushed(n)
      BY <1>a, <3>1 DEF FlagInv
    <3>2. CASE k = h /\ m.id = h
      BY <1>a, <2>2, <2>3, <3>2, HostFacts DEF FlagInv
    <3> QED
      BY <1>1, <2>7, <3>1, <3>2 DEF done
  <2>14. SentInv'
    <3> SUFFICES ASSUME NEW g \in Remotes, Coming(g)' \/ g \in schedDone'[Primary]
                 PROVE  g \in schedDone'[g]
      BY DEF SentInv
    <3>a. g # Primary /\ g \in Hosts /\ Primary \in Hosts
      BY HostFacts
    <3>b. schedDone[g] \subseteq schedDone'[g]
      BY <2>7, <3>a DEF done
    <3>1. CASE Coming(g) \/ g \in schedDone[Primary]
      BY <1>a, <3>1, <3>b DEF SentInv
    <3>2. CASE g = h /\ <<"FLUSHED", Primary>> \in Elems(todo'[g])
      BY <2>7, <2>8, <3>2 DEF AllDone
    <3>3. CASE h = Primary /\ m.id = g
      <4>1. m \in Elems(inbox[Primary][g]) /\ IsFlushed(m)
        BY <2>2, <2>3, <3>3, <3>a
      <4> QED
        BY <1>a, <3>b, <4>1 DEF SentInv, Coming
    <3>4. Coming(g)' => Coming(g) \/ (g = h /\ <<"FLUSHED", Primary>> \in Elems(todo'[g]))
      BY <1>1, <1>2, <2>8, <3>a DEF Coming
    <3>5. g \in schedDone'[Primary] => g \in schedDone[Primary] \/ (h = Primary /\ m.id = g)
      BY <2>7, <3>a DEF done
    <3> QED
      BY <3>1, <3>2, <3>3, <3>4, <3>5
  <2>15. ExitInv'
    <3> SUFFICES ASSUME NEW k \in Hosts, Leaving(k)'
                 PROVE  AllDone(k, schedDone'[k])
      BY DEF ExitInv, AllDone
    <3>1. CASE Leaving(k)
      <4>1. AllDone(k, schedDone[k]) /\ schedDone[k] \subseteq schedDone'[k]
        BY <1>a, <2>7, <3>1 DEF ExitInv, done
      <4> QED
        BY <4>1 DEF AllDone
    <3>2. CASE k = h /\ Elems(todo'[h]) # {}
      BY <2>7, <2>8, <3>2
    <3> QED
      BY <1>2, <2>8, <3>1, <3>2 DEF Leaving, AppStopped
  <2>16. OrderInv'
    <3>1. ASSUME mon'[Primary] = "run"
          PROVE  h # Primary /\ mon[Primary] = "run"
      BY <2>8, <3>1, HostFacts
    <3>2. ASSUME mon'[Primary] = "run", NEW g \in Remotes, Ordered(g)
          PROVE  Ordered(g)'
      <4>1. Told(g)' => Told(g)
        BY <1>1, <2>1, <2>8, HostFacts DEF Told
      <4> QED
        BY <1>0, <1>2, <3>2, <4>1, OrderedPop
    <3>3. \A g \in Remotes : <<"FLUSHED", Primary>> \in Elems(todo'[g]) =>
             \/ <<"DONE", Primary>> \notin Elems(todo'[g])
             \/ <<"FLUSHED", Primary>> \in Elems(todo[g]) /\ <<"DONE", Primary>> \in Elems(todo[g])
      BY <2>8, <2>9, HostFacts
    <3> QED
      BY <1>a, <3>1, <3>2, <3>3, OrderFrame
  <2> QED
    BY <2>10, <2>11, <2>12, <2>13, <2>14, <2>15, <2>16 DEF Inv
<1> QED
  BY <1>3, <1>4

LEMMA StartSchedulerInv ==
  ASSUME Inv, NEW h \in Hosts, StartScheduler(h)
  PROVE  Inv'
<1>a. TypeOK /\ RunInv /\ WhoInv /\ FlagInv /\ SentInv /\ ExitInv /\ OrderInv
  BY DEF Inv
<1>b. Stepped(h) /\ Head(todo[h])[1] = "start"
  BY <1>a, DidFacts DEF StartScheduler, Does
<1>1. /\ todo' \in [Hosts -> Seq(Steps)]
      /\ \A k \in Hosts : Elems(todo'[k]) \subseteq Elems(todo[k])
      /\ \A k \in Hosts : k # h => todo'[k] = todo[k]
      /\ \A g : <<"DONE", g>> \in Elems(todo[h]) => <<"DONE", g>> \in Elems(todo'[h])
  BY <1>b DEF Stepped
<1>2. /\ UNCHANGED <<mon, inbox, schedDone, cmd, wire, rcvDone, rcv, app>>
      /\ sched' = [sched EXCEPT ![h] = IF @ = "idle" THEN "running" ELSE @]
  BY DEF StartScheduler, proxyVars
<1>3. sched \in [Hosts -> {"idle", "running", "flushing", "exited"}]
  BY <1>a DEF TypeOK
<1>4. sched' \in [Hosts -> {"idle", "running", "flushing", "exited"}]
      /\ \A k \in Hosts : sched'[k] # sched[k] => sched[k] = "idle" /\ sched'[k] = "running"
  BY <1>2, <1>3
<1>5. TypeOK'
  BY <1>a, <1>1, <1>2, <1>4 DEF TypeOK
<1>6. RunInv'
  BY <1>a, <1>1, <1>2, <1>4, RunFrame
<1>7. WhoInv'
  BY <1>a, <1>1, <1>2, WhoFrame
<1>8. FlagInv'
  BY <1>a, <1>2, <1>4, FlagFrame
<1>9. SentInv'
  <2> SUFFICES ASSUME NEW g \in Remotes, NEW m, IsFlushed(m),
                      m \in Elems(wire'[g][Primary]) \/ m \in Elems(inbox'[Primary][g])
               PROVE  Coming(g)
    BY <1>a, <1>1, <1>2, HostFacts, SentFrame
  <2> QED
    BY <1>2 DEF Coming
<1>10. ExitInv'
  BY <1>a, <1>1, <1>2, <1>4, ExitFrame DEF Leaving, AppStopped
<1>11. OrderInv'
  <2>1. ASSUME mon'[Primary] = "run", NEW g \in Remotes, Ordered(g)
        PROVE  Ordered(g)'
    <3>1. Told(g)' => Told(g)
      BY <1>1, <1>2, HostFacts DEF Told
    <3> QED
      BY <1>2, <2>1, <3>1, OrderedFrame
  <2> QED
    BY <1>a, <1>1, <1>2, <2>1, HostFacts, OrderFrame
<1> QED
  BY <1>5, <1>6, <1>7, <1>8, <1>9, <1>10, <1>11 DEF Inv

LEMMA PushSchedulerInv ==
  ASSUME Inv, NEW h \in Hosts, PushScheduler(h)
  PROVE  Inv'
<1>a. TypeOK /\ RunInv /\ WhoInv /\ FlagInv /\ SentInv /\ ExitInv /\ OrderInv
  BY DEF Inv
<1> DEFINE c == Head(todo[h])[2]
<1>b. Stepped(h) /\ Head(todo[h])[1] = "cmd"
  BY <1>a, DidFacts DEF PushScheduler, Does
<1>c. c \in {"DONE", "EXIT"} /\ Cmd(c) \in Elems(todo[h])
  <2>1. Head(todo[h]) \in Steps /\ Head(todo[h]) \in Elems(todo[h])
    BY <1>b DEF Stepped
  <2>2. Head(todo[h]) \in {Cmd("DONE"), Cmd("EXIT")}
    BY <1>b, <2>1, StepFacts
  <2> QED
    BY <2>1, <2>2 DEF Cmd
<1>1. /\ todo' \in [Hosts -> Seq(Steps)]
      /\ \A k \in Hosts : Elems(todo'[k]) \subseteq Elems(todo[k])
      /\ \A k \in Hosts : k # h => todo'[k] = todo[k]
      /\ \A g : <<"DONE", g>> \in Elems(todo[h]) => <<"DONE", g>> \in Elems(todo'[h])
  BY <1>b DEF Stepped
<1>2. /\ UNCHANGED <<mon, inbox, schedDone, sched, wire, rcvDone, rcv, app>>
      /\ cmd' = [cmd EXCEPT ![h] = Append(@, c)]
  BY DEF PushScheduler, proxyVars
<1> HIDE DEF c
<1>3. cmd \in [Hosts -> Seq({"DONE", "EXIT"})]
  BY <1>a DEF TypeOK
<1>4. Append(cmd[h], c) \in Seq({"DONE", "EXIT"}) /\ Elems(Append(cmd[h], c)) = Elems(cmd[h]) \cup {c}
  BY <1>3, <1>c, ElemsAppend
<1>5. /\ cmd' \in [Hosts -> Seq({"DONE", "EXIT"})]
      /\ Elems(cmd'[h]) = Elems(cmd[h]) \cup {c}
      /\ \A k \in Hosts : k # h => cmd'[k] = cmd[k]
  BY <1>2, <1>3, <1>4
<1>6. TypeOK'
  BY <1>a, <1>1, <1>2, <1>5 DEF TypeOK
<1>7. RunInv'
  <2>1. mon[h] = "run" => c # "DONE"
    BY <1>a, <1>c DEF RunInv
  <2> QED
    BY <1>a, <1>1, <1>2, <1>5, <2>1, RunFrame
<1>8. WhoInv'
  BY <1>a, <1>1, <1>2, WhoFrame
<1>9. FlagInv'
  BY <1>a, <1>2, FlagFrame
<1>10. SentInv'
  <2> SUFFICES ASSUME NEW g \in Remotes, NEW m, IsFlushed(m),
                      m \in Elems(wire'[g][Primary]) \/ m \in Elems(inbox'[Primary][g])
               PROVE  Coming(g)
    BY <1>a, <1>1, <1>2, HostFacts, SentFrame
  <2> QED
    BY <1>2 DEF Coming
<1>11. ExitInv'
  <2>1. \A k \in Hosts : Leaving(k)' => Leaving(k)
    BY <1>c, <1>1, <1>2, <1>5 DEF Leaving, AppStopped
  <2> QED
    BY <1>a, <1>2, <2>1, ExitFrame
<1>12. OrderInv'
  <2>1. ASSUME mon'[Primary] = "run", NEW g \in Remotes, Ordered(g)
        PROVE  Ordered(g)'
    <3>1. Told(g)' => Told(g)
      <4>1. <<"DONE", Primary>> # Cmd(c) /\ Head(todo[h]) = Cmd(c)
        BY <1>b, <1>c, StepFacts DEF Cmd, Stepped, c
      <4> QED
        BY <1>1, <1>2, HostFacts DEF Told
    <3> QED
      BY <1>2, <2>1, <3>1, OrderedFrame
  <2> QED
    BY <1>a, <1>1, <1>2, <2>1, HostFacts, OrderFrame
<1> QED
  BY <1>6, <1>7, <1>8, <1>9, <1>10, <1>11, <1>12 DEF Inv

LEMMA KillProxyInv ==
  ASSUME Inv, NEW h \in Hosts, KillProxy(h)
  PROVE  Inv'
<1>a. TypeOK /\ RunInv /\ WhoInv /\ FlagInv /\ SentInv /\ ExitInv /\ OrderInv
  BY DEF Inv
<1>b. Stepped(h) /\ Head(todo[h])[1] = "close"
  BY <1>a, DidFacts DEF KillProxy, Does
<1>1. /\ todo' \in [Hosts -> Seq(Steps)]
      /\ \A k \in Hosts : Elems(todo'[k]) \subseteq Elems(todo[k])
      /\ \A k \in Hosts : k # h => todo'[k] = todo[k]
      /\ \A g : <<"DONE", g>> \in Elems(todo[h]) => <<"DONE", g>> \in Elems(todo'[h])
  BY <1>b DEF Stepped
<1>2. /\ UNCHANGED <<mon, inbox, schedDone, sched, cmd, wire, rcv, app>>
      /\ rcvDone' = [rcvDone EXCEPT ![h][Head(todo[h])[2]] = TRUE]
  BY DEF KillProxy, schedVars
<1>3. rcvDone \in [Hosts -> [Hosts -> BOOLEAN]]
  BY <1>a DEF TypeOK
<1>4. rcvDone' \in [Hosts -> [Hosts -> BOOLEAN]]
  BY <1>2, <1>3
<1>5. TypeOK'
  BY <1>a, <1>1, <1>2, <1>4 DEF TypeOK
<1>6. RunInv'
  BY <1>a, <1>1, <1>2, RunFrame
<1>7. WhoInv'
  BY <1>a, <1>1, <1>2, WhoFrame
<1>8. FlagInv'
  BY <1>a, <1>2, FlagFrame
<1>9. SentInv'
  <2> SUFFICES ASSUME NEW g \in Remotes, NEW m, IsFlushed(m),
                      m \in Elems(wire'[g][Primary]) \/ m \in Elems(inbox'[Primary][g])
               PROVE  Coming(g)
    BY <1>a, <1>1, <1>2, HostFacts, SentFrame
  <2> QED
    BY <1>2 DEF Coming
<1>10. ExitInv'
  BY <1>a, <1>1, <1>2, ExitFrame DEF Leaving, AppStopped
<1>11. OrderInv'
  <2>1. ASSUME mon'[Primary] = "run", NEW g \in Remotes, Ordered(g)
        PROVE  Ordered(g)'
    <3>1. Told(g)' => Told(g)
      BY <1>1, <1>2, HostFacts DEF Told
    <3> QED
      BY <1>2, <2>1, <3>1, OrderedFrame
  <2> QED
    BY <1>a, <1>1, <1>2, <2>1, HostFacts, OrderFrame
<1> QED
  BY <1>5, <1>6, <1>7, <1>8, <1>9, <1>10, <1>11 DEF Inv

LEMMA PushProxyInv ==
  ASSUME Inv, NEW h \in Hosts, PushProxy(h)
  PROVE  Inv'
<1>a. TypeOK /\ RunInv /\ WhoInv /\ FlagInv /\ SentInv /\ ExitInv /\ OrderInv
  BY DEF Inv
<1> DEFINE g0 == Head(todo[h])[2]
<1>b. PICK type \in {"START", "DONE", "FLUSHED", "KILL"} :
        /\ Does(h, type)
        /\ wire' = IF <<h, g0>> \in Connected
                   THEN [wire EXCEPT ![h][g0] = Append(@, Msg(type, NoId))]
                   ELSE wire
  BY DEF PushProxy
<1>c. Stepped(h) /\ Head(todo[h])[1] = type
  BY <1>a, <1>b, DidFacts DEF PushProxy, Does
<1>d. g0 \in Hosts /\ Head(todo[h]) = <<type, g0>> /\ <<type, g0>> \in Elems(todo[h])
  <2>1. Head(todo[h]) \in Steps /\ Head(todo[h]) \in Elems(todo[h])
    BY <1>c DEF Stepped
  <2> QED
    BY <1>c, <2>1, StepFacts DEF Types
<1>1. /\ todo' \in [Hosts -> Seq(Steps)]
      /\ Elems(todo[h]) = {<<type, g0>>} \cup Elems(todo'[h])
      /\ \A k \in Hosts : Elems(todo'[k]) \subseteq Elems(todo[k])
      /\ \A k \in Hosts : k # h => todo'[k] = todo[k]
  BY <1>c, <1>d DEF Stepped
<1>2. UNCHANGED <<mon, inbox, schedDone, sched, cmd, rcvDone, rcv, app>>
  BY DEF PushProxy, schedVars
<1> HIDE DEF g0
<1> DEFINE m0 == Msg(type, NoId)
<1>3. /\ m0 \in Messages /\ m0.type = type /\ (IsFlushed(m0) => type = "FLUSHED")
  BY DEF Msg, Messages, Types, IsFlushed
<1>4. wire \in [Hosts -> [Hosts -> Seq(Messages)]] /\ wire[h][g0] \in Seq(Messages)
  <2>1. wire \in [Hosts -> [Hosts -> Seq(Messages)]]
    BY <1>a DEF TypeOK
  <2> QED
    BY <1>d, <2>1
<1> HIDE DEF m0
<1>5. Append(wire[h][g0], m0) \in Seq(Messages) /\ Elems(Append(wire[h][g0], m0)) = Elems(wire[h][g0]) \cup {m0}
  BY <1>3, <1>4, ElemsAppend
<1>6. /\ wire' \in [Hosts -> [Hosts -> Seq(Messages)]]
      /\ \A k, g \in Hosts : k # h \/ g # g0 => wire'[k][g] = wire[k][g]
      /\ <<h, g0>> \in Connected => wire'[h][g0] = Append(wire[h][g0], m0)
      /\ <<h, g0>> \notin Connected => wire'[h][g0] = wire[h][g0]
  BY <1>b, <1>d, <1>4, <1>5 DEF m0
<1>7. \A k, g \in Hosts : \A m \in Elems(wire'[k][g]) :
        IsFlushed(m) => m \in Elems(wire[k][g]) \/ (k = h /\ g = g0 /\ type = "FLUSHED")
  <2> SUFFICES ASSUME NEW k \in Hosts, NEW g \in Hosts, NEW m \in Elems(wire'[k][g]), IsFlushed(m),
                      m \notin Elems(wire[k][g])
               PROVE  k = h /\ g = g0 /\ type = "FLUSHED"
    OBVIOUS
  <2>1. k = h /\ g = g0
    BY <1>6
  <2> QED
    BY <1>3, <1>5, <1>6, <2>1
<1>8. TypeOK'
  BY <1>a, <1>1, <1>2, <1>6 DEF TypeOK
<1>9. RunInv'
  BY <1>a, <1>1, <1>2, RunFrame
<1>10. WhoInv'
  <2>1. type = "FLUSHED" => g0 = Primary /\ h \in Remotes
    BY <1>a, <1>d DEF WhoInv
  <2> QED
    BY <1>a, <1>1, <1>2, <1>7, <2>1 DEF WhoInv
<1>11. FlagInv'
  BY <1>a, <1>2, FlagFrame
<1>12. SentInv'
  <2> SUFFICES ASSUME NEW g \in Remotes, NEW m, IsFlushed(m),
                      m \in Elems(wire'[g][Primary]) \/ m \in Elems(inbox'[Primary][g])
               PROVE  Coming(g)
    BY <1>a, <1>1, <1>2, HostFacts, SentFrame
  <2> QED
    BY <1>d, <1>2, <1>7, HostFacts DEF Coming
<1>13. ExitInv'
  BY <1>a, <1>1, <1>2, ExitFrame DEF Leaving, AppStopped
<1>14. OrderInv'
  <2>1. ASSUME mon'[Primary] = "run", NEW g \in Remotes, Ordered(g)
        PROVE  Ordered(g)'
    <3>a. g \in Hosts /\ Primary \in Hosts /\ inbox'[Primary][g] = inbox[Primary][g]
      BY <1>2, HostFacts
    <3>1. CASE h = g /\ g0 = Primary /\ <<h, g0>> \in Connected
      <4>1. wire'[g][Primary] = Append(wire[g][Primary], m0) /\ wire[g][Primary] \in Seq(Messages)
        BY <1>4, <1>6, <3>1
      <4>2. /\ HasDone(wire[g][Primary]) \/ type = "DONE" => HasDone(wire'[g][Primary])
            /\ Led(wire[g][Primary]) /\ (type = "FLUSHED" => HasDone(wire[g][Primary])) => Led(wire'[g][Primary])
        BY <1>3, <4>1, LedAppend
      <4>3. type = "FLUSHED" => HasDone(inbox[Primary][g]) \/ HasDone(wire[g][Primary])
        BY <1>a, <1>d, <2>1, <3>1 DEF Ordered, Told, OrderInv
      <4>4. Told(g)' => Told(g) \/ type = "DONE"
        BY <1>1, <1>2, <3>1 DEF Told
      <4> QED
        BY <2>1, <3>a, <4>2, <4>3, <4>4 DEF Ordered
    <3>2. CASE ~(h = g /\ g0 = Primary /\ <<h, g0>> \in Connected)
      <4>1. wire'[g][Primary] = wire[g][Primary]
        BY <1>6, <3>2, <3>a
      <4>2. Told(g)' => Told(g)
        BY <1>1, <1>2, <3>2, <3>a DEF Told
      <4> QED
        BY <2>1, <3>a, <4>1, <4>2, OrderedFrame
    <3> QED
      BY <3>1, <3>2
  <2> QED
    BY <1>a, <1>1, <1>2, <2>1, HostFacts, OrderFrame
<1> QED
  BY <1>8, <1>9, <1>10, <1>11, <1>12, <1>13, <1>14 DEF Inv

-----------------------------------------------------------------------------
(* The steps of a proxy and of a scheduler keep Inv. *)
LEMMA ReceiveInv ==
  ASSUME Inv, NEW h \in Hosts, NEW g \in Peers(h), Receive(h, g)
  PROVE  Inv'
<1>a. TypeOK /\ RunInv /\ WhoInv /\ FlagInv /\ SentInv /\ ExitInv /\ OrderInv
  BY DEF Inv
<1>b. g \in Hosts /\ g # h /\ g \in Hosts \cup {NoId}
  BY HostFacts
<1> DEFINE s == Head(wire[g][h])
           m0 == Received(h, g, s)
<1>c. UNCHANGED <<mon, todo, schedDone, sched, cmd, rcvDone, app>>
  BY DEF Receive, monVars, schedVars
<1>d. wire[g][h] # <<>> /\ wire' = [wire EXCEPT ![g][h] = Tail(@)] /\ Queue(h, g, m0)
  BY DEF Receive
<1>e. wire \in [Hosts -> [Hosts -> Seq(Messages)]] /\ wire[g][h] \in Seq(Messages)
  <2>1. wire \in [Hosts -> [Hosts -> Seq(Messages)]]
    BY <1>a DEF TypeOK
  <2> QED
    BY <1>b, <2>1
<1>1. /\ Tail(wire[g][h]) \in Seq(Messages) /\ s \in Messages
      /\ Elems(wire[g][h]) = {s} \cup Elems(Tail(wire[g][h]))
  BY <1>d, <1>e, ElemsTail
<1>2. /\ wire' \in [Hosts -> [Hosts -> Seq(Messages)]]
      /\ wire'[g][h] = Tail(wire[g][h])
      /\ \A k, l \in Hosts : k # g \/ l # h => wire'[k][l] = wire[k][l]
  BY <1>b, <1>d, <1>e, <1>1
<1>3. /\ m0 \in Messages /\ m0.type = s.type /\ (h = Primary => m0.id = g)
  BY <1>1, <1>b DEF Received, Upstream, Messages
<1> HIDE DEF m0
<1>4. /\ inbox[h][g] \in Seq(Messages)
      /\ inbox' \in [Hosts -> [Hosts \cup {NoId} -> Seq(Messages)]]
      /\ inbox'[h][g] = Append(inbox[h][g], m0)
      /\ Elems(inbox'[h][g]) = Elems(inbox[h][g]) \cup {m0}
      /\ \A k \in Hosts, e \in Hosts \cup {NoId} :
           (k # h \/ e # g) => inbox'[k][e] = inbox[k][e]
  <2>1. Queued(h, g, m0)
    BY <1>a, <1>b, <1>d, <1>3, QueueFacts
  <2> QED
    BY <2>1 DEF Queued
<1>5. rcv' \in [Hosts -> [Hosts -> {"recv", "ended"}]]
  <2>1. rcv \in [Hosts -> [Hosts -> {"recv", "ended"}]]
    BY <1>a DEF TypeOK
  <2>2. rcv' = [rcv EXCEPT ![h][g] = IF rcvDone[h][g] THEN "ended" ELSE @]
    BY DEF Receive
  <2> QED
    BY <1>b, <2>1, <2>2
<1> HIDE DEF s
<1>6. IsFlushed(m0) => IsFlushed(s) /\ s \in Elems(wire[g][h]) /\ h = Primary /\ g \in Remotes
  BY ZenonT(30), <1>a, <1>b, <1>1, <1>3 DEF WhoInv, IsFlushed
<1>7. \A k \in Hosts, e \in Hosts \cup {NoId} : \A m \in Elems(inbox'[k][e]) :
        m \in Elems(inbox[k][e]) \/ (k = h /\ e = g /\ m = m0)
  <2> SUFFICES ASSUME NEW k \in Hosts, NEW e \in Hosts \cup {NoId}, NEW m \in Elems(inbox'[k][e])
               PROVE  m \in Elems(inbox[k][e]) \/ (k = h /\ e = g /\ m = m0)
    OBVIOUS
  <2>1. CASE k = h /\ e = g
    BY <1>4, <2>1
  <2>2. CASE k # h \/ e # g
    BY <1>4, <2>2
  <2> QED
    BY <2>1, <2>2
<1>8. \A k, l \in Hosts : Elems(wire'[k][l]) \subseteq Elems(wire[k][l])
  BY <1>1, <1>2
<1>9. TypeOK'
  BY <1>a, <1>c, <1>2, <1>4, <1>5 DEF TypeOK
<1>10. RunInv'
  BY <1>a, <1>b, <1>c, <1>7, RunFrame
<1>11. WhoInv'
  BY ZenonT(30), <1>a, <1>c, <1>3, <1>6, <1>7, <1>8 DEF WhoInv
<1>12. FlagInv'
  BY <1>a, <1>b, <1>c, <1>7, FlagFrame
<1>13. SentInv'
  <2> SUFFICES ASSUME NEW k \in Remotes, NEW m, IsFlushed(m),
                      m \in Elems(wire'[k][Primary]) \/ m \in Elems(inbox'[Primary][k])
               PROVE  Coming(k)
    BY <1>a, <1>c, HostFacts, SentFrame
  <2> QED
    BY <1>6, <1>7, <1>8, HostFacts DEF Coming
<1>14. ExitInv'
  BY <1>a, <1>c, ExitFrame DEF Leaving, AppStopped
<1>15. OrderInv'
  <2>1. ASSUME mon'[Primary] = "run", NEW k \in Remotes, Ordered(k)
        PROVE  Ordered(k)'
    <3>a. Told(k)' = Told(k) /\ k \in Hosts /\ Primary \in Hosts
      BY <1>c, HostFacts DEF Told
    <3>1. CASE h = Primary /\ g = k
      <4> DEFINE i == inbox[Primary][k]
                 w == wire[k][Primary]
      <4>1. /\ i \in Seq(Messages) /\ w \in Seq(Messages) /\ w # <<>> /\ s = Head(w)
            /\ inbox'[Primary][k] = Append(i, m0) /\ wire'[k][Primary] = Tail(w)
        BY <1>d, <1>e, <1>2, <1>4, <3>1 DEF s
      <4> HIDE DEF i, w
      <4>2. /\ HasDone(i) \/ m0.type = "DONE" => HasDone(Append(i, m0))
            /\ Led(i) /\ (IsFlushed(m0) => HasDone(i)) => Led(Append(i, m0))
        BY <1>3, <4>1, LedAppend
      <4>3. /\ Led(w) => ~IsFlushed(s)
            /\ s.type # "DONE" => (HasDone(Tail(w)) = HasDone(w)) /\ (Led(w) => Led(Tail(w)))
        BY <4>1, LedTail
      <4>4. /\ Led(i) /\ (HasDone(i) \/ Led(w)) /\ (Told(k) => HasDone(i) \/ HasDone(w))
        BY <2>1 DEF Ordered, i, w
      <4>5. Led(inbox'[Primary][k])
        BY <1>6, <4>1, <4>2, <4>3, <4>4
      <4>6. HasDone(inbox'[Primary][k]) \/ Led(wire'[k][Primary])
        BY <1>3, <4>1, <4>2, <4>3, <4>4
      <4>7. Told(k) => HasDone(inbox'[Primary][k]) \/ HasDone(wire'[k][Primary])
        BY <1>3, <4>1, <4>2, <4>3, <4>4
      <4> QED
        BY <3>a, <4>5, <4>6, <4>7 DEF Ordered
    <3>2. CASE ~(h = Primary /\ g = k)
      <4>1. inbox'[Primary][k] = inbox[Primary][k] /\ wire'[k][Primary] = wire[k][Primary]
        BY <1>2, <1>4, <3>2, <3>a
      <4> QED
        BY <2>1, <3>a, <4>1, OrderedFrame
    <3> QED
      BY <3>1, <3>2
  <2> QED
    BY <1>a, <1>c, <2>1, HostFacts, OrderFrame
<1> QED
  BY <1>9, <1>10, <1>11, <1>12, <1>13, <1>14, <1>15 DEF Inv

LEMMA BlockDoneInv ==
  ASSUME Inv, NEW h \in Hosts, BlockDone(h)
  PROVE  Inv'
<1>a. TypeOK /\ RunInv /\ WhoInv /\ FlagInv /\ SentInv /\ ExitInv /\ OrderInv
  BY DEF Inv
<1> DEFINE m0 == Msg("DONE", h)
<1>b. m0 \in Messages /\ m0.type = "DONE" /\ m0.id = h
  BY DEF Msg, Messages, Types
<1>c. UNCHANGED <<mon, todo, schedDone, sched, cmd, wire, rcvDone, rcv, app>> /\ Queue(h, h, m0)
  BY DEF BlockDone, monVars, schedVars, proxyVars
<1> HIDE DEF m0
<1>1. /\ inbox' \in [Hosts -> [Hosts \cup {NoId} -> Seq(Messages)]]
      /\ Elems(inbox'[h][h]) = Elems(inbox[h][h]) \cup {m0}
      /\ \A k \in Hosts, e \in Hosts \cup {NoId} :
           (k # h \/ e # h) => inbox'[k][e] = inbox[k][e]
  <2>1. Queued(h, h, m0)
    BY <1>a, <1>b, <1>c, QueueFacts
  <2> QED
    BY <2>1 DEF Queued
<1>2. \A k \in Hosts, e \in Hosts \cup {NoId} : \A m \in Elems(inbox'[k][e]) :
        m \in Elems(inbox[k][e]) \/ (k = h /\ e = h /\ m = m0)
  BY <1>1
<1>3. TypeOK'
  BY <1>a, <1>c, <1>1 DEF TypeOK
<1>4. RunInv'
  BY <1>a, <1>b, <1>c, <1>2, RunFrame DEF IsFlushed
<1>5. WhoInv'
  BY SMTT(30), <1>a, <1>b, <1>c, <1>2 DEF WhoInv, IsFlushed
<1>6. FlagInv'
  BY <1>a, <1>b, <1>c, <1>2, FlagFrame DEF IsFlushed
<1>7. SentInv'
  <2> SUFFICES ASSUME NEW g \in Remotes, NEW m, IsFlushed(m),
                      m \in Elems(wire'[g][Primary]) \/ m \in Elems(inbox'[Primary][g])
               PROVE  Coming(g)
    BY <1>a, <1>c, HostFacts, SentFrame
  <2> QED
    BY <1>c, <1>2, HostFacts DEF Coming
<1>8. ExitInv'
  BY <1>a, <1>c, ExitFrame DEF Leaving, AppStopped
<1>9. OrderInv'
  <2>1. ASSUME mon'[Primary] = "run", NEW g \in Remotes, Ordered(g)
        PROVE  Ordered(g)'
    <3>1. inbox'[Primary][g] = inbox[Primary][g] /\ (Told(g)' => Told(g))
      BY <1>c, <1>1, HostFacts DEF Told
    <3> QED
      BY <1>c, <2>1, <3>1, OrderedFrame
  <2> QED
    BY <1>a, <1>c, <2>1, HostFacts, OrderFrame
<1> QED
  BY <1>3, <1>4, <1>5, <1>6, <1>7, <1>8, <1>9 DEF Inv

LEMMA FlushedInv ==
  ASSUME Inv, NEW h \in Hosts, Flushed(h)
  PROVE  Inv'
<1>a. TypeOK /\ RunInv /\ WhoInv /\ FlagInv /\ SentInv /\ ExitInv /\ OrderInv
  BY DEF Inv
<1> DEFINE m0 == Msg("FLUSHED", h)
<1>b. m0 \in Messages /\ m0.type = "FLUSHED" /\ m0.id = h
  BY DEF Msg, Messages, Types
<1>c. UNCHANGED <<mon, todo, schedDone, sched, cmd, wire, rcvDone, rcv, app>> /\ Queue(h, h, m0) /\ sched[h] = "flushing"
  BY DEF Flushed, monVars, schedVars, proxyVars
<1> HIDE DEF m0
<1>1. /\ inbox' \in [Hosts -> [Hosts \cup {NoId} -> Seq(Messages)]]
      /\ Elems(inbox'[h][h]) = Elems(inbox[h][h]) \cup {m0}
      /\ \A k \in Hosts, e \in Hosts \cup {NoId} :
           (k # h \/ e # h) => inbox'[k][e] = inbox[k][e]
  <2>1. Queued(h, h, m0)
    BY <1>a, <1>b, <1>c, QueueFacts
  <2> QED
    BY <2>1 DEF Queued
<1>2. \A k \in Hosts, e \in Hosts \cup {NoId} : \A m \in Elems(inbox'[k][e]) :
        m \in Elems(inbox[k][e]) \/ (k = h /\ e = h /\ m = m0)
  BY <1>1
<1>3. TypeOK'
  BY <1>a, <1>c, <1>1 DEF TypeOK
<1>4. RunInv'
  <2>1. mon[h] # "run"
    BY <1>a, <1>c DEF RunInv
  <2> QED
    BY <1>a, <1>c, <1>2, <2>1, RunFrame
<1>5. WhoInv'
  <2>1. \A k \in Hosts, f \in Hosts \cup {NoId} : \A m \in Elems(inbox'[k][f]) :
          IsFlushed(m) => \/ f = k /\ m.id = k
                          \/ k = Primary /\ f \in Remotes /\ m.id = f
    <3> SUFFICES ASSUME NEW k \in Hosts, NEW f \in Hosts \cup {NoId}, NEW m \in Elems(inbox'[k][f]),
                        IsFlushed(m)
                 PROVE  \/ f = k /\ m.id = k
                        \/ k = Primary /\ f \in Remotes /\ m.id = f
      OBVIOUS
    <3>1. CASE m \in Elems(inbox[k][f])
      BY <1>a, <3>1 DEF WhoInv
    <3>2. CASE k = h /\ f = h /\ m = m0
      BY <1>b, <3>2
    <3> QED
      BY <1>2, <3>1, <3>2
  <2> QED
    BY <1>a, <1>c, <2>1 DEF WhoInv
<1>6. FlagInv'
  BY <1>a, <1>c, <1>2 DEF FlagInv
<1>7. SentInv'
  <2> SUFFICES ASSUME NEW g \in Remotes, NEW m, IsFlushed(m),
                      m \in Elems(wire'[g][Primary]) \/ m \in Elems(inbox'[Primary][g])
               PROVE  Coming(g)
    BY <1>a, <1>c, HostFacts, SentFrame
  <2> QED
    BY <1>c, <1>2, HostFacts DEF Coming
<1>8. ExitInv'
  BY <1>a, <1>c, ExitFrame DEF Leaving, AppStopped
<1>9. OrderInv'
  <2>1. ASSUME mon'[Primary] = "run", NEW g \in Remotes, Ordered(g)
        PROVE  Ordered(g)'
    <3>1. inbox'[Primary][g] = inbox[Primary][g] /\ (Told(g)' => Told(g))
      BY <1>c, <1>1, HostFacts DEF Told
    <3> QED
      BY <1>c, <2>1, <3>1, OrderedFrame
  <2> QED
    BY <1>a, <1>c, <2>1, HostFacts, OrderFrame
<1> QED
  BY <1>3, <1>4, <1>5, <1>6, <1>7, <1>8, <1>9 DEF Inv

LEMMA TakeCommandInv ==
  ASSUME Inv, NEW h \in Hosts, TakeCommand(h)
  PROVE  Inv'
<1>a. TypeOK /\ RunInv /\ WhoInv /\ FlagInv /\ SentInv /\ ExitInv /\ OrderInv
  BY DEF Inv
<1> DEFINE c == Head(cmd[h])
<1>b. UNCHANGED <<mon, todo, inbox, schedDone, wire, rcvDone, rcv, app>>
  BY DEF TakeCommand, monVars, proxyVars
<1>c. /\ sched[h] \in {"running", "flushing"} /\ cmd[h] # <<>> /\ cmd' = [cmd EXCEPT ![h] = Tail(@)]
      /\ sched' = [sched EXCEPT ![h] = IF c = "DONE" THEN "flushing" ELSE "exited"]
  BY DEF TakeCommand
<1>d. cmd \in [Hosts -> Seq({"DONE", "EXIT"})] /\ sched \in [Hosts -> {"idle", "running", "flushing", "exited"}]
  BY <1>a DEF TypeOK
<1>1. /\ c \in {"DONE", "EXIT"} /\ c \in Elems(cmd[h]) /\ Tail(cmd[h]) \in Seq({"DONE", "EXIT"})
      /\ Elems(Tail(cmd[h])) \subseteq Elems(cmd[h])
  BY <1>c, <1>d, ElemsTail
<1> HIDE DEF c
<1>2. /\ cmd' \in [Hosts -> Seq({"DONE", "EXIT"})]
      /\ \A k \in Hosts : Elems(cmd'[k]) \subseteq Elems(cmd[k])
  BY <1>c, <1>d, <1>1
<1>3. /\ sched' \in [Hosts -> {"idle", "running", "flushing", "exited"}]
      /\ sched'[h] = IF c = "DONE" THEN "flushing" ELSE "exited"
      /\ \A k \in Hosts : k # h => sched'[k] = sched[k]
  BY <1>c, <1>d
<1>4. TypeOK'
  BY <1>a, <1>b, <1>2, <1>3 DEF TypeOK
<1>5. RunInv'
  <2>1. mon[h] = "run" => c # "DONE"
    BY <1>a, <1>1 DEF RunInv
  <2> QED
    BY <1>a, <1>b, <1>2, <1>3, <2>1, RunFrame
<1>6. WhoInv'
  BY <1>a, <1>b, WhoFrame
<1>7. FlagInv'
  BY <1>a, <1>b, <1>3, FlagFrame
<1>8. SentInv'
  <2> SUFFICES ASSUME NEW g \in Remotes, NEW m, IsFlushed(m),
                      m \in Elems(wire'[g][Primary]) \/ m \in Elems(inbox'[Primary][g])
               PROVE  Coming(g)
    BY <1>a, <1>b, HostFacts, SentFrame
  <2> QED
    BY <1>b DEF Coming
<1>9. ExitInv'
  <2>1. \A k \in Hosts : Leaving(k)' => Leaving(k)
    BY <1>b, <1>1, <1>2, <1>3 DEF Leaving, AppStopped
  <2> QED
    BY <1>a, <1>b, <2>1, ExitFrame
<1>10. OrderInv'
  BY <1>a, <1>b DEF OrderInv, Ordered, Told
<1> QED
  BY <1>4, <1>5, <1>6, <1>7, <1>8, <1>9, <1>10 DEF Inv

-----------------------------------------------------------------------------
(* The steps of the application keep Inv. *)
LEMMA AppQueueInv ==
  ASSUME Inv, NEW type \in {"START", "KILL"}, Queue(Primary, AppId, Msg(type, NoId)),
         UNCHANGED <<mon, todo, schedDone, sched, cmd, wire, rcvDone, rcv>>,
         app' \in {"new", "waiting", "stopping", "stopped"}, AppStopped' = AppStopped
  PROVE  Inv'
<1>a. TypeOK /\ RunInv /\ WhoInv /\ FlagInv /\ SentInv /\ ExitInv /\ OrderInv
  BY DEF Inv
<1> DEFINE m0 == Msg(type, NoId)
<1>b. m0 \in Messages /\ ~IsFlushed(m0)
  BY DEF Msg, Messages, Types, IsFlushed
<1>c. Queue(Primary, NoId, m0) /\ Primary \in Hosts /\ NoId \in Hosts \cup {NoId} /\ NoId \notin Hosts
  BY HostFacts DEF AppId
<1> HIDE DEF m0
<1>1. /\ inbox' \in [Hosts -> [Hosts \cup {NoId} -> Seq(Messages)]]
      /\ Elems(inbox'[Primary][NoId]) = Elems(inbox[Primary][NoId]) \cup {m0}
      /\ \A k \in Hosts, e \in Hosts \cup {NoId} :
           (k # Primary \/ e # NoId) => inbox'[k][e] = inbox[k][e]
  <2>1. Queued(Primary, NoId, m0)
    BY <1>a, <1>b, <1>c, QueueFacts
  <2> QED
    BY <2>1 DEF Queued
<1>2. \A k \in Hosts, e \in Hosts \cup {NoId} : \A m \in Elems(inbox'[k][e]) :
        IsFlushed(m) => m \in Elems(inbox[k][e])
  BY <1>b, <1>1
<1>3. TypeOK'
  BY <1>a, <1>1 DEF TypeOK
<1>4. RunInv'
  BY <1>a, <1>2, RunFrame
<1>5. WhoInv'
  BY <1>a, <1>2, WhoFrame
<1>6. FlagInv'
  BY <1>a, <1>2, FlagFrame
<1>7. SentInv'
  <2> SUFFICES ASSUME NEW g \in Remotes, NEW m, IsFlushed(m),
                      m \in Elems(wire'[g][Primary]) \/ m \in Elems(inbox'[Primary][g])
               PROVE  Coming(g)
    BY <1>a, HostFacts, SentFrame
  <2> QED
    BY <1>2, HostFacts DEF Coming
<1>8. ExitInv'
  BY <1>a, ExitFrame DEF Leaving
<1>9. OrderInv'
  <2>1. ASSUME mon'[Primary] = "run", NEW g \in Remotes, Ordered(g)
        PROVE  Ordered(g)'
    <3>1. inbox'[Primary][g] = inbox[Primary][g] /\ (Told(g)' => Told(g))
      BY <1>c, <1>1, HostFacts DEF Told
    <3> QED
      BY <2>1, <3>1, OrderedFrame
  <2> QED
    BY <1>a, <2>1, HostFacts, OrderFrame
<1> QED
  BY <1>3, <1>4, <1>5, <1>6, <1>7, <1>8, <1>9 DEF Inv

LEMMA AppStopInv ==
  ASSUME Inv, AppStop
  PROVE  Inv'
<1>a. TypeOK /\ RunInv /\ WhoInv /\ FlagInv /\ SentInv /\ ExitInv /\ OrderInv
  BY DEF Inv
<1>b. /\ UNCHANGED <<mon, todo, inbox, schedDone, cmd, wire, rcvDone, rcv>> /\ app' = "stopping"
      /\ sched' = [sched EXCEPT ![Primary] = "exited"]
  BY DEF AppStop, monVars, proxyVars
<1>c. sched \in [Hosts -> {"idle", "running", "flushing", "exited"}]
  BY <1>a DEF TypeOK
<1>1. /\ sched' \in [Hosts -> {"idle", "running", "flushing", "exited"}]
      /\ sched'[Primary] = "exited" /\ \A k \in Hosts : k # Primary => sched'[k] = sched[k]
  BY <1>b, <1>c, HostFacts
<1>2. TypeOK'
  BY <1>a, <1>b, <1>1 DEF TypeOK
<1>3. RunInv'
  BY <1>a, <1>b, <1>1, RunFrame
<1>4. WhoInv'
  BY <1>a, <1>b, WhoFrame
<1>5. FlagInv'
  BY <1>a, <1>b, <1>1, FlagFrame
<1>6. SentInv'
  <2> SUFFICES ASSUME NEW g \in Remotes, NEW m, IsFlushed(m),
                      m \in Elems(wire'[g][Primary]) \/ m \in Elems(inbox'[Primary][g])
               PROVE  Coming(g)
    BY <1>a, <1>b, HostFacts, SentFrame
  <2> QED
    BY <1>b DEF Coming
<1>7. ExitInv'
  <2>1. \A k \in Hosts : Leaving(k)' => Leaving(k)
    BY <1>b, <1>1 DEF Leaving, AppStopped
  <2> QED
    BY <1>a, <1>b, <2>1, ExitFrame
<1>8. OrderInv'
  BY <1>a, <1>b DEF OrderInv, Ordered, Told
<1> QED
  BY <1>2, <1>3, <1>4, <1>5, <1>6, <1>7, <1>8 DEF Inv

-----------------------------------------------------------------------------
(* The invariant and what follows from it. *)
LEMMA InvInit == Init => Inv
<1> SUFFICES ASSUME Init PROVE Inv
  OBVIOUS
<1>1. /\ \A h \in Hosts : todo[h] = <<>> /\ cmd[h] = <<>> /\ Producers(h) = Hosts \cup {NoId}
                           /\ schedDone[h] = {} /\ sched[h] = "idle"
      /\ \A h \in Hosts, f \in Hosts \cup {NoId} : inbox[h][f] = <<>>
      /\ \A h, g \in Hosts : wire[h][g] = <<>>
      /\ app = "new"
  BY HostFacts DEF Init, None
<1>2. TypeOK
  <2>1. \A S : <<>> \in Seq(S)
    OBVIOUS
  <2>2. /\ mon \in [Hosts -> {"run", "flush", "stopped"}]
        /\ schedDone \in [Hosts -> SUBSET (Hosts \cup {NoId})]
        /\ sched \in [Hosts -> {"idle", "running", "flushing", "exited"}]
        /\ rcvDone \in [Hosts -> [Hosts -> BOOLEAN]]
        /\ rcv \in [Hosts -> [Hosts -> {"recv", "ended"}]]
    BY DEF Init
  <2>3. todo \in [Hosts -> Seq(Steps)] /\ cmd \in [Hosts -> Seq({"DONE", "EXIT"})]
    BY <2>1 DEF Init, None
  <2>4. inbox = [h \in Hosts |-> [f \in Hosts \cup {NoId} |-> <<>>]]
    BY HostFacts DEF Init
  <2>5. inbox \in [Hosts -> [Hosts \cup {NoId} -> Seq(Messages)]]
    BY <2>1, <2>4
  <2>6. wire \in [Hosts -> [Hosts -> Seq(Messages)]]
    BY <2>1 DEF Init
  <2> QED
    BY <1>1, <2>2, <2>3, <2>5, <2>6 DEF TypeOK
<1>3. RunInv
  BY <1>1, ElemsEmpty DEF RunInv
<1>4. WhoInv
  BY <1>1, ElemsEmpty DEF WhoInv
<1>5. FlagInv
  BY <1>1, ElemsEmpty DEF FlagInv
<1>6. SentInv
  BY <1>1, ElemsEmpty, HostFacts DEF SentInv, Coming
<1>7. ExitInv
  BY <1>1, ElemsEmpty DEF ExitInv, Leaving
<1>8. OrderInv
  <2>1. Led(<<>>)
    BY DEF Led
  <2>2. \A g \in Remotes : mon[g] = "run"
    BY HostFacts DEF Init
  <2> QED
    BY <1>1, <2>1, <2>2, ElemsEmpty, HostFacts DEF OrderInv, Ordered, Told
<1> QED
  BY <1>2, <1>3, <1>4, <1>5, <1>6, <1>7, <1>8 DEF Inv

LEMMA InvStep == Inv /\ [Next]_vars => Inv'
<1> SUFFICES ASSUME Inv, [Next]_vars PROVE Inv'
  OBVIOUS
<1>1. CASE AppStart
  BY <1>1, AppQueueInv DEF AppStart, monVars, schedVars, proxyVars, AppStopped
<1>2. CASE AppStop
  BY <1>2, AppStopInv
<1>3. CASE AppKillMonitor
  BY <1>3, AppQueueInv DEF AppKillMonitor, monVars, schedVars, proxyVars, AppStopped
<1>4. ASSUME NEW h \in Hosts, NEW f \in Producers(h), MonPop(h, f)
      PROVE  Inv'
  BY <1>4, MonKillInv, MonStartInv, MonDoneInv, MonFlushedInv, MonIgnoreDoneInv DEF MonPop
<1>5. ASSUME NEW h \in Hosts, MonDo(h)
      PROVE  Inv'
  BY <1>5, StartSchedulerInv, PushSchedulerInv, PushProxyInv, KillProxyInv DEF MonDo
<1>6. ASSUME NEW h \in Hosts, NEW g \in Peers(h), Receive(h, g)
      PROVE  Inv'
  BY <1>6, ReceiveInv
<1>7. ASSUME NEW h \in Hosts, BlockDone(h) \/ TakeCommand(h) \/ Flushed(h)
      PROVE  Inv'
  BY <1>7, BlockDoneInv, TakeCommandInv, FlushedInv
<1>8. CASE UNCHANGED vars
  BY <1>8 DEF vars, monVars, schedVars, proxyVars, Inv, TypeOK, RunInv, WhoInv, FlagInv, SentInv,
    Coming, ExitInv, Leaving, AppStopped, OrderInv, Ordered, Told
<1> QED
  BY <1>1, <1>2, <1>3, <1>4, <1>5, <1>6, <1>7, <1>8 DEF Next

LEMMA InvHolds == Spec => []Inv
  BY InvInit, InvStep, PTL DEF Spec

(* Every queue, wire and state of the distributed runtime keeps its type,
   for any number of hosts and whichever proxies are connected. *)
THEOREM TypeCorrect == Spec => []TypeOK
<1>1. Inv => TypeOK
  BY DEF Inv
<1> QED
  BY <1>1, InvHolds, PTL

(* A monitor in its first loop never has a FLUSHED before it: its own
   scheduler sends none before it was told to flush, and another host's comes
   behind a DONE of the same host, on the same socket and in the same queue. *)
THEOREM FlushedNotDropped == Spec => []FlushedIsNotDropped
<1>1. Inv => FlushedIsNotDropped
  <2> SUFFICES ASSUME Inv, NEW h \in Hosts, mon[h] = "run", NEW f \in Producers(h), inbox[h][f] # <<>>,
                      Head(inbox[h][f]).type = "FLUSHED"
               PROVE  FALSE
    BY DEF FlushedIsNotDropped
  <2> DEFINE m == Head(inbox[h][f])
  <2>a. RunInv /\ WhoInv /\ OrderInv
    BY DEF Inv
  <2>1. f \in Hosts \cup {NoId} /\ inbox[h][f] \in Seq(Messages)
    <3>1. inbox \in [Hosts -> [Hosts \cup {NoId} -> Seq(Messages)]]
      BY DEF Inv, TypeOK
    <3> QED
      BY <3>1, HostFacts
  <2>2. m \in Elems(inbox[h][f]) /\ IsFlushed(m)
    BY <2>1, ElemsTail DEF IsFlushed
  <2>3. CASE f = h
    BY <2>a, <2>2, <2>3 DEF RunInv
  <2>4. CASE h = Primary /\ f \in Remotes
    <3>1. Led(inbox[h][f])
      BY <2>a, <2>4 DEF OrderInv, Ordered
    <3> QED
      BY <2>1, <2>2, <3>1, LedTail
  <2> QED
    BY <2>a, <2>1, <2>2, <2>3, <2>4 DEF WhoInv
<1> QED
  BY <1>1, InvHolds, PTL

(* Unless the application stops it, no scheduler exits before it was flushed,
   and that of the first host not before those of all hosts were. *)
THEOREM ExitsFollowFlush == Spec => []ExitsAfterFlushed
<1>1. Inv => ExitsAfterFlushed
  <2> SUFFICES ASSUME Inv, ~AppStopped, NEW h \in Hosts, sched[h] = "exited",
                      NEW g \in {h} \cup (IF Upstream(h) THEN Hosts ELSE {})
               PROVE  g \in schedDone[g] /\ sched[g] \in {"flushing", "exited"}
    BY DEF ExitsAfterFlushed
  <2>1. AllDone(h, schedDone[h])
    BY DEF Inv, ExitInv, Leaving
  <2>2. g \in Hosts /\ (g = h \/ (h = Primary /\ g \in Remotes))
    BY HostFacts DEF Upstream
  <2>3. g \in schedDone[g]
    <3>1. CASE g = h
      BY <2>1, <3>1 DEF AllDone
    <3>2. CASE h = Primary /\ g \in Remotes
      BY <2>1, <3>2 DEF AllDone, Upstream, Peers, Inv, SentInv
    <3> QED
      BY <2>2, <3>1, <3>2
  <2> QED
    BY <2>2, <2>3 DEF Inv, FlagInv
<1> QED
  BY <1>1, InvHolds, PTL
=============================================================================
