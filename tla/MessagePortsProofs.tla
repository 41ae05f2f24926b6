-------------------------- MODULE MessagePortsProofs --------------------------
(***************************************************************************)
(* Proofs about MessagePorts, for every number of blocks, threads and      *)
(* posts: if no port feeds more than one other and no message runs in a    *)
(* circle, a block handles each message in the thread that owns it, once   *)
(* and in the order of the posts, however the threads interleave.          *)
(***************************************************************************)
EXTENDS MessagePorts, SequenceTheorems, TLAPS

(* The out port of a is connected to the in port of b alone. *)
Feeds(a, b) == Connected[a] = <<b>>

(* b is a or downstream of it; b is downstream of a. *)
Closed(S) == \A x \in S, y \in Blocks : Feeds(x, y) => y \in S
Onward(a) == {b \in Blocks : \A S \in SUBSET Blocks : a \in S /\ Closed(S) => b \in S}
Below(b, a) == \E c \in Blocks : Feeds(a, c) /\ b \in Onward(c)

(* A message is known by what was posted: its source and its number. *)
Data == {Posts[k][2] : k \in 1..Len(Posts)}

(* What the proofs assume of the flowgraph and of the posts. *)
Forwarding ==
  /\ Owner \in [Blocks -> Threads]
  /\ \A a \in Blocks : Connected[a] = <<>> \/ \E b \in Blocks : Feeds(a, b)
  /\ \A a \in Blocks : ~ Below(a, a)
Numbered ==
  /\ Posts \in Seq(Range(Posts))
  /\ \A k \in 1..Len(Posts) : Posts[k][1] \in Blocks /\ Posts[k][2][2] \in Nat
  /\ \A k, l \in 1..Len(Posts) :
       Posts[k][2][1] = Posts[l][2][1]
         => /\ Posts[k][1] = Posts[l][1]
            /\ k < l => Posts[k][2][2] < Posts[l][2][2]

-----------------------------------------------------------------------------
(* The shapes a thread's script can have; each begins with another step. *)
Stored(b, d) == <<[op |-> "store", block |-> b, data |-> d],
                  [op |-> "post", block |-> b, data |-> d]>>
Posting(b, d) == <<[op |-> "post", block |-> b, data |-> d]>>
Pushing(o, b) == <<[op |-> "push", block |-> b, object |-> o]>>

InHandler(s, b, d) == s \in {Handler(b, d), Stored(b, d), Posting(b, d)}
InPost(s, o, b) == s \in {Delivery(o, b), Pushing(o, b)}

ScriptOK(s, t, ob) ==
  \/ s = <<>>
  \/ \E b \in Blocks, d \in Data : Owner[b] = t /\ InHandler(s, b, d)
  \/ \E b \in Blocks, o \in 1..Len(ob) :
       InPost(s, o, b) /\ (s = Pushing(o, b) => ob[o].callback = b)

(* Where a message is on its way to the handler of a block: with the thread
   that posts it, in the queue of the owner, in the hands of the owner. *)
Items == [data : Data, block : Blocks, stage : 0..2, from : Producers]

Leaving(s, ob, b, d) ==
  \/ \E a \in Blocks : Feeds(a, b) /\ s \in {Stored(a, d), Posting(a, d)}
  \/ \E o \in 1..Len(ob) : InPost(s, o, b) /\ ob[o].data = d
Carries(m, ob, b, d) ==
  m.kind = "message" /\ ob[m.object].callback = b /\ ob[m.object].data = d
Present(i, q, sc, ob) ==
  \/ i.stage = 0 /\ i.from \in Threads /\ Leaving(sc[i.from], ob, i.block, i.data)
  \/ /\ i.stage = 1
     /\ \E k \in 1..Len(q[Owner[i.block]][i.from]) :
          Carries(q[Owner[i.block]][i.from][k], ob, i.block, i.data)
  \/ i.stage = 2 /\ i.from = Owner[i.block] /\ sc[i.from] = Handler(i.block, i.data)
OnTheWay(q, sc, ob) == {i \in Items : Present(i, q, sc, ob)}

-----------------------------------------------------------------------------
(* A message posted to block s is on the route from there, and comes from the
   block before. *)
Route(i, s) ==
  /\ i.block \in Onward(s)
  /\ i.stage \in {0, 1} =>
       \/ i.stage = 1 /\ i.from = "app" /\ i.block = s
       \/ \E a \in Onward(s) : Feeds(a, i.block) /\ i.from = Owner[a]
Routed(I, n) ==
  \A i \in I : \E k \in 1..n : i.data = Posts[k][2] /\ Route(i, Posts[k][1])

(* Of two messages of one source the one that is ahead was posted first. *)
Precedes(d, e) == d[1] = e[1] => d[2] < e[2]
Ahead(j, i) == Below(j.block, i.block) \/ (j.block = i.block /\ j.stage > i.stage)
Ordered(I) == \A i, j \in I : Ahead(j, i) => Precedes(j.data, i.data)

(* What b has handled was posted before what it has still to handle. *)
ToCome(I, b) == {i \in I : i.block = b \/ Below(b, i.block)}
HandledOK(h, b, I, n) ==
  /\ \A x \in 1..Len(h) : h[x].thread = Owner[b] /\ \E k \in 1..n : h[x].data = Posts[k][2]
  /\ \A x, y \in 1..Len(h) : x < y => Precedes(h[x].data, h[y].data)
  /\ \A x \in 1..Len(h), i \in ToCome(I, b) : Precedes(h[x].data, i.data)

(* The messages in a queue are for blocks of its thread, one behind the
   other. *)
QueueOK(s, t, ob) ==
  /\ \A k \in 1..Len(s) : s[k].kind = "message" =>
       /\ s[k].object \in 1..Len(ob)
       /\ ob[s[k].object].callback \in Blocks /\ Owner[ob[s[k].object].callback] = t
  /\ \A k, l \in 1..Len(s) :
       (/\ k < l /\ s[k].kind = "message" /\ s[l].kind = "message"
        /\ ob[s[k].object].callback = ob[s[l].object].callback)
         => Precedes(ob[s[k].object].data, ob[s[l].object].data)

(* An object that is being handed to a port is in no queue, and with no other
   thread. *)
Fresh(o, t, q, sc) ==
  /\ \A u \in Threads, p \in Producers : \A k \in 1..Len(q[u][p]) :
       q[u][p][k].kind = "message" => q[u][p][k].object # o
  /\ \A u \in Threads \ {t}, b \in Blocks : ~ InPost(sc[u], o, b)
AllFresh(q, sc, ob) ==
  \A t \in Threads, o \in 1..Len(ob), b \in Blocks : InPost(sc[t], o, b) => Fresh(o, t, q, sc)

Messages == [kind : {"message"}, object : Nat] \cup [kind : {"system"}, block : Blocks]
              \cup [kind : {"notify"}]
MessageType(q, sc, ob, n, h) ==
  /\ q \in [Threads -> [Producers -> Seq(Messages)]]
  /\ DOMAIN sc = Threads
  /\ ob \in Seq([data : Data, callback : Blocks \cup {None}])
  /\ n \in 0..Len(Posts)
  /\ h \in [Blocks -> Seq([data : Data, thread : Threads])]

Inv(q, sc, ob, n, h) ==
  /\ MessageType(q, sc, ob, n, h)
  /\ \A t \in Threads : ScriptOK(sc[t], t, ob)
  /\ \A t \in Threads, p \in Producers : QueueOK(q[t][p], t, ob)
  /\ AllFresh(q, sc, ob)
  /\ Routed(OnTheWay(q, sc, ob), n) /\ Ordered(OnTheWay(q, sc, ob))
  /\ \A b \in Blocks : HandledOK(h[b], b, OnTheWay(q, sc, ob), n)

MessageInv == Inv(queue, script, objects, posted, handled)

-----------------------------------------------------------------------------
(* The order of the blocks. *)
LEMMA OnwardSelf == ASSUME NEW a \in Blocks PROVE a \in Onward(a)
  BY DEF Onward

(* What a block of Onward(a) feeds is in Onward(a). *)
LEMMA OnwardStep ==
  ASSUME NEW a, NEW b \in Onward(a), NEW c \in Blocks, Feeds(b, c)
  PROVE  c \in Onward(a)
  BY DEF Onward, Closed

(* Downstream of downstream is downstream. *)
LEMMA OnwardTrans ==
  ASSUME NEW a, NEW b \in Onward(a), NEW c \in Onward(b)
  PROVE  c \in Onward(a)
<1>1. Closed(Onward(a))
  BY OnwardStep DEF Closed
<1>2. Onward(a) \in SUBSET Blocks
  BY DEF Onward
<1> QED
  BY <1>1, <1>2 DEF Onward

(* Onward(a) is a and what is below it. *)
LEMMA OnwardSplit ==
  ASSUME NEW a \in Blocks, NEW b \in Onward(a)
  PROVE  b = a \/ Below(b, a)
<1> DEFINE S == {a} \cup {x \in Blocks : Below(x, a)}
<1>1. ASSUME NEW x \in S, NEW y \in Blocks, Feeds(x, y) PROVE y \in S
  <2>1. CASE x = a
    BY <1>1, <2>1, OnwardSelf DEF Below
  <2>2. CASE Below(x, a)
    <3>1. PICK c \in Blocks : Feeds(a, c) /\ x \in Onward(c)
      BY <2>2 DEF Below
    <3>2. y \in Onward(c)
      BY <1>1, <3>1, OnwardStep
    <3>3. Below(y, a)
      BY <3>1, <3>2 DEF Below
    <3> QED
      BY <3>3
  <2> QED
    BY <2>1, <2>2
<1>2. Closed(S) /\ S \in SUBSET Blocks /\ a \in S
  BY <1>1 DEF Closed
<1>3. b \in S
  BY <1>2 DEF Onward
<1> QED
  BY <1>3

(* A port that is connected to one other determines it. *)
LEMMA FeedsOne == ASSUME NEW a, NEW b, NEW c, Feeds(a, b), Feeds(a, c) PROVE b = c
<1>1. <<b>> = <<c>>
  BY DEF Feeds
<1>2. <<b>>[1] = b /\ <<c>>[1] = c
  OBVIOUS
<1> QED
  BY <1>1, <1>2

(* What is below a is downstream of it. *)
LEMMA BelowOnward ==
  ASSUME NEW a \in Blocks, NEW b, Below(b, a)
  PROVE  b \in Blocks /\ b \in Onward(a)
<1>1. PICK c \in Blocks : Feeds(a, c) /\ b \in Onward(c)
  BY DEF Below
<1>2. c \in Onward(a)
  BY <1>1, OnwardSelf, OnwardStep
<1> QED
  BY <1>1, <1>2, OnwardTrans DEF Onward

(* Below a block downstream of a is below a. *)
LEMMA BelowTrans ==
  ASSUME NEW a \in Blocks, NEW b \in Onward(a), NEW c, Below(c, b)
  PROVE  Below(c, a)
<1>1. b = a \/ Below(b, a)
  BY OnwardSplit
<1>2. b \in Blocks
  BY DEF Onward
<1>3. CASE Below(b, a)
  <2>1. PICK d \in Blocks : Feeds(a, d) /\ b \in Onward(d)
    BY <1>3 DEF Below
  <2>2. c \in Onward(b)
    BY <1>2, BelowOnward
  <2>3. c \in Onward(d)
    BY <2>1, <2>2, OnwardTrans
  <2> QED
    BY <2>1, <2>3 DEF Below
<1> QED
  BY <1>1, <1>3

(* Two blocks on the route of one post: one is downstream of the other. *)
LEMMA Compare ==
  ASSUME NEW s \in Blocks, NEW a \in Onward(s), NEW c \in Onward(s)
  PROVE  a = c \/ Below(a, c) \/ Below(c, a)
<1> DEFINE S == {x \in Blocks : x \in Onward(a) \/ a \in Onward(x)}
<1>a. a \in Blocks /\ c \in Blocks
  BY DEF Onward
<1>1. ASSUME NEW x \in S, NEW y \in Blocks, Feeds(x, y) PROVE y \in S
  <2>1. CASE x \in Onward(a)
    BY <1>1, <2>1, OnwardStep
  <2>2. CASE a = x
    BY <1>1, <1>a, <2>2, OnwardSelf, OnwardStep
  <2>3. CASE Below(a, x)
    BY <1>1, <2>3, FeedsOne DEF Below
  <2> QED
    BY <1>1, <2>1, <2>2, <2>3, OnwardSplit
<1>2. Closed(S) /\ S \in SUBSET Blocks /\ s \in S
  BY <1>1 DEF Closed
<1>3. c \in S
  BY <1>2 DEF Onward
<1>4. c \in Onward(a) \/ a \in Onward(c)
  BY <1>3
<1> QED
  BY <1>4, <1>a, OnwardSplit

(* No block is downstream of the one it feeds. *)
LEMMA NoCircle ==
  ASSUME Forwarding, NEW a \in Blocks, NEW b \in Blocks, Feeds(a, b)
  PROVE  a \notin Onward(b)
  BY DEF Forwarding, Below

(* The block before b on a route. *)
LEMMA FeederUnique ==
  ASSUME Forwarding, NEW s \in Blocks, NEW a \in Onward(s), NEW c \in Onward(s),
         NEW b \in Blocks, Feeds(a, b), Feeds(c, b)
  PROVE  a = c
<1>1. a \in Blocks /\ c \in Blocks
  BY DEF Onward
<1>2. ~ Below(a, c)
  BY <1>1, FeedsOne, NoCircle DEF Below
<1>3. ~ Below(c, a)
  BY <1>1, FeedsOne, NoCircle DEF Below
<1> QED
  BY <1>2, <1>3, Compare

(* Nothing on the route is between a block and the one it feeds. *)
LEMMA NoneBetween ==
  ASSUME Forwarding, NEW s \in Blocks, NEW a \in Onward(s), NEW c \in Onward(s),
         NEW b \in Blocks, Feeds(a, b), Below(b, c)
  PROVE  a = c \/ Below(a, c)
<1>1. a \in Blocks /\ c \in Blocks
  BY DEF Onward
<1>2. ASSUME Below(c, a) PROVE FALSE
  <2>1. c \in Onward(b)
    BY <1>2, FeedsOne DEF Below
  <2>2. Below(b, b)
    BY <2>1, BelowTrans
  <2> QED
    BY <2>2 DEF Forwarding
<1> QED
  BY <1>2, Compare

-----------------------------------------------------------------------------
(* Messages of one source are on one route. *)
LEMMA OneRoute ==
  ASSUME Numbered, NEW n \in 0..Len(Posts), NEW I, Routed(I, n),
         NEW i \in I, NEW j \in I, i.data[1] = j.data[1]
  PROVE  \E s \in Blocks : Route(i, s) /\ Route(j, s)
<1>1. PICK k \in 1..n : i.data = Posts[k][2] /\ Route(i, Posts[k][1])
  BY DEF Routed
<1>2. PICK l \in 1..n : j.data = Posts[l][2] /\ Route(j, Posts[l][1])
  BY DEF Routed
<1>3. k \in 1..Len(Posts) /\ l \in 1..Len(Posts)
  BY DEF Numbered
<1>4. Posts[k][1] = Posts[l][1] /\ Posts[k][1] \in Blocks
  BY <1>1, <1>2, <1>3 DEF Numbered
<1> QED
  BY <1>1, <1>2, <1>4

(* Messages of one source that are on their way to one block come from the
   same thread. *)
LEMMA SameFrom ==
  ASSUME Forwarding, Numbered, NEW n \in 0..Len(Posts), NEW I \in SUBSET Items, Routed(I, n),
         NEW i \in I, NEW j \in I, i.data[1] = j.data[1], i.block = j.block,
         i.stage \in {0, 1}, j.stage \in {0, 1}
  PROVE  i.from = j.from
<1>1. PICK s \in Blocks : Route(i, s) /\ Route(j, s)
  BY OneRoute
<1>2. i.block \in Blocks
  BY DEF Items
<1>3. ASSUME NEW a \in Onward(s), Feeds(a, s) PROVE FALSE
  BY <1>3, NoCircle, OnwardSelf, OnwardStep DEF Onward, Forwarding, Below
<1>4. ASSUME NEW a \in Onward(s), NEW c \in Onward(s), Feeds(a, i.block), Feeds(c, i.block)
      PROVE  a = c
  BY <1>2, <1>4, FeederUnique
<1> QED
  BY <1>1, <1>3, <1>4 DEF Route

(* A message moves on: to the next stage, or from the handler of a block
   towards the one it feeds. *)
Moves(i, x) ==
  \/ x.block = i.block /\ x.stage = i.stage + 1 /\ (x.stage = 1 => x.from = i.from)
  \/ i.stage = 2 /\ x.stage = 0 /\ Feeds(i.block, x.block) /\ x.from = Owner[i.block]

(* One message moves on, and it is the first of those that are where it was. *)
MovesOne(I, J, i, x) ==
  /\ J \subseteq I \cup {x} /\ x.data = i.data /\ Moves(i, x)
  /\ \A j \in J : (j.block = i.block /\ j.stage = i.stage) => Precedes(i.data, j.data)

(* A message that moves on stays on its route. *)
LEMMA MoveRouted ==
  ASSUME NEW n \in Nat, NEW I \in SUBSET Items, NEW J, NEW i \in I, NEW x \in Items,
         Routed(I, n), MovesOne(I, J, i, x)
  PROVE  Routed(J, n)
<1>1. PICK k \in 1..n : i.data = Posts[k][2] /\ Route(i, Posts[k][1])
  BY DEF Routed
<1>2. i.block \in Blocks /\ x.block \in Blocks /\ i.stage \in 0..2 /\ x.stage \in 0..2
  BY DEF Items
<1>3. Route(x, Posts[k][1])
  <2>1. CASE x.block = i.block /\ x.stage = i.stage + 1 /\ (x.stage = 1 => x.from = i.from)
    <3>1. CASE i.stage = 0
      BY <1>1, <2>1, <3>1 DEF Route
    <3>2. CASE i.stage # 0
      BY <1>1, <1>2, <2>1, <3>2 DEF Route
    <3> QED
      BY <3>1, <3>2
  <2>2. CASE i.stage = 2 /\ x.stage = 0 /\ Feeds(i.block, x.block) /\ x.from = Owner[i.block]
    BY <1>1, <1>2, <2>2, OnwardStep DEF Route
  <2> QED
    BY <2>1, <2>2 DEF MovesOne, Moves
<1> QED
  BY <1>1, <1>3 DEF MovesOne, Routed

(* A message that moves on, and before which its stage is in order, stays in order
   with all the others. *)
LEMMA MoveOrdered ==
  ASSUME Forwarding, Numbered, NEW n \in 0..Len(Posts), NEW I \in SUBSET Items, NEW J,
         NEW i \in I, NEW x \in Items, Routed(I, n), Ordered(I), MovesOne(I, J, i, x)
  PROVE  Ordered(J)
<1>1. i.block \in Blocks /\ x.block \in Blocks /\ i.stage \in 0..2 /\ x.stage \in 0..2
  BY DEF Items
<1>2. ASSUME NEW j \in J, NEW l \in J, Ahead(j, l), j.data[1] = l.data[1]
      PROVE  Precedes(j.data, l.data)
  <2>1. CASE j \in I /\ l \in I
    BY <1>2, <2>1 DEF Ordered
  <2>2. CASE j = x /\ l \in I
    <3>0. l.block \in Blocks /\ l.stage \in 0..2
      BY <2>2 DEF Items
    <3>1. Ahead(i, l) \/ (l.block = i.block /\ l.stage = i.stage)
      <4>1. CASE x.block = i.block /\ x.stage = i.stage + 1
        <5>1. CASE Below(x.block, l.block)
          BY <4>1, <5>1 DEF Ahead
        <5>2. CASE x.block = l.block /\ x.stage > l.stage
          <6>1. l.stage = i.stage \/ i.stage > l.stage
            BY <1>1, <3>0, <4>1, <5>2
          <6> QED
            BY <4>1, <5>2, <6>1 DEF Ahead
        <5> QED
          BY <1>2, <2>2, <5>1, <5>2 DEF Ahead
      <4>2. CASE i.stage = 2 /\ x.stage = 0 /\ Feeds(i.block, x.block)
        <5>1. Below(x.block, l.block)
          BY <1>2, <2>2, <3>0, <4>2 DEF Ahead
        <5>2. PICK s \in Blocks : i.block \in Onward(s) /\ l.block \in Onward(s)
          BY <1>2, <2>2, OneRoute DEF MovesOne, Route
        <5>3. i.block = l.block \/ Below(i.block, l.block)
          BY <1>1, <4>2, <5>1, <5>2, NoneBetween
        <5>4. l.stage = 2 \/ 2 > l.stage
          BY <3>0
        <5> QED
          BY <4>2, <5>3, <5>4 DEF Ahead
      <4> QED
        BY <4>1, <4>2 DEF MovesOne, Moves
    <3> QED
      BY <1>2, <2>2, <3>1 DEF Ordered, MovesOne
  <2>3. CASE l = x /\ j \in I
    <3>0. j.block \in Blocks /\ j.stage \in 0..2
      BY <2>3 DEF Items
    <3>1. Ahead(j, i)
      <4>1. CASE x.block = i.block /\ x.stage = i.stage + 1
        BY <1>1, <1>2, <2>3, <3>0, <4>1 DEF Ahead
      <4>2. CASE Feeds(i.block, x.block)
        <5>1. j.block \in Onward(x.block)
          BY <1>1, <1>2, <2>3, OnwardSelf, BelowOnward DEF Ahead
        <5> QED
          BY <1>1, <4>2, <5>1 DEF Ahead, Below
      <4> QED
        BY <4>1, <4>2 DEF MovesOne, Moves
    <3> QED
      BY <2>3, <3>1 DEF Ordered, MovesOne
  <2>4. CASE j = x /\ l = x
    BY <1>1, <1>2, <2>4 DEF Ahead, Forwarding
  <2> QED
    BY <2>1, <2>2, <2>3, <2>4 DEF MovesOne
<1> QED
  BY <1>2 DEF Ordered, Precedes

(* What a block has handled stays ahead of a message that moves on. *)
LEMMA MoveHandled ==
  ASSUME NEW n \in Nat, NEW I \in SUBSET Items, NEW J, NEW i \in I, NEW x \in Items,
         MovesOne(I, J, i, x), NEW b \in Blocks, NEW h, HandledOK(h, b, I, n)
  PROVE  HandledOK(h, b, J, n)
<1>1. i.block \in Blocks /\ x.block \in Blocks
  BY DEF Items
<1>2. x \in ToCome(J, b) => i \in ToCome(I, b)
  <2>1. CASE x.block = i.block
    BY <2>1 DEF ToCome
  <2>2. CASE Feeds(i.block, x.block)
    <3>1. x.block \in Onward(i.block)
      BY <1>1, <2>2, OnwardSelf, OnwardStep
    <3>2. ASSUME x.block = b \/ Below(b, x.block) PROVE Below(b, i.block)
      BY <1>1, <2>2, <3>1, <3>2, OnwardSelf, BelowTrans DEF Below
    <3> QED
      BY <3>2 DEF ToCome
  <2> QED
    BY <2>1, <2>2 DEF MovesOne, Moves
<1>3. ASSUME NEW j \in ToCome(J, b) PROVE j \in ToCome(I, b) \/ (j = x /\ i \in ToCome(I, b))
  BY <1>2, <1>3 DEF ToCome, MovesOne
<1>4. ASSUME NEW y \in 1..Len(h), NEW j \in ToCome(J, b) PROVE Precedes(h[y].data, j.data)
  BY <1>3 DEF HandledOK, MovesOne
<1> QED
  BY <1>4 DEF HandledOK

(* The handler of b takes the message i from its thread. *)
LEMMA HandledAppend ==
  ASSUME Forwarding, Numbered, NEW n \in 0..Len(Posts), NEW I \in SUBSET Items, NEW J,
         Routed(I, n), Ordered(I), NEW i \in I, NEW b \in Blocks, i.block = b, i.stage = 2,
         NEW h \in Seq([data : Data, thread : Threads]), HandledOK(h, b, I, n),
         \A j \in ToCome(J, b) : j \in I /\ ~ (j.block = b /\ j.stage = 2)
  PROVE  HandledOK(Append(h, [data |-> i.data, thread |-> Owner[b]]), b, J, n)
<1> DEFINE g == Append(h, [data |-> i.data, thread |-> Owner[b]])
<1>1. /\ Len(g) = Len(h) + 1 /\ Len(h) \in Nat
      /\ \A y \in 1..Len(h) : g[y] = h[y]
      /\ g[Len(h) + 1] = [data |-> i.data, thread |-> Owner[b]]
  OBVIOUS
<1> HIDE DEF g
<1>2. \A y \in 1..Len(g) : y \in 1..Len(h) \/ y = Len(h) + 1
  BY <1>1
<1>3. i \in ToCome(I, b)
  BY DEF ToCome
<1>4. \E k \in 1..n : i.data = Posts[k][2]
  BY DEF Routed
<1>5. \A y \in 1..Len(h) : Precedes(h[y].data, i.data)
  BY <1>3 DEF HandledOK
<1>6. ASSUME NEW j \in ToCome(J, b) PROVE Precedes(i.data, j.data)
  <2>1. j \in I /\ j.block \in Blocks /\ j.stage \in 0..2
    BY <1>6 DEF Items
  <2>2. Ahead(i, j)
    BY <1>6, <2>1 DEF ToCome, Ahead
  <2> QED
    BY <2>1, <2>2 DEF Ordered
<1>7. ASSUME NEW y \in 1..Len(g), NEW j \in ToCome(J, b) PROVE Precedes(g[y].data, j.data)
  <2>1. CASE y = Len(h) + 1
    BY <1>1, <1>6, <2>1
  <2>2. CASE y \in 1..Len(h)
    <3>1. j \in ToCome(I, b)
      BY DEF ToCome
    <3> QED
      BY <1>1, <2>2, <3>1 DEF HandledOK
  <2> QED
    BY <1>2, <2>1, <2>2
<1>8. ASSUME NEW y \in 1..Len(g), NEW z \in 1..Len(g), y < z
      PROVE  Precedes(g[y].data, g[z].data)
  <2>1. CASE z \in 1..Len(h)
    <3>1. y \in 1..Len(h)
      BY <1>1, <1>8, <2>1
    <3> QED
      BY <1>1, <1>8, <2>1, <3>1 DEF HandledOK
  <2>2. CASE z = Len(h) + 1
    <3>1. y \in 1..Len(h)
      BY <1>1, <1>8, <2>2
    <3> QED
      BY <1>1, <1>5, <2>2, <3>1
  <2> QED
    BY <1>2, <2>1, <2>2
<1>9. ASSUME NEW y \in 1..Len(g)
      PROVE  g[y].thread = Owner[b] /\ \E k \in 1..n : g[y].data = Posts[k][2]
  <2>1. CASE y \in 1..Len(h)
    <3>1. h[y].thread = Owner[b] /\ \E k \in 1..n : h[y].data = Posts[k][2]
      BY <2>1 DEF HandledOK
    <3> QED
      BY <1>1, <2>1, <3>1
  <2>2. CASE y = Len(h) + 1
    BY <1>1, <1>4, <2>2
  <2> QED
    BY <1>2, <2>1, <2>2
<1>10. HandledOK(g, b, J, n)
  BY <1>7, <1>8, <1>9 DEF HandledOK
<1> QED
  BY <1>10 DEF g

(* Fewer messages, or none that moves. *)
LEMMA FewerKeep ==
  ASSUME NEW n \in Nat, NEW I, NEW J \in SUBSET I, Routed(I, n), Ordered(I)
  PROVE  /\ Routed(J, n) /\ Ordered(J)
         /\ \A h : \A b \in Blocks : HandledOK(h, b, I, n) => HandledOK(h, b, J, n)
<1>1. Routed(J, n)
  BY DEF Routed
<1>2. Ordered(J)
  BY DEF Ordered
<1>3. ASSUME NEW b \in Blocks, NEW h, HandledOK(h, b, I, n) PROVE HandledOK(h, b, J, n)
  <2>1. ToCome(J, b) \subseteq ToCome(I, b)
    BY DEF ToCome
  <2> QED
    BY <1>3, <2>1 DEF HandledOK
<1> QED
  BY <1>1, <1>2, <1>3

(* A new post is behind all earlier ones of its source. *)
NewPost(k) ==
  [data |-> Posts[k][2], block |-> Posts[k][1], stage |-> 1, from |-> "app"]

(* The next post of a source has a higher number than its earlier ones. *)
LEMMA LaterPost ==
  ASSUME Numbered, NEW n \in Nat, n + 1 <= Len(Posts), NEW k \in 1..n
  PROVE  Precedes(Posts[k][2], Posts[n + 1][2])
<1>1. n + 1 \in 1..Len(Posts) /\ k \in 1..Len(Posts) /\ k < n + 1
  BY DEF Numbered
<1> QED
  BY <1>1 DEF Numbered, Precedes

(* The next post joins behind everything that is on its way or handled. *)
LEMMA PostOrdered ==
  ASSUME Forwarding, Numbered, NEW n \in Nat, n + 1 <= Len(Posts), NEW I \in SUBSET Items, NEW J,
         Routed(I, n), Ordered(I), J \subseteq I \cup {NewPost(n + 1)}
  PROVE  /\ Routed(J, n + 1) /\ Ordered(J)
         /\ \A h : \A b \in Blocks : HandledOK(h, b, I, n) => HandledOK(h, b, J, n + 1)
<1> DEFINE x == NewPost(n + 1)
<1>1. n + 1 \in 1..(n + 1) /\ n + 1 \in 1..Len(Posts) /\ 1..n \subseteq 1..(n + 1)
  BY DEF Numbered
<1>2. x.data = Posts[n + 1][2] /\ x.block = Posts[n + 1][1] /\ x.stage = 1 /\ x.from = "app"
  BY DEF NewPost
<1>3. x.block \in Blocks
  BY <1>1, <1>2 DEF Numbered
<1> HIDE DEF x
<1>4. Route(x, Posts[n + 1][1])
  BY <1>2, <1>3, OnwardSelf DEF Route
<1>5. Routed(J, n + 1)
  BY <1>1, <1>2, <1>4 DEF Routed, x
<1>6. ASSUME NEW j \in I PROVE Precedes(j.data, x.data)
  BY <1>2, LaterPost DEF Routed
<1>7. ASSUME NEW l \in I, l.data[1] = x.data[1] PROVE ~ Ahead(x, l)
  <2>1. PICK k \in 1..n : l.data = Posts[k][2] /\ Route(l, Posts[k][1])
    BY DEF Routed
  <2>2. k \in 1..Len(Posts)
    BY <1>1
  <2>3. Route(l, x.block)
    BY <1>1, <1>2, <1>7, <2>1, <2>2 DEF Numbered
  <2>4. l.block \in Blocks /\ l.stage \in 0..2
    BY DEF Items
  <2>5. ASSUME Below(x.block, l.block) PROVE FALSE
    <3>1. Below(x.block, x.block)
      BY <1>3, <2>3, <2>5, BelowTrans DEF Route
    <3> QED
      BY <1>3, <3>1 DEF Forwarding
  <2>6. ASSUME x.block = l.block, l.stage = 0 PROVE FALSE
    <3>1. PICK a \in Onward(x.block) : Feeds(a, x.block)
      BY <2>3, <2>6 DEF Route
    <3> QED
      BY <1>3, <3>1, NoCircle DEF Onward
  <2> QED
    BY <1>2, <2>4, <2>5, <2>6 DEF Ahead
<1>8. ~ Ahead(x, x)
  BY <1>2, <1>3 DEF Ahead, Forwarding
<1>9. Ordered(J)
  <2>1. ASSUME NEW j \in J, NEW l \in J, Ahead(j, l), j.data[1] = l.data[1]
        PROVE  Precedes(j.data, l.data)
    <3>1. (j \in I \/ j = x) /\ (l \in I \/ l = x)
      BY DEF x
    <3> QED
      BY <1>6, <1>7, <1>8, <2>1, <3>1 DEF Ordered
  <2> QED
    BY <2>1 DEF Ordered, Precedes
<1>10. ASSUME NEW b \in Blocks, NEW h, HandledOK(h, b, I, n) PROVE HandledOK(h, b, J, n + 1)
  <2>1. \A y \in 1..Len(h) : Precedes(h[y].data, x.data)
    BY <1>2, <1>10, LaterPost DEF HandledOK
  <2>2. ASSUME NEW j \in ToCome(J, b) PROVE j \in ToCome(I, b) \/ j = x
    BY DEF ToCome, x
  <2> QED
    BY <1>1, <1>10, <2>1, <2>2 DEF HandledOK
<1> QED
  BY <1>5, <1>9, <1>10

-----------------------------------------------------------------------------
(* The step a script begins with tells its shape. *)
LEMMA HandlerShapes ==
  ASSUME NEW b, NEW d
  PROVE  /\ Handler(b, d) # <<>> /\ Handler(b, d)[1] = [op |-> "load", block |-> b, data |-> d]
         /\ Stored(b, d) # <<>> /\ Stored(b, d)[1] = [op |-> "store", block |-> b, data |-> d]
         /\ Posting(b, d) # <<>> /\ Posting(b, d)[1] = [op |-> "post", block |-> b, data |-> d]
  BY DEF Handler, Stored, Posting

(* The first steps of a script that hands a message to a port. *)
LEMMA PostShapes ==
  ASSUME NEW b, NEW o
  PROVE  /\ Delivery(o, b) # <<>> /\ Delivery(o, b)[1] = [op |-> "bind", block |-> b, object |-> o]
         /\ Pushing(o, b) # <<>> /\ Pushing(o, b)[1] = [op |-> "push", block |-> b, object |-> o]
  BY DEF Delivery, Pushing

(* What is left of a handler after its first step. *)
LEMMA HandlerTails ==
  ASSUME NEW b, NEW d
  PROVE  /\ Tail(Handler(b, d)) = Stored(b, d)
         /\ Tail(Stored(b, d)) = Posting(b, d)
         /\ Tail(Posting(b, d)) = <<>>
<1>1. Tail(Handler(b, d)) = Stored(b, d)
  BY DEF Handler, Stored
<1>2. Tail(Stored(b, d)) = Posting(b, d)
  BY DEF Stored, Posting
<1>3. Tail(Posting(b, d)) = <<>>
  BY DEF Posting
<1> QED
  BY <1>1, <1>2, <1>3

(* What is left of a delivery after its first step. *)
LEMMA PostTails ==
  ASSUME NEW b, NEW o
  PROVE  Tail(Delivery(o, b)) = Pushing(o, b) /\ Tail(Pushing(o, b)) = <<>>
<1>1. Tail(Delivery(o, b)) = Pushing(o, b)
  BY DEF Delivery, Pushing
<1>2. Tail(Pushing(o, b)) = <<>>
  BY DEF Pushing
<1> QED
  BY <1>1, <1>2

(* A script that is not empty has one of five shapes. *)
LEMMA ShapeOf ==
  ASSUME NEW s, NEW t, NEW ob, ScriptOK(s, t, ob), s # <<>>
  PROVE  \/ \E b \in Blocks, d \in Data : Owner[b] = t /\ s = Handler(b, d)
         \/ \E b \in Blocks, d \in Data : Owner[b] = t /\ s = Stored(b, d)
         \/ \E b \in Blocks, d \in Data : Owner[b] = t /\ s = Posting(b, d)
         \/ \E b \in Blocks, o \in 1..Len(ob) : s = Delivery(o, b)
         \/ \E b \in Blocks, o \in 1..Len(ob) : s = Pushing(o, b)
  BY DEF ScriptOK, InHandler, InPost

(* The first step of a handler names its block and data. *)
LEMMA HandlerHead ==
  ASSUME NEW s, NEW b, NEW d, InHandler(s, b, d)
  PROVE  s # <<>> /\ s[1].op \in {"load", "store", "post"} /\ s[1].block = b /\ s[1].data = d
<1>1. /\ s # <<>>
      /\ \/ s[1] = [op |-> "load", block |-> b, data |-> d]
         \/ s[1] = [op |-> "store", block |-> b, data |-> d]
         \/ s[1] = [op |-> "post", block |-> b, data |-> d]
  BY ONLY HandlerShapes, InHandler(s, b, d) DEF InHandler
<1> QED
  BY <1>1

(* The first step of a delivery names its block and object. *)
LEMMA PostHead ==
  ASSUME NEW s, NEW o, NEW b, InPost(s, o, b)
  PROVE  s # <<>> /\ s[1].op \in {"bind", "push"} /\ s[1].object = o /\ s[1].block = b
<1>1. /\ s # <<>>
      /\ \/ s[1] = [op |-> "bind", block |-> b, object |-> o]
         \/ s[1] = [op |-> "push", block |-> b, object |-> o]
  BY ONLY PostShapes, InPost(s, o, b) DEF InPost
<1> QED
  BY <1>1

(* A thread hands over an object that exists to a block of the graph. *)
LEMMA PostShape ==
  ASSUME NEW s, NEW t, NEW ob, ScriptOK(s, t, ob), NEW o, NEW b, InPost(s, o, b)
  PROVE  o \in 1..Len(ob) /\ b \in Blocks
<1>1. s # <<>> /\ s[1].op \in {"bind", "push"} /\ s[1].object = o /\ s[1].block = b
  BY PostHead
<1>2. ASSUME NEW a, NEW d PROVE ~ InHandler(s, a, d)
  BY <1>1, <1>2, HandlerHead
<1>3. PICK a \in Blocks, e \in 1..Len(ob) : InPost(s, e, a)
  BY <1>1, <1>2 DEF ScriptOK
<1>4. s[1].object = e /\ s[1].block = a
  BY <1>3, PostHead
<1> QED
  BY <1>1, <1>3, <1>4

-----------------------------------------------------------------------------
(* The messages of queue s2 are those of s in the same order, its first one
   maybe gone. *)
Kept(s2, s) ==
  \E c \in {0, 1} : \A k \in 1..Len(s2) :
     s2[k].kind = "message" => k + c \in 1..Len(s) /\ s2[k] = s[k + c]

(* A queue that did not change is kept. *)
LEMMA KeptSelf == ASSUME NEW S, NEW s \in Seq(S) PROVE Kept(s, s)
<1>1. \A k \in 1..Len(s) : k + 0 \in 1..Len(s) /\ s[k] = s[k + 0]
  OBVIOUS
<1> QED
  BY <1>1 DEF Kept

(* Taking off the first entry keeps the rest. *)
LEMMA KeptTail == ASSUME NEW S, NEW s \in Seq(S), s # <<>> PROVE Kept(Tail(s), s)
<1>1. \A k \in 1..Len(Tail(s)) : k + 1 \in 1..Len(s) /\ Tail(s)[k] = s[k + 1]
  OBVIOUS
<1> QED
  BY <1>1 DEF Kept

(* An entry of another kind at the end changes no message. *)
LEMMA KeptAppend ==
  ASSUME NEW S, NEW s \in Seq(S), NEW s2 \in Seq(S), Kept(s2, s), NEW m, m.kind # "message"
  PROVE  Kept(Append(s2, m), s)
<1>1. \A k \in 1..Len(Append(s2, m)) :
        (k \in 1..Len(s2) /\ Append(s2, m)[k] = s2[k]) \/ Append(s2, m)[k] = m
  OBVIOUS
<1>2. PICK c \in {0, 1} : \A k \in 1..Len(s2) :
        s2[k].kind = "message" => k + c \in 1..Len(s) /\ s2[k] = s[k + c]
  BY DEF Kept
<1> HIDE DEF Kept
<1>3. \A k \in 1..Len(Append(s2, m)) : Append(s2, m)[k].kind = "message" =>
        k + c \in 1..Len(s) /\ Append(s2, m)[k] = s[k + c]
  BY <1>1, <1>2
<1> QED
  BY <1>3 DEF Kept

(* The objects the queues hold are as they were. *)
SameObjects(q, ob2, ob) ==
  /\ Len(ob) <= Len(ob2)
  /\ \A k \in 1..Len(ob) : ob2[k].data = ob[k].data
  /\ \A t \in Threads, p \in Producers : \A k \in 1..Len(q[t][p]) :
       q[t][p][k].kind = "message" => ob2[q[t][p][k].object] = ob[q[t][p][k].object]

(* A queue that is kept stays well formed. *)
LEMMA KeptQueue ==
  ASSUME NEW ob \in Seq([data : Data, callback : Blocks \cup {None}]),
         NEW ob2 \in Seq([data : Data, callback : Blocks \cup {None}]),
         NEW s \in Seq(Messages), NEW s2 \in Seq(Messages), NEW t, QueueOK(s, t, ob), Kept(s2, s),
         Len(ob) <= Len(ob2),
         \A k \in 1..Len(s) : s[k].kind = "message" => ob2[s[k].object] = ob[s[k].object]
  PROVE  QueueOK(s2, t, ob2)
<1>1. PICK c \in {0, 1} : \A k \in 1..Len(s2) :
        s2[k].kind = "message" => k + c \in 1..Len(s) /\ s2[k] = s[k + c]
  BY DEF Kept
<1>2. ASSUME NEW k \in 1..Len(s2), s2[k].kind = "message"
      PROVE  /\ s2[k].object \in 1..Len(ob2)
             /\ ob2[s2[k].object].callback \in Blocks /\ Owner[ob2[s2[k].object].callback] = t
  <2>1. s[k + c].object \in 1..Len(ob) /\ ob2[s[k + c].object] = ob[s[k + c].object]
    BY <1>1, <1>2 DEF QueueOK
  <2>2. ob[s[k + c].object].callback \in Blocks /\ Owner[ob[s[k + c].object].callback] = t
    BY <1>1, <1>2 DEF QueueOK
  <2>3. s2[k] = s[k + c] /\ 1..Len(ob) \subseteq 1..Len(ob2)
    BY <1>1, <1>2
  <2> QED
    BY <2>1, <2>2, <2>3
<1>3. ASSUME NEW k \in 1..Len(s2), NEW l \in 1..Len(s2), k < l,
             s2[k].kind = "message", s2[l].kind = "message",
             ob2[s2[k].object].callback = ob2[s2[l].object].callback
      PROVE  Precedes(ob2[s2[k].object].data, ob2[s2[l].object].data)
  <2>1. k + c \in 1..Len(s) /\ l + c \in 1..Len(s) /\ k + c < l + c
    BY <1>1, <1>3
  <2>2. s2[k] = s[k + c] /\ s2[l] = s[l + c]
    BY <1>1, <1>3
  <2>3. ob2[s2[k].object] = ob[s[k + c].object] /\ ob2[s2[l].object] = ob[s[l + c].object]
    BY <1>3, <2>1, <2>2
  <2> QED
    BY <1>3, <2>1, <2>2, <2>3 DEF QueueOK
<1> QED
  BY <1>2, <1>3 DEF QueueOK

(* A message that is neither in the hands of t nor in a queue that has got one
   more was there before. *)
LEMMA StillThere ==
  ASSUME NEW q, NEW sc, NEW ob, NEW q2, NEW sc2, NEW ob2, NEW t,
         \A u \in Threads : ScriptOK(sc[u], u, ob),
         \A u \in Threads \ {t} : sc2[u] = sc[u],
         SameObjects(q, ob2, ob),
         NEW j \in OnTheWay(q2, sc2, ob2),
         j.stage \in {0, 2} => j.from # t,
         j.stage = 1 => Kept(q2[Owner[j.block]][j.from], q[Owner[j.block]][j.from]),
         Owner \in [Blocks -> Threads]
  PROVE  j \in OnTheWay(q, sc, ob)
<1>1. j \in Items /\ Present(j, q2, sc2, ob2)
  BY DEF OnTheWay
<1>2. j.block \in Blocks /\ j.from \in Producers /\ Owner[j.block] \in Threads
  BY <1>1 DEF Items
<1>3. CASE j.stage = 0
  <2>1. j.from \in Threads /\ sc2[j.from] = sc[j.from]
    BY <1>1, <1>3 DEF Present
  <2>2. Leaving(sc[j.from], ob2, j.block, j.data)
    BY <1>1, <1>3, <2>1 DEF Present
  <2>3. ASSUME NEW o \in 1..Len(ob2), InPost(sc[j.from], o, j.block), ob2[o].data = j.data
        PROVE  o \in 1..Len(ob) /\ ob[o].data = j.data
    BY <2>1, <2>3, PostShape DEF SameObjects
  <2>4. Leaving(sc[j.from], ob, j.block, j.data)
    BY <2>2, <2>3 DEF Leaving
  <2> QED
    BY <1>1, <1>3, <2>1, <2>4 DEF OnTheWay, Present
<1>4. CASE j.stage = 1
  <2> DEFINE s == q[Owner[j.block]][j.from]
             s2 == q2[Owner[j.block]][j.from]
  <2>1. PICK k \in 1..Len(s2) : Carries(s2[k], ob2, j.block, j.data)
    BY <1>1, <1>4 DEF Present
  <2>2. PICK c \in {0, 1} : \A l \in 1..Len(s2) :
          s2[l].kind = "message" => l + c \in 1..Len(s) /\ s2[l] = s[l + c]
    BY <1>4 DEF Kept
  <2>3. k + c \in 1..Len(s) /\ s2[k] = s[k + c] /\ s2[k].kind = "message"
    BY <2>1, <2>2 DEF Carries
  <2>4. ob2[s2[k].object] = ob[s2[k].object]
    BY <1>2, <2>3 DEF SameObjects
  <2>5. Carries(s[k + c], ob, j.block, j.data)
    BY <2>1, <2>3, <2>4 DEF Carries
  <2> HIDE DEF s2
  <2> QED
    BY <1>1, <1>4, <2>3, <2>5 DEF OnTheWay, Present
<1>5. CASE j.stage = 2
  <2>1. j.from = Owner[j.block] /\ sc2[j.from] = sc[j.from]
    BY <1>1, <1>2, <1>5 DEF Present
  <2> QED
    BY <1>1, <1>5, <2>1 DEF OnTheWay, Present
<1> QED
  BY <1>1, <1>3, <1>4, <1>5 DEF Items

(* What keeps an object fresh that a thread has at hand. *)
LEMMA FreshKept ==
  ASSUME NEW q, NEW sc, NEW ob, NEW q2, NEW sc2, NEW ob2, NEW t \in Threads,
         \A u \in Threads : ScriptOK(sc[u], u, ob),
         AllFresh(q, sc, ob),
         \A u \in Threads \ {t} : sc2[u] = sc[u],
         \A u \in Threads, p \in Producers : Kept(q2[u][p], q[u][p]),
         \A o \in 1..Len(ob2), b \in Blocks : InPost(sc2[t], o, b) => Fresh(o, t, q, sc)
  PROVE  AllFresh(q2, sc2, ob2)
<1>1. ASSUME NEW u \in Threads, NEW o \in 1..Len(ob2), NEW b \in Blocks, InPost(sc2[u], o, b)
      PROVE  Fresh(o, u, q, sc)
  <2>1. CASE u # t
    <3>1. InPost(sc[u], o, b)
      BY <1>1, <2>1
    <3>2. o \in 1..Len(ob)
      BY <3>1, PostShape
    <3> QED
      BY <3>1, <3>2 DEF AllFresh
  <2> QED
    BY <1>1, <2>1
<1>2. ASSUME NEW u \in Threads, NEW o \in 1..Len(ob2), NEW b \in Blocks, InPost(sc2[u], o, b)
      PROVE  Fresh(o, u, q2, sc2)
  <2>1. Fresh(o, u, q, sc)
    BY <1>1, <1>2
  <2>2. ASSUME NEW v \in Threads \ {u}, NEW a \in Blocks PROVE ~ InPost(sc2[v], o, a)
    <3>1. CASE v # t
      BY <2>1, <2>2, <3>1 DEF Fresh
    <3>2. ASSUME v = t, InPost(sc2[t], o, a) PROVE FALSE
      <4>1. Fresh(o, t, q, sc)
        BY <3>2
      <4>2. u \in Threads \ {t} /\ sc2[u] = sc[u]
        BY <2>2, <3>2
      <4> QED
        BY <1>2, <4>1, <4>2 DEF Fresh
    <3> QED
      BY <3>1, <3>2
  <2>3. ASSUME NEW v \in Threads, NEW p \in Producers, NEW k \in 1..Len(q2[v][p]),
               q2[v][p][k].kind = "message"
        PROVE  q2[v][p][k].object # o
    <3>1. PICK c \in {0, 1} : k + c \in 1..Len(q[v][p]) /\ q2[v][p][k] = q[v][p][k + c]
      BY <2>3 DEF Kept
    <3> QED
      BY <2>1, <2>3, <3>1 DEF Fresh
  <2> QED
    BY <2>2, <2>3 DEF Fresh
<1> QED
  BY <1>2 DEF AllFresh

(* The objects the other threads are handing over are as they were. *)
SameInHand(t, sc, ob2, ob) ==
  \A u \in Threads \ {t}, o \in 1..Len(ob), b \in Blocks :
    InPost(sc[u], o, b) => ob2[o] = ob[o]

(* The other threads' scripts stay well formed. *)
LEMMA ScriptKept ==
  ASSUME NEW sc, NEW ob, NEW ob2, NEW t, NEW u \in Threads \ {t},
         ScriptOK(sc[u], u, ob), SameInHand(t, sc, ob2, ob), Len(ob) \in Nat, Len(ob2) \in Nat,
         Len(ob) <= Len(ob2)
  PROVE  ScriptOK(sc[u], u, ob2)
<1>1. 1..Len(ob) \subseteq 1..Len(ob2)
  OBVIOUS
<1> QED
  BY <1>1 DEF ScriptOK, SameInHand

(* A step of t that neither queues a message nor calls a handler. *)
LEMMA StepKept ==
  ASSUME Forwarding, NEW q, NEW sc, NEW ob, NEW n, NEW h, NEW q2, NEW sc2, NEW ob2,
         NEW t \in Threads, Inv(q, sc, ob, n, h), MessageType(q2, sc2, ob2, n, h),
         \A u \in Threads \ {t} : sc2[u] = sc[u],
         \A u \in Threads, p \in Producers : Kept(q2[u][p], q[u][p]),
         SameObjects(q, ob2, ob), SameInHand(t, sc, ob2, ob), ScriptOK(sc2[t], t, ob2),
         \A o \in 1..Len(ob2), b \in Blocks : InPost(sc2[t], o, b) => Fresh(o, t, q, sc),
         \A j \in OnTheWay(q2, sc2, ob2) :
           j.from = t /\ j.stage \in {0, 2} => j \in OnTheWay(q, sc, ob)
  PROVE  Inv(q2, sc2, ob2, n, h)
<1> DEFINE I == OnTheWay(q, sc, ob)
           J == OnTheWay(q2, sc2, ob2)
<1>1. \A u \in Threads : ScriptOK(sc[u], u, ob)
  BY DEF Inv
<1>2. J \subseteq I
  <2>1. ASSUME NEW j \in J PROVE j \in I
    <3>1. j \in Items /\ j.block \in Blocks /\ j.from \in Producers /\ Owner[j.block] \in Threads
      BY DEF OnTheWay, Items, Forwarding
    <3>2. CASE j.from = t /\ j.stage \in {0, 2}
      BY <3>2
    <3>3. CASE ~ (j.from = t /\ j.stage \in {0, 2})
      <4>1. j.stage \in {0, 2} => j.from # t
        BY <3>3
      <4>2. j.stage = 1 => Kept(q2[Owner[j.block]][j.from], q[Owner[j.block]][j.from])
        BY <3>1
      <4> QED
        BY <1>1, <4>1, <4>2, StillThere DEF Forwarding
    <3> QED
      BY <3>2, <3>3
  <2> QED
    BY <2>1
<1>3. ASSUME NEW u \in Threads PROVE ScriptOK(sc2[u], u, ob2)
  <2>1. Len(ob) \in Nat /\ Len(ob2) \in Nat /\ Len(ob) <= Len(ob2)
    BY DEF SameObjects, Inv, MessageType
  <2>2. CASE u # t
    BY <1>1, <2>1, <2>2, ScriptKept
  <2> QED
    BY <2>2
<1>4. ASSUME NEW u \in Threads, NEW p \in Producers PROVE QueueOK(q2[u][p], u, ob2)
  <2>1. q[u][p] \in Seq(Messages) /\ q2[u][p] \in Seq(Messages)
    BY DEF Inv, MessageType
  <2>2. /\ ob \in Seq([data : Data, callback : Blocks \cup {None}])
        /\ ob2 \in Seq([data : Data, callback : Blocks \cup {None}])
    BY DEF Inv, MessageType
  <2>3. /\ Len(ob) <= Len(ob2)
        /\ \A k \in 1..Len(q[u][p]) : q[u][p][k].kind = "message"
             => ob2[q[u][p][k].object] = ob[q[u][p][k].object]
    BY DEF SameObjects
  <2>4. QueueOK(q[u][p], u, ob) /\ Kept(q2[u][p], q[u][p])
    BY DEF Inv
  <2> QED
    BY <2>1, <2>2, <2>3, <2>4, KeptQueue
<1>5. AllFresh(q2, sc2, ob2)
  BY <1>1, FreshKept DEF Inv
<1>6. /\ Routed(J, n) /\ Ordered(J)
      /\ \A b \in Blocks : HandledOK(h[b], b, J, n)
  <2>1. Routed(I, n) /\ Ordered(I) /\ n \in Nat
    BY DEF Inv, MessageType
  <2>2. \A b \in Blocks : HandledOK(h[b], b, I, n)
    BY DEF Inv
  <2> HIDE DEF I, J
  <2> QED
    BY <1>2, <2>1, <2>2, FewerKeep
<1> QED
  BY <1>3, <1>4, <1>5, <1>6 DEF Inv

-----------------------------------------------------------------------------
(* The steps that keep every message where it is. *)
LEMMA QueuesKept ==
  ASSUME Forwarding, NEW q, NEW sc, NEW ob, NEW n, NEW h, NEW q2, NEW t \in Threads,
         Inv(q, sc, ob, n, h), MessageType(q2, sc, ob, n, h),
         \A u \in Threads, p \in Producers : Kept(q2[u][p], q[u][p])
  PROVE  Inv(q2, sc, ob, n, h)
<1>1. SameObjects(q, ob, ob) /\ SameInHand(t, sc, ob, ob)
  BY DEF SameObjects, SameInHand, Inv, MessageType
<1>2. ScriptOK(sc[t], t, ob)
  BY DEF Inv
<1>3. \A o \in 1..Len(ob), b \in Blocks : InPost(sc[t], o, b) => Fresh(o, t, q, sc)
  BY DEF Inv, AllFresh
<1>4. \A j \in OnTheWay(q2, sc, ob) :
        j.from = t /\ j.stage \in {0, 2} => j \in OnTheWay(q, sc, ob)
  BY DEF OnTheWay, Present
<1> QED
  BY <1>1, <1>2, <1>3, <1>4, StepKept

(* The shapes of a script exclude each other. *)
LEMMA NotHandler ==
  ASSUME NEW s, NEW o, NEW b, InPost(s, o, b), NEW a, NEW d
  PROVE  ~ InHandler(s, a, d)
  BY HandlerHead, PostHead

(* The stages of a handler are different scripts, and each determines its block and
   data. *)
LEMMA HandlerApart ==
  ASSUME NEW b, NEW d, NEW a, NEW e
  PROVE  /\ Stored(b, d) # Handler(a, e) /\ Posting(b, d) # Handler(a, e)
         /\ Posting(b, d) # Stored(a, e)
         /\ Handler(b, d) = Handler(a, e) => a = b /\ d = e
         /\ Stored(b, d) = Stored(a, e) => a = b /\ d = e
         /\ Posting(b, d) = Posting(a, e) => a = b /\ d = e
<1>1. /\ Handler(b, d)[1] = [op |-> "load", block |-> b, data |-> d]
      /\ Stored(b, d)[1] = [op |-> "store", block |-> b, data |-> d]
      /\ Posting(b, d)[1] = [op |-> "post", block |-> b, data |-> d]
      /\ Handler(a, e)[1] = [op |-> "load", block |-> a, data |-> e]
      /\ Stored(a, e)[1] = [op |-> "store", block |-> a, data |-> e]
      /\ Posting(a, e)[1] = [op |-> "post", block |-> a, data |-> e]
  BY HandlerShapes
<1>2. \A x, y \in {"load", "store", "post"} :
        [op |-> x, block |-> b, data |-> d] = [op |-> y, block |-> a, data |-> e]
          => x = y /\ a = b /\ d = e
  OBVIOUS
<1> QED
  BY <1>1, <1>2

(* Storing the count moves no message: it was leaving and still is. *)
LEMMA StoreKept ==
  ASSUME Forwarding, NEW q, NEW sc, NEW ob, NEW n, NEW h, NEW q2, NEW sc2, NEW t \in Threads,
         NEW b \in Blocks, NEW d \in Data, sc[t] = Stored(b, d), Owner[b] = t,
         sc2[t] = Posting(b, d), \A u \in Threads \ {t} : sc2[u] = sc[u],
         Inv(q, sc, ob, n, h), MessageType(q2, sc2, ob, n, h),
         \A u \in Threads, p \in Producers : Kept(q2[u][p], q[u][p])
  PROVE  Inv(q2, sc2, ob, n, h)
<1>1. SameObjects(q, ob, ob) /\ SameInHand(t, sc, ob, ob)
  BY DEF SameObjects, SameInHand, Inv, MessageType
<1>3. ScriptOK(sc2[t], t, ob) /\ InHandler(sc2[t], b, d)
  BY DEF ScriptOK, InHandler
<1>4. \A o \in 1..Len(ob), a \in Blocks : InPost(sc2[t], o, a) => Fresh(o, t, q, sc)
  BY <1>3, NotHandler
<1>5. ASSUME NEW j \in OnTheWay(q2, sc2, ob), j.from = t, j.stage \in {0, 2}
      PROVE  j \in OnTheWay(q, sc, ob)
  <2>1. j \in Items /\ Present(j, q2, sc2, ob)
    BY DEF OnTheWay
  <2>2. j.stage = 0 /\ Leaving(sc2[t], ob, j.block, j.data)
    BY <1>5, <2>1, HandlerApart DEF Present
  <2>3. PICK a \in Blocks : Feeds(a, j.block) /\ Posting(b, d) \in {Stored(a, j.data), Posting(a, j.data)}
    BY <1>3, <2>2, NotHandler DEF Leaving
  <2>4. a = b /\ d = j.data
    BY <2>3, HandlerApart
  <2>5. Leaving(sc[t], ob, j.block, j.data)
    BY <2>3, <2>4 DEF Leaving
  <2> QED
    BY <1>5, <2>1, <2>2, <2>5 DEF OnTheWay, Present
<1>6. \A j \in OnTheWay(q2, sc2, ob) :
        j.from = t /\ j.stage \in {0, 2} => j \in OnTheWay(q, sc, ob)
  BY <1>5
<1>7. ScriptOK(sc2[t], t, ob)
  BY <1>3
<1> QED
  BY <1>1, <1>4, <1>6, <1>7, StepKept

(* The script after a post: nothing, or the delivery to the one port. *)
LEMMA PostScript ==
  ASSUME NEW o, NEW ports, NEW b, ports = <<>> \/ ports = <<b>>
  PROVE  Deliveries(o, ports) \o <<>> = (IF ports = <<>> THEN <<>> ELSE Delivery(o, b))
<1>0. \A x, y : <<x, y>> \o <<>> = <<x, y>>
  OBVIOUS
<1>1. CASE ports = <<>>
  <2>1. Deliveries(o, ports) = <<>>
    BY <1>1 DEF Deliveries
  <2> QED
    BY <1>0, <1>1, <2>1
<1>2. CASE ports = <<b>>
  <2>1. Len(ports) = 1 /\ ports # <<>> /\ ports[1] = b
    BY <1>2
  <2>2. Deliveries(o, ports)
          = [k \in 1..2 |-> Delivery(o, ports[(k + 1) \div 2])[2 - (k % 2)]]
    BY <2>1 DEF Deliveries
  <2>3. (1 + 1) \div 2 = 1 /\ (2 + 1) \div 2 = 1 /\ 2 - (1 % 2) = 1 /\ 2 - (2 % 2) = 2
    OBVIOUS
  <2>4. Deliveries(o, ports)[1] = Delivery(o, b)[1] /\ Deliveries(o, ports)[2] = Delivery(o, b)[2]
    BY <2>1, <2>2, <2>3
  <2>5. Deliveries(o, ports) = Delivery(o, b)
    BY <2>2, <2>4 DEF Delivery
  <2> QED
    BY <1>0, <2>1, <2>5 DEF Delivery
<1> QED
  BY <1>1, <1>2

(* A delivery determines its object and block. *)
LEMMA PostApart ==
  ASSUME NEW s, NEW o, NEW b, InPost(s, o, b), NEW e, NEW a, InPost(s, e, a)
  PROVE  e = o /\ a = b
  BY PostHead

(* An object not yet made is fresh. *)
LEMMA NewFresh ==
  ASSUME NEW q, NEW sc, NEW ob, NEW n, NEW h, Inv(q, sc, ob, n, h),
         NEW t, NEW o, o \notin 1..Len(ob)
  PROVE  Fresh(o, t, q, sc)
<1>1. ASSUME NEW u \in Threads, NEW b \in Blocks PROVE ~ InPost(sc[u], o, b)
  BY PostShape DEF Inv
<1>2. ASSUME NEW u \in Threads, NEW p \in Producers, NEW k \in 1..Len(q[u][p]),
             q[u][p][k].kind = "message"
      PROVE  q[u][p][k].object # o
  BY <1>2 DEF Inv, QueueOK
<1> QED
  BY <1>1, <1>2 DEF Fresh

(* The message a thread is in the middle of posting. *)
LEMMA LeavingPost ==
  ASSUME NEW s, NEW o, NEW b, InPost(s, o, b), NEW ob, NEW a, NEW d, Leaving(s, ob, a, d)
  PROVE  a = b /\ d = ob[o].data
<1>1. \A c, e : s \notin {Handler(c, e), Stored(c, e), Posting(c, e)}
  BY NotHandler DEF InHandler
<1>2. PICK e \in 1..Len(ob) : InPost(s, e, a) /\ ob[e].data = d
  BY <1>1 DEF Leaving
<1>3. e = o /\ a = b
  BY <1>2, PostApart
<1> QED
  BY <1>2, <1>3

(* A delivery is no handler. *)
LEMMA NotCalled ==
  ASSUME NEW s, NEW o, NEW b, InPost(s, o, b), NEW a, NEW d
  PROVE  s # Handler(a, d)
  BY NotHandler DEF InHandler

(* A thread with nothing to do holds nothing. *)
LEMMA IdleHolds ==
  ASSUME NEW t \in Threads, NEW q, NEW sc, NEW ob, sc[t] = <<>>, NEW j \in OnTheWay(q, sc, ob),
         j.from = t, j.stage \in {0, 2}
  PROVE  FALSE
<1>1. j \in Items /\ Present(j, q, sc, ob)
  BY DEF OnTheWay
<1>2. \A a, d : <<>> \notin {Handler(a, d), Stored(a, d), Posting(a, d)}
  BY HandlerShapes
<1>3. \A o, a : ~ InPost(<<>>, o, a)
  BY PostHead
<1>4. ~ Leaving(sc[t], ob, j.block, j.data)
  BY <1>2, <1>3 DEF Leaving
<1> QED
  BY <1>1, <1>2, <1>4 DEF Present

(* The script before the callback is stored is not the one after. *)
LEMMA PushLater == ASSUME NEW o, NEW b PROVE Delivery(o, b) # Pushing(o, b)
<1>1. /\ Delivery(o, b)[1] = [op |-> "bind", block |-> b, object |-> o]
      /\ Pushing(o, b)[1] = [op |-> "push", block |-> b, object |-> o]
  BY PostShapes
<1>2. [op |-> "bind", block |-> b, object |-> o] # [op |-> "push", block |-> b, object |-> o]
  OBVIOUS
<1> QED
  BY <1>1, <1>2

(* t posts the message of block b: it makes an object and turns to the ports b feeds. *)
PostedBy(q, sc, ob, n, h, sc2, ob2, t, b, d) ==
  /\ sc[t] = Posting(b, d) /\ Owner[b] = t
  /\ Len(ob2) = Len(ob) + 1 /\ ob2[Len(ob2)].data = d
  /\ \A k \in 1..Len(ob) : ob2[k] = ob[k]
  /\ \/ sc2[t] = <<>>
     \/ \E c \in Blocks : Feeds(b, c) /\ sc2[t] = Delivery(Len(ob2), c)
  /\ \A u \in Threads \ {t} : sc2[u] = sc[u]
  /\ Inv(q, sc, ob, n, h) /\ MessageType(q, sc2, ob2, n, h)

(* Making the object moves no message: it was leaving b and still is. *)
LEMMA PostKept ==
  ASSUME Forwarding, NEW q, NEW sc, NEW ob, NEW n, NEW h, NEW sc2, NEW ob2, NEW t \in Threads,
         NEW b \in Blocks, NEW d \in Data,
         PostedBy(q, sc, ob, n, h, sc2, ob2, t, b, d)
  PROVE  Inv(q, sc2, ob2, n, h)
<1>h. /\ sc[t] = Posting(b, d) /\ Owner[b] = t
      /\ Len(ob2) = Len(ob) + 1 /\ ob2[Len(ob2)].data = d
      /\ \A k \in 1..Len(ob) : ob2[k] = ob[k]
      /\ \/ sc2[t] = <<>>
           \/ \E c \in Blocks : Feeds(b, c) /\ sc2[t] = Delivery(Len(ob2), c)
      /\ \A u \in Threads \ {t} : sc2[u] = sc[u]
      /\ Inv(q, sc, ob, n, h) /\ MessageType(q, sc2, ob2, n, h)
  BY DEF PostedBy
<1> USE <1>h
<1>1. Len(ob) \in Nat
  BY DEF Inv, MessageType
<1>2. SameObjects(q, ob2, ob) /\ SameInHand(t, sc, ob2, ob)
  BY <1>1 DEF SameObjects, SameInHand, Inv, QueueOK
<1>3. \A u \in Threads, p \in Producers : Kept(q[u][p], q[u][p])
  BY KeptSelf DEF Inv, MessageType
<1>4. \A o \in 1..Len(ob2), a \in Blocks : InPost(sc2[t], o, a) => o = Len(ob2) /\ Feeds(b, a)
  <2>1. CASE sc2[t] = <<>>
    BY <2>1, PostHead
  <2>2. ASSUME NEW c \in Blocks, Feeds(b, c), sc2[t] = Delivery(Len(ob2), c),
               NEW o \in 1..Len(ob2), NEW a \in Blocks, InPost(sc2[t], o, a)
        PROVE  o = Len(ob2) /\ Feeds(b, a)
    <3>1. InPost(sc2[t], Len(ob2), c)
      BY <2>2 DEF InPost
    <3>2. o = Len(ob2) /\ a = c
      BY <2>2, <3>1, PostApart
    <3> QED
      BY <2>2, <3>2
  <2> QED
    BY <2>1, <2>2
<1>5. \A o \in 1..Len(ob2), a \in Blocks : InPost(sc2[t], o, a) => Fresh(o, t, q, sc)
  <2>1. Len(ob2) \notin 1..Len(ob)
    BY <1>1
  <2>2. Fresh(Len(ob2), t, q, sc)
    BY <2>1, NewFresh
  <2> QED
    BY <1>4, <2>2
<1>6. ScriptOK(sc2[t], t, ob2)
  <2>1. ASSUME NEW c \in Blocks, sc2[t] = Delivery(Len(ob2), c) PROVE ScriptOK(sc2[t], t, ob2)
    <3>1. InPost(sc2[t], Len(ob2), c) /\ sc2[t] # Pushing(Len(ob2), c)
      BY <2>1, PushLater DEF InPost
    <3> QED
      BY <1>1, <3>1 DEF ScriptOK
  <2> QED
    BY <2>1 DEF ScriptOK
<1>7. ASSUME NEW j \in OnTheWay(q, sc2, ob2), j.from = t, j.stage \in {0, 2}
      PROVE  j \in OnTheWay(q, sc, ob)
  <2>0. j \in Items /\ Present(j, q, sc2, ob2)
    BY DEF OnTheWay
  <2>1. PICK c \in Blocks : Feeds(b, c) /\ InPost(sc2[t], Len(ob2), c)
    BY <1>7, IdleHolds DEF InPost
  <2>2. j.stage = 0 /\ j.block = c /\ j.data = d
    <3>1. j.stage = 0 /\ Leaving(sc2[t], ob2, j.block, j.data)
      BY <1>7, <2>0, <2>1, NotCalled DEF Present
    <3> QED
      BY <2>1, <3>1, LeavingPost
  <2>3. Leaving(sc[t], ob, j.block, j.data)
    BY <2>1, <2>2 DEF Leaving
  <2> QED
    BY <1>7, <2>2, <2>3 DEF OnTheWay, Present
<1>8. \A j \in OnTheWay(q, sc2, ob2) :
        j.from = t /\ j.stage \in {0, 2} => j \in OnTheWay(q, sc, ob)
  BY <1>7
<1> QED
  BY <1>2, <1>3, <1>5, <1>6, <1>8, StepKept

(* t stores the callback of the port of b in object o. *)
BoundBy(q, sc, ob, n, h, sc2, ob2, t, b, o) ==
  /\ sc[t] = Delivery(o, b) /\ sc2[t] = Pushing(o, b)
  /\ Len(ob2) = Len(ob) /\ \A k \in 1..Len(ob) : ob2[k].data = ob[k].data
  /\ \A k \in 1..Len(ob) : k # o => ob2[k] = ob[k]
  /\ ob2[o].callback = b
  /\ \A u \in Threads \ {t} : sc2[u] = sc[u]
  /\ Inv(q, sc, ob, n, h) /\ MessageType(q, sc2, ob2, n, h)

(* An object whose callback is stored is in no queue: no message moves. *)
LEMMA BindKept ==
  ASSUME Forwarding, NEW q, NEW sc, NEW ob, NEW n, NEW h, NEW sc2, NEW ob2, NEW t \in Threads,
         NEW b \in Blocks, NEW o \in 1..Len(ob),
         BoundBy(q, sc, ob, n, h, sc2, ob2, t, b, o)
  PROVE  Inv(q, sc2, ob2, n, h)
<1>h. /\ sc[t] = Delivery(o, b) /\ sc2[t] = Pushing(o, b)
      /\ Len(ob2) = Len(ob) /\ \A k \in 1..Len(ob) : ob2[k].data = ob[k].data
      /\ \A k \in 1..Len(ob) : k # o => ob2[k] = ob[k]
      /\ ob2[o].callback = b
      /\ \A u \in Threads \ {t} : sc2[u] = sc[u]
      /\ Inv(q, sc, ob, n, h) /\ MessageType(q, sc2, ob2, n, h)
  BY DEF BoundBy
<1> USE <1>h
<1>1. Len(ob) \in Nat
  BY DEF Inv, MessageType
<1>2. InPost(sc[t], o, b) /\ InPost(sc2[t], o, b)
  BY DEF InPost
<1>3. Fresh(o, t, q, sc)
  BY <1>2 DEF Inv, AllFresh
<1>4. SameObjects(q, ob2, ob)
  <2>1. \A u \in Threads, p \in Producers : \A k \in 1..Len(q[u][p]) :
          q[u][p][k].kind = "message" => q[u][p][k].object \in 1..Len(ob) /\ q[u][p][k].object # o
    BY <1>3 DEF Inv, QueueOK, Fresh
  <2> QED
    BY <1>1, <2>1 DEF SameObjects
<1>10. SameInHand(t, sc, ob2, ob)
  BY <1>3 DEF SameInHand, Fresh
<1>5. \A u \in Threads, p \in Producers : Kept(q[u][p], q[u][p])
  BY KeptSelf DEF Inv, MessageType
<1>6. \A e \in 1..Len(ob2), a \in Blocks : InPost(sc2[t], e, a) => Fresh(e, t, q, sc)
  BY <1>2, <1>3, PostApart
<1>7. ScriptOK(sc2[t], t, ob2)
  BY <1>1, <1>2 DEF ScriptOK
<1>8. ASSUME NEW j \in OnTheWay(q, sc2, ob2), j.from = t, j.stage \in {0, 2}
      PROVE  j \in OnTheWay(q, sc, ob)
  <2>1. j.stage = 0 /\ j.block = b /\ j.data = ob[o].data
    <3>0. j \in Items /\ Present(j, q, sc2, ob2)
      BY DEF OnTheWay
    <3>1. j.stage = 0 /\ Leaving(sc2[t], ob2, j.block, j.data)
      BY <1>2, <1>8, <3>0, NotCalled DEF Present
    <3> QED
      BY <1>2, <3>1, LeavingPost
  <2>2. Leaving(sc[t], ob, j.block, j.data)
    BY <1>2, <2>1 DEF Leaving
  <2> QED
    BY <1>8, <2>1, <2>2 DEF OnTheWay, Present
<1>9. \A j \in OnTheWay(q, sc2, ob2) :
        j.from = t /\ j.stage \in {0, 2} => j \in OnTheWay(q, sc, ob)
  BY <1>8
<1> QED
  BY <1>4, <1>5, <1>6, <1>7, <1>9, <1>10, StepKept

-----------------------------------------------------------------------------
(* The steps that move a message. *)
At(d, b, stage, p) == [data |-> d, block |-> b, stage |-> stage, from |-> p]

(* A message on its way is determined by its data, block, stage and sender. *)
LEMMA AtIs ==
  ASSUME NEW d \in Data, NEW b \in Blocks, NEW stage \in 0..2, NEW p \in Producers
  PROVE  /\ At(d, b, stage, p) \in Items
         /\ At(d, b, stage, p).data = d /\ At(d, b, stage, p).block = b
         /\ At(d, b, stage, p).stage = stage /\ At(d, b, stage, p).from = p
         /\ \A j \in Items : (j.data = d /\ j.block = b /\ j.stage = stage /\ j.from = p)
                               => j = At(d, b, stage, p)
  BY DEF At, Items

(* An entry of a queue is a message on its way. *)
LEMMA Queued ==
  ASSUME NEW q, NEW sc, NEW ob, NEW n, NEW h, Inv(q, sc, ob, n, h),
         NEW t \in Threads, NEW p \in Producers, NEW k \in 1..Len(q[t][p]),
         NEW b, NEW d, Carries(q[t][p][k], ob, b, d)
  PROVE  b \in Blocks /\ Owner[b] = t /\ d \in Data /\ At(d, b, 1, p) \in OnTheWay(q, sc, ob)
<1>1. PICK o : o = q[t][p][k].object
  OBVIOUS
<1>2. o \in 1..Len(ob) /\ b \in Blocks /\ Owner[b] = t
  BY <1>1 DEF Inv, QueueOK, Carries
<1>3. d \in Data
  <2>1. ob \in Seq([data : Data, callback : Blocks \cup {None}]) /\ d = ob[o].data
    BY <1>1 DEF Inv, MessageType, Carries
  <2>2. ob[o] \in [data : Data, callback : Blocks \cup {None}]
    BY <1>2, <2>1, ElementOfSeq
  <2> QED
    BY <2>1, <2>2
<1>4. PICK i : i = At(d, b, 1, p)
  OBVIOUS
<1>5. i \in Items /\ i.data = d /\ i.block = b /\ i.stage = 1 /\ i.from = p
  BY <1>2, <1>3, <1>4, AtIs
<1>6. Present(i, q, sc, ob)
  BY <1>2, <1>5 DEF Present
<1> QED
  BY <1>2, <1>3, <1>4, <1>5, <1>6 DEF OnTheWay

(* The owner t of b takes a message off its queue and calls the handler. *)
Called(t, p, b, d, q, sc, ob, q2, sc2) ==
  /\ sc[t] = <<>> /\ q[t][p] # <<>> /\ Carries(Head(q[t][p]), ob, b, d)
  /\ q2[t][p] = Tail(q[t][p])
  /\ \A u \in Threads, r \in Producers : u # t \/ r # p => q2[u][r] = q[u][r]
  /\ sc2[t] = Handler(b, d) /\ \A u \in Threads \ {t} : sc2[u] = sc[u]

(* The message moves from the queue into the hands of the owner. *)
LEMMA CallKept ==
  ASSUME Forwarding, Numbered, NEW q, NEW sc, NEW ob, NEW n, NEW h, NEW q2, NEW sc2,
         NEW t \in Threads, NEW p \in Producers, NEW b \in Blocks, NEW d \in Data,
         Called(t, p, b, d, q, sc, ob, q2, sc2),
         Inv(q, sc, ob, n, h), MessageType(q2, sc2, ob, n, h)
  PROVE  Inv(q2, sc2, ob, n, h)
<1>h. /\ sc[t] = <<>> /\ q[t][p] # <<>> /\ Carries(Head(q[t][p]), ob, b, d)
      /\ q2[t][p] = Tail(q[t][p])
      /\ \A u \in Threads, r \in Producers : u # t \/ r # p => q2[u][r] = q[u][r]
      /\ sc2[t] = Handler(b, d) /\ \A u \in Threads \ {t} : sc2[u] = sc[u]
  BY DEF Called
<1> USE <1>h
<1> DEFINE I == OnTheWay(q, sc, ob)
           J == OnTheWay(q2, sc2, ob)
           i == At(d, b, 1, p)
           x == At(d, b, 2, t)
<1>0. q[t][p] \in Seq(Messages) /\ 1 \in 1..Len(q[t][p]) /\ Carries(q[t][p][1], ob, b, d)
  <2>1. q[t][p] \in Seq(Messages)
    BY DEF Inv, MessageType
  <2>2. Head(q[t][p]) = q[t][p][1] /\ 1 \in 1..Len(q[t][p])
    BY <2>1
  <2> QED
    BY <2>1, <2>2
<1>1. b \in Blocks /\ Owner[b] = t /\ d \in Data /\ i \in I
  BY <1>0, Queued
<1>2. /\ i.data = d /\ i.block = b /\ i.stage = 1 /\ i.from = p
      /\ x \in Items /\ x.data = d /\ x.block = b /\ x.stage = 2 /\ x.from = t
      /\ \A j \in Items : (j.data = d /\ j.block = b /\ j.stage = 2 /\ j.from = t) => j = x
  <2>1. t \in Producers /\ 1 \in 0..2 /\ 2 \in 0..2
    BY DEF Producers
  <2> QED
    BY <1>1, <2>1, AtIs
<1>3. \A u \in Threads, r \in Producers : Kept(q2[u][r], q[u][r])
  <2>1. ASSUME NEW u \in Threads, NEW r \in Producers PROVE Kept(q2[u][r], q[u][r])
    <3>1. q[u][r] \in Seq(Messages)
      BY DEF Inv, MessageType
    <3>2. CASE u = t /\ r = p
      BY <1>0, <3>2, KeptTail
    <3>3. CASE u # t \/ r # p
      BY <3>1, <3>3, KeptSelf
    <3> QED
      BY <3>2, <3>3
  <2> QED
    BY <2>1
<1>4. InHandler(sc2[t], b, d)
  BY DEF InHandler
<1>5. SameObjects(q, ob, ob) /\ SameInHand(t, sc, ob, ob)
  BY DEF SameObjects, SameInHand, Inv, MessageType
<1>6. \A u \in Threads : ScriptOK(sc[u], u, ob)
  BY DEF Inv
<1> HIDE DEF i, x
<1>7. ASSUME NEW j \in J PROVE j \in I \/ j = x
  <2>1. j \in Items /\ Present(j, q2, sc2, ob) /\ j.block \in Blocks /\ j.from \in Producers
        /\ Owner[j.block] \in Threads
    BY DEF OnTheWay, Items, Forwarding
  <2>2. CASE j.from = t /\ j.stage = 0
    <3>1. Leaving(Handler(b, d), ob, j.block, j.data)
      BY <2>1, <2>2 DEF Present
    <3>2. \A o : ~ InPost(Handler(b, d), o, j.block)
      BY <1>4, NotHandler
    <3>3. \A a \in Blocks : Handler(b, d) \notin {Stored(a, j.data), Posting(a, j.data)}
      BY HandlerApart
    <3> QED
      BY <3>1, <3>2, <3>3 DEF Leaving
  <2>3. CASE j.from = t /\ j.stage = 2
    <3>1. Handler(j.block, j.data) = Handler(b, d)
      BY <2>1, <2>3 DEF Present
    <3>2. j.block = b /\ j.data = d
      BY <3>1, HandlerApart
    <3> QED
      BY <1>2, <2>1, <2>3, <3>2
  <2>4. CASE ~ (j.from = t /\ j.stage \in {0, 2})
    BY <1>3, <1>5, <1>6, <2>1, <2>4, StillThere DEF Forwarding
  <2> QED
    BY <2>2, <2>3, <2>4
<1>8. ASSUME NEW j \in J, j.block = b, j.stage = 1, j.data[1] = d[1] PROVE Precedes(d, j.data)
  <2>1. j \in I /\ j \in Items /\ Present(j, q2, sc2, ob)
    BY <1>2, <1>7, <1>8 DEF OnTheWay
  <2>2. j.from = p
    <3>1. I \in SUBSET Items /\ Routed(I, n) /\ n \in 0..Len(Posts)
      BY DEF OnTheWay, Inv, MessageType
    <3> HIDE DEF I
    <3> QED
      BY <1>1, <1>2, <1>8, <2>1, <3>1, SameFrom
  <2>3. PICK k \in 1..Len(q2[t][p]) : Carries(q2[t][p][k], ob, b, j.data)
    <3>1. PICK k \in 1..Len(q2[Owner[j.block]][j.from]) :
                 Carries(q2[Owner[j.block]][j.from][k], ob, j.block, j.data)
      BY <1>8, <2>1 DEF Present
    <3>2. Owner[j.block] = t /\ j.from = p /\ j.block = b
      BY <1>1, <1>8, <2>2
    <3> QED
      BY <3>1, <3>2
  <2>4. k + 1 \in 1..Len(q[t][p]) /\ q2[t][p][k] = q[t][p][k + 1] /\ 1 < k + 1
    BY <1>0
  <2>5. QueueOK(q[t][p], t, ob)
    BY DEF Inv
  <2>6. Carries(q[t][p][k + 1], ob, b, j.data)
    BY <2>3, <2>4
  <2> QED
    <3>1. Carries(q[t][p][1], ob, b, d)
      BY <1>0
    <3>2. q[t][p][1].kind = "message" /\ q[t][p][k + 1].kind = "message"
          /\ ob[q[t][p][1].object].callback = ob[q[t][p][k + 1].object].callback
      BY <2>6, <3>1 DEF Carries
    <3>3. Precedes(ob[q[t][p][1].object].data, ob[q[t][p][k + 1].object].data)
      BY <1>0, <2>4, <2>5, <3>2 DEF QueueOK
    <3> QED
      BY <2>6, <3>1, <3>3 DEF Carries
<1>9. MovesOne(I, J, i, x)
  <2>1. Moves(i, x)
    BY <1>2 DEF Moves
  <2>2. \A j \in J : (j.block = b /\ j.stage = 1) => Precedes(d, j.data)
    BY <1>8 DEF Precedes
  <2> HIDE DEF I, J
  <2> QED
    BY <1>2, <1>7, <2>1, <2>2 DEF MovesOne
<1>10. /\ I \in SUBSET Items /\ J \in SUBSET Items
       /\ Routed(I, n) /\ Ordered(I) /\ n \in 0..Len(Posts) /\ n \in Nat
       /\ \A a \in Blocks : HandledOK(h[a], a, I, n)
  BY DEF OnTheWay, Inv, MessageType
<1>11. /\ Routed(J, n) /\ Ordered(J)
       /\ \A a \in Blocks : HandledOK(h[a], a, J, n)
  <2> HIDE DEF I, J
  <2> QED
    BY <1>1, <1>2, <1>9, <1>10, MoveRouted, MoveOrdered, MoveHandled
<1>12. \A u \in Threads : ScriptOK(sc2[u], u, ob)
  <2>1. ScriptOK(sc2[t], t, ob)
    BY <1>1, <1>4 DEF ScriptOK
  <2> QED
    BY <1>6, <2>1
<1>13. ASSUME NEW u \in Threads, NEW r \in Producers PROVE QueueOK(q2[u][r], u, ob)
  <2>1. /\ q[u][r] \in Seq(Messages) /\ q2[u][r] \in Seq(Messages) /\ QueueOK(q[u][r], u, ob)
        /\ ob \in Seq([data : Data, callback : Blocks \cup {None}]) /\ Len(ob) <= Len(ob)
    BY DEF Inv, MessageType
  <2> QED
    BY <1>3, <2>1, KeptQueue
<1>14. AllFresh(q2, sc2, ob)
  <2>1. \A o \in 1..Len(ob), a \in Blocks : InPost(sc2[t], o, a) => Fresh(o, t, q, sc)
    BY <1>4, NotHandler
  <2> QED
    BY <1>3, <1>6, <2>1, FreshKept DEF Inv
<1> QED
  BY <1>11, <1>12, <1>13, <1>14 DEF Inv

(* The handler is entered and the message is out of the hands of the queue:
   it is on its way to the next block, if there is one. *)
LEMMA LoadKept ==
  ASSUME Forwarding, Numbered, NEW q, NEW sc, NEW ob, NEW n, NEW h, NEW sc2, NEW h2,
         NEW t \in Threads, NEW b \in Blocks, NEW d \in Data, Owner[b] = t,
         sc[t] = Handler(b, d), sc2[t] = Stored(b, d), \A u \in Threads \ {t} : sc2[u] = sc[u],
         h2[b] = Append(h[b], [data |-> d, thread |-> t]),
         \A a \in Blocks \ {b} : h2[a] = h[a],
         Inv(q, sc, ob, n, h), MessageType(q, sc2, ob, n, h2)
  PROVE  Inv(q, sc2, ob, n, h2)
<1> DEFINE I == OnTheWay(q, sc, ob)
           J == OnTheWay(q, sc2, ob)
<1>0. PICK i : i = At(d, b, 2, t)
  OBVIOUS
<1>1. i \in Items /\ i.data = d /\ i.block = b /\ i.stage = 2 /\ i.from = t
  <2>1. t \in Producers /\ 2 \in 0..2
    BY DEF Producers
  <2> QED
    BY <1>0, <2>1, AtIs
<1>2. i \in I
  BY <1>1 DEF OnTheWay, Present
<1>3. \A u \in Threads, r \in Producers : Kept(q[u][r], q[u][r])
  BY KeptSelf DEF Inv, MessageType
<1>4. InHandler(sc2[t], b, d)
  BY DEF InHandler
<1>5. SameObjects(q, ob, ob) /\ SameInHand(t, sc, ob, ob)
  BY DEF SameObjects, SameInHand, Inv, MessageType
<1>6. \A u \in Threads : ScriptOK(sc[u], u, ob)
  BY DEF Inv
<1>7. ASSUME NEW j \in J
      PROVE  \/ j \in I /\ ~ (j.block = b /\ j.stage = 2)
             \/ j.stage = 0 /\ j.from = t /\ j.data = d /\ Feeds(b, j.block) /\ j.block \in Blocks
  <2>1. j \in Items /\ Present(j, q, sc2, ob) /\ j.block \in Blocks /\ j.from \in Producers
        /\ Owner[j.block] \in Threads
    BY DEF OnTheWay, Items, Forwarding
  <2>2. CASE j.from = t /\ j.stage = 0
    <3>1. Leaving(sc2[t], ob, j.block, j.data)
      BY <2>1, <2>2 DEF Present
    <3>2. \A o : ~ InPost(sc2[t], o, j.block)
      BY <1>4, NotHandler
    <3>3. PICK a \in Blocks : Feeds(a, j.block) /\ sc2[t] \in {Stored(a, j.data), Posting(a, j.data)}
      BY <3>1, <3>2 DEF Leaving
    <3>4. a = b /\ j.data = d
      BY <3>3, HandlerApart
    <3> QED
      BY <2>1, <2>2, <3>3, <3>4
  <2>3. j.stage = 2 => j.from # t /\ j.block # b
    BY <2>1, HandlerApart DEF Present
  <2>4. CASE ~ (j.from = t /\ j.stage = 0)
    <3>1. j \in I
      BY <1>3, <1>5, <1>6, <2>1, <2>3, <2>4, StillThere DEF Forwarding
    <3> QED
      BY <2>3, <3>1
  <2> QED
    BY <2>2, <2>4
<1>8. /\ I \in SUBSET Items /\ J \in SUBSET Items
      /\ Routed(I, n) /\ Ordered(I) /\ n \in 0..Len(Posts) /\ n \in Nat
      /\ \A a \in Blocks : HandledOK(h[a], a, I, n)
  BY DEF OnTheWay, Inv, MessageType
<1>9. h[b] \in Seq([data : Data, thread : Threads])
  BY DEF Inv, MessageType
<1>10. HandledOK(h2[b], b, J, n)
  <2>1. ASSUME NEW j \in ToCome(J, b) PROVE j \in I /\ ~ (j.block = b /\ j.stage = 2)
    <3>1. j \in J /\ (j.block = b \/ Below(b, j.block))
      BY DEF ToCome
    <3>2. ASSUME j.block \in Blocks, Feeds(b, j.block) PROVE FALSE
      <4>1. b \notin Onward(j.block)
        BY <3>2, NoCircle
      <4> QED
        BY <3>1, <3>2, <4>1, OnwardSelf, BelowOnward
    <3> QED
      BY <1>7, <3>1, <3>2
  <2> HIDE DEF I, J
  <2>2. HandledOK(Append(h[b], [data |-> i.data, thread |-> Owner[b]]), b, J, n)
    BY <1>1, <1>2, <1>8, <1>9, <2>1, HandledAppend
  <2> QED
    BY <1>1, <2>2
<1>11. Routed(J, n) /\ Ordered(J) /\ \A a \in Blocks : HandledOK(h[a], a, J, n)
  <2>1. CASE Connected[b] = <<>>
    <3>1. ASSUME NEW c PROVE ~ Feeds(b, c)
      BY <2>1 DEF Feeds
    <3>2. J \subseteq I
      BY <1>7, <3>1
    <3> HIDE DEF I, J
    <3> QED
      BY <1>8, <3>2, FewerKeep
  <2>2. ASSUME NEW c \in Blocks, Feeds(b, c)
        PROVE  Routed(J, n) /\ Ordered(J) /\ \A a \in Blocks : HandledOK(h[a], a, J, n)
    <3>0. PICK x : x = At(d, c, 0, t)
      OBVIOUS
    <3>1. /\ x \in Items /\ x.data = d /\ x.block = c /\ x.stage = 0 /\ x.from = t
          /\ \A j \in Items : (j.data = d /\ j.block = c /\ j.stage = 0 /\ j.from = t) => j = x
      <4>1. t \in Producers /\ 0 \in 0..2
        BY DEF Producers
      <4> QED
        BY <3>0, <4>1, AtIs
    <3>2. Moves(i, x)
      BY <1>1, <2>2, <3>1 DEF Moves
    <3>3. J \subseteq I \cup {x}
      <4>1. ASSUME NEW j \in J, Feeds(b, j.block), j.stage = 0, j.from = t, j.data = d PROVE j = x
        <5>1. j.block = c
          BY <2>2, <4>1, FeedsOne
        <5> QED
          BY <3>1, <4>1, <5>1 DEF OnTheWay
      <4> QED
        BY <1>7, <4>1
    <3>4. \A j \in J : ~ (j.block = b /\ j.stage = 2)
      BY <1>7
    <3> HIDE DEF I, J
    <3>5. MovesOne(I, J, i, x)
      BY <1>1, <3>1, <3>2, <3>3, <3>4 DEF MovesOne
    <3> QED
      BY <1>2, <1>8, <3>1, <3>5, MoveRouted, MoveOrdered, MoveHandled
  <2> QED
    BY <2>1, <2>2 DEF Forwarding
<1>12. \A a \in Blocks : HandledOK(h2[a], a, J, n)
  BY <1>10, <1>11
<1>13. \A u \in Threads : ScriptOK(sc2[u], u, ob)
  <2>1. ScriptOK(sc2[t], t, ob)
    BY <1>4 DEF ScriptOK
  <2> QED
    BY <1>6, <2>1
<1>14. AllFresh(q, sc2, ob)
  <2>1. \A o \in 1..Len(ob), a \in Blocks : InPost(sc2[t], o, a) => Fresh(o, t, q, sc)
    BY <1>4, NotHandler
  <2> QED
    BY <1>3, <1>6, <2>1, FreshKept DEF Inv
<1> QED
  BY <1>11, <1>12, <1>13, <1>14 DEF Inv

(* A message that is pushed behind the others of its source. *)
LEMMA QueueAppend ==
  ASSUME NEW ob, NEW s \in Seq(Messages), NEW t, QueueOK(s, t, ob), NEW o \in 1..Len(ob),
         ob[o].callback \in Blocks, Owner[ob[o].callback] = t,
         \A k \in 1..Len(s) : (s[k].kind = "message" /\ ob[s[k].object].callback = ob[o].callback)
           => Precedes(ob[s[k].object].data, ob[o].data)
  PROVE  QueueOK(Append(s, Message(o)), t, ob)
<1> PICK g, m : g = Append(s, m) /\ m = Message(o)
  OBVIOUS
<1>1. m.kind = "message" /\ m.object = o
  BY DEF Message
<1>2. /\ Len(g) = Len(s) + 1 /\ Len(s) \in Nat /\ g[Len(s) + 1] = m
      /\ \A k \in 1..Len(s) : g[k] = s[k]
  OBVIOUS
<1>3. ASSUME NEW k \in 1..Len(g), g[k].kind = "message"
      PROVE  /\ g[k].object \in 1..Len(ob)
             /\ ob[g[k].object].callback \in Blocks /\ Owner[ob[g[k].object].callback] = t
  <2>1. CASE k = Len(s) + 1
    BY <1>1, <1>2, <2>1
  <2>2. CASE k # Len(s) + 1
    <3>1. k \in 1..Len(s) /\ g[k] = s[k]
      BY <1>2, <2>2
    <3> QED
      BY <1>3, <3>1 DEF QueueOK
  <2> QED
    BY <2>1, <2>2
<1>4. ASSUME NEW k \in 1..Len(g), NEW l \in 1..Len(g), k < l, g[k].kind = "message",
             g[l].kind = "message", ob[g[k].object].callback = ob[g[l].object].callback
      PROVE  Precedes(ob[g[k].object].data, ob[g[l].object].data)
  <2>1. k \in 1..Len(s) /\ g[k] = s[k]
    BY <1>2, <1>4
  <2>2. CASE l = Len(s) + 1
    <3>1. g[l].object = o
      BY <1>1, <1>2, <2>2
    <3> QED
      BY <1>4, <2>1, <3>1
  <2>3. CASE l # Len(s) + 1
    <3>1. l \in 1..Len(s) /\ g[l] = s[l]
      BY <1>2, <2>3
    <3> QED
      BY <1>4, <2>1, <3>1 DEF QueueOK
  <2> QED
    BY <2>2, <2>3
<1>5. QueueOK(g, t, ob)
  BY ONLY <1>3, <1>4 DEF QueueOK
<1> QED
  BY <1>5

(* t pushes object o to the queue of the owner of b. *)
PushedBy(q, sc, ob, n, h, q2, sc2, t, b, o) ==
  /\ sc[t] = Pushing(o, b) /\ sc2[t] = <<>>
  /\ \A u \in Threads \ {t} : sc2[u] = sc[u]
  /\ q2[Owner[b]][t] = Append(q[Owner[b]][t], Message(o))
  /\ \A u \in Threads, r \in Producers : u # Owner[b] \/ r # t => q2[u][r] = q[u][r]
  /\ Inv(q, sc, ob, n, h) /\ MessageType(q2, sc2, ob, n, h)

(* A push moves the message from its sender to the end of a queue. *)
LEMMA DeliverKept ==
  ASSUME Forwarding, Numbered, NEW q, NEW sc, NEW ob, NEW n, NEW h, NEW q2, NEW sc2,
         NEW t \in Threads, NEW b \in Blocks, NEW o \in 1..Len(ob),
         PushedBy(q, sc, ob, n, h, q2, sc2, t, b, o)
  PROVE  Inv(q2, sc2, ob, n, h)
<1>h. /\ sc[t] = Pushing(o, b) /\ sc2[t] = <<>>
      /\ \A u \in Threads \ {t} : sc2[u] = sc[u]
      /\ q2[Owner[b]][t] = Append(q[Owner[b]][t], Message(o))
      /\ \A u \in Threads, r \in Producers : u # Owner[b] \/ r # t => q2[u][r] = q[u][r]
      /\ Inv(q, sc, ob, n, h) /\ MessageType(q2, sc2, ob, n, h)
  BY DEF PushedBy
<1> USE <1>h
<1> DEFINE I == OnTheWay(q, sc, ob)
           J == OnTheWay(q2, sc2, ob)
<1>0. InPost(sc[t], o, b) /\ Owner[b] \in Threads /\ t \in Producers
  BY DEF InPost, Forwarding, Producers
<1>1. ob[o].callback = b
  <2>1. ScriptOK(sc[t], t, ob) /\ sc[t] # <<>>
    BY <1>0, PostHead DEF Inv
  <2>2. \A a, d : ~ InHandler(sc[t], a, d)
    BY <1>0, NotHandler
  <2>3. PICK a \in Blocks, e \in 1..Len(ob) :
           InPost(sc[t], e, a) /\ (sc[t] = Pushing(e, a) => ob[e].callback = a)
    BY <2>1, <2>2 DEF ScriptOK
  <2>4. e = o /\ a = b
    BY <1>0, <2>3, PostApart
  <2> QED
    BY <2>3, <2>4
<1>2. PICK d : d = ob[o].data
  OBVIOUS
<1>3. d \in Data
  <2>1. ob[o] \in [data : Data, callback : Blocks \cup {None}]
    BY ElementOfSeq DEF Inv, MessageType
  <2> QED
    BY <1>2, <2>1
<1>4. PICK i, x : i = At(d, b, 0, t) /\ x = At(d, b, 1, t)
  OBVIOUS
<1>5. /\ i \in Items /\ i.data = d /\ i.block = b /\ i.stage = 0 /\ i.from = t
      /\ x \in Items /\ x.data = d /\ x.block = b /\ x.stage = 1 /\ x.from = t
      /\ \A j \in Items : (j.data = d /\ j.block = b /\ j.stage = 1 /\ j.from = t) => j = x
  BY <1>0, <1>3, <1>4, AtIs
<1>6. i \in I
  <2>1. Leaving(sc[t], ob, b, d)
    BY <1>0, <1>2 DEF Leaving
  <2> QED
    BY <1>5, <2>1 DEF OnTheWay, Present
<1>7. SameObjects(q, ob, ob)
  BY DEF SameObjects, Inv, MessageType
<1>8. \A u \in Threads : ScriptOK(sc[u], u, ob)
  BY DEF Inv
<1>9. ASSUME NEW j \in J PROVE j \in I \/ j = x
  <2>1. j \in Items /\ Present(j, q2, sc2, ob) /\ j.block \in Blocks /\ j.from \in Producers
        /\ Owner[j.block] \in Threads
    BY DEF OnTheWay, Items, Forwarding
  <2>2. j.stage \in {0, 2} => j.from # t
    BY IdleHolds
  <2>3. CASE j.stage = 1 /\ Owner[j.block] = Owner[b] /\ j.from = t
    <3>1. PICK k \in 1..Len(q2[Owner[j.block]][j.from]) :
                 Carries(q2[Owner[j.block]][j.from][k], ob, j.block, j.data)
      BY <2>1, <2>3 DEF Present
    <3>2. PICK s : s = q[Owner[b]][t]
      OBVIOUS
    <3>3. s \in Seq(Messages)
      BY <1>0, <3>2 DEF Inv, MessageType
    <3>4. k \in 1..Len(Append(s, Message(o))) /\ Carries(Append(s, Message(o))[k], ob, j.block, j.data)
      BY <2>3, <3>1, <3>2
    <3>5. \/ k \in 1..Len(s) /\ Carries(s[k], ob, j.block, j.data)
          \/ j.block = b /\ j.data = d
      <4>1. \/ k \in 1..Len(s) /\ Carries(s[k], ob, j.block, j.data)
            \/ j.block = ob[o].callback /\ j.data = ob[o].data
        <5>1. \/ k \in 1..Len(s) /\ Append(s, Message(o))[k] = s[k]
              \/ Append(s, Message(o))[k] = Message(o)
          BY ONLY <3>3, <3>4
        <5>2. CASE Append(s, Message(o))[k] = Message(o)
          BY <3>4, <5>2 DEF Carries, Message
        <5> QED
          BY <3>4, <5>1, <5>2
      <4> QED
        BY <1>1, <1>2, <4>1
    <3> QED
      BY <1>5, <2>1, <2>3, <3>2, <3>5 DEF OnTheWay, Present
  <2>4. CASE ~ (j.stage = 1 /\ Owner[j.block] = Owner[b] /\ j.from = t)
    <3>1. j.stage = 1 => Kept(q2[Owner[j.block]][j.from], q[Owner[j.block]][j.from])
      <4>1. q[Owner[j.block]][j.from] \in Seq(Messages)
        BY <2>1 DEF Inv, MessageType
      <4> QED
        BY <2>1, <2>4, <4>1, KeptSelf
    <3> QED
      BY <1>7, <1>8, <2>2, <3>1, StillThere DEF Forwarding
  <2> QED
    BY <2>3, <2>4
<1>10. /\ I \in SUBSET Items /\ J \in SUBSET Items
       /\ Routed(I, n) /\ Ordered(I) /\ n \in 0..Len(Posts) /\ n \in Nat
       /\ \A a \in Blocks : HandledOK(h[a], a, I, n)
  BY DEF OnTheWay, Inv, MessageType
<1>11. ASSUME NEW j \in J, j.block = b, j.stage = 0, j.data[1] = d[1] PROVE FALSE
  <2>1. j \in I
    BY <1>5, <1>9, <1>11
  <2>2. j.from = t
    <3> HIDE DEF I, J
    <3> QED
      BY <1>5, <1>6, <1>10, <1>11, <2>1, SameFrom
  <2> QED
    BY <1>11, <2>2, IdleHolds
<1>12. Routed(J, n) /\ Ordered(J) /\ \A a \in Blocks : HandledOK(h[a], a, J, n)
  <2>1. Moves(i, x)
    BY <1>5 DEF Moves
  <2>2. \A j \in J : (j.block = b /\ j.stage = 0) => Precedes(d, j.data)
    BY <1>11 DEF Precedes
  <2> HIDE DEF I, J
  <2>3. MovesOne(I, J, i, x)
    BY <1>5, <1>9, <2>1, <2>2 DEF MovesOne
  <2> QED
    BY <1>5, <1>6, <1>10, <2>3, MoveRouted, MoveOrdered, MoveHandled
<1>13. \A u \in Threads : ScriptOK(sc2[u], u, ob)
  <2>1. ScriptOK(sc2[t], t, ob)
    BY DEF ScriptOK
  <2> QED
    BY <1>8, <2>1
<1>14. ASSUME NEW u \in Threads, NEW r \in Producers PROVE QueueOK(q2[u][r], u, ob)
  <2>1. q[u][r] \in Seq(Messages) /\ QueueOK(q[u][r], u, ob)
    BY DEF Inv, MessageType
  <2>2. CASE u = Owner[b] /\ r = t
    <3>1. ASSUME NEW k \in 1..Len(q[u][r]), q[u][r][k].kind = "message",
                 ob[q[u][r][k].object].callback = b
          PROVE  Precedes(ob[q[u][r][k].object].data, d)
      <4>1. PICK e : e = ob[q[u][r][k].object].data
        OBVIOUS
      <4>2. Carries(q[u][r][k], ob, b, e)
        BY <3>1, <4>1 DEF Carries
      <4>3. e \in Data /\ At(e, b, 1, t) \in I
        BY <2>2, <4>2, Queued
      <4>4. At(e, b, 1, t).block = b /\ At(e, b, 1, t).stage = 1 /\ At(e, b, 1, t).data = e
        BY <1>0, <4>3, AtIs
      <4>5. Ahead(At(e, b, 1, t), i)
        BY <1>5, <4>4 DEF Ahead
      <4> HIDE DEF I, J
      <4>6. Precedes(e, d)
        BY <1>5, <1>6, <1>10, <4>3, <4>4, <4>5 DEF Ordered
      <4> QED
        BY <4>1, <4>6
    <3>2. QueueOK(Append(q[u][r], Message(o)), u, ob)
      BY <1>1, <1>2, <2>1, <2>2, <3>1, QueueAppend
    <3> QED
      BY <2>2, <3>2
  <2>3. CASE u # Owner[b] \/ r # t
    BY <2>1, <2>3
  <2> QED
    BY <2>2, <2>3
<1>15. AllFresh(q2, sc2, ob)
  <2>1. ASSUME NEW u \in Threads, NEW e \in 1..Len(ob), NEW a \in Blocks, InPost(sc2[u], e, a)
        PROVE  Fresh(e, u, q2, sc2)
    <3>1. u # t /\ InPost(sc[u], e, a)
      BY <2>1, PostHead
    <3>2. Fresh(e, u, q, sc) /\ e # o
      BY <1>0, <3>1 DEF Inv, AllFresh, Fresh
    <3>3. ASSUME NEW v \in Threads \ {u}, NEW c \in Blocks PROVE ~ InPost(sc2[v], e, c)
      <4>1. v # t => sc2[v] = sc[v]
        OBVIOUS
      <4> QED
        BY <3>2, <4>1, PostHead DEF Fresh
    <3>4. ASSUME NEW v \in Threads, NEW r \in Producers, NEW k \in 1..Len(q2[v][r]),
                 q2[v][r][k].kind = "message"
          PROVE  q2[v][r][k].object # e
      <4>1. CASE v = Owner[b] /\ r = t
        <5>1. PICK s : s = q[v][r]
          OBVIOUS
        <5>2. s \in Seq(Messages)
          BY <5>1 DEF Inv, MessageType
        <5>3. k \in 1..Len(Append(s, Message(o))) /\ q2[v][r][k] = Append(s, Message(o))[k]
          BY <4>1, <5>1
        <5>4. (k \in 1..Len(s) /\ q2[v][r][k] = s[k]) \/ q2[v][r][k] = Message(o)
          BY <5>2, <5>3
        <5>5. \A l \in 1..Len(s) : s[l].kind = "message" => s[l].object # e
          BY <3>2, <5>1 DEF Fresh
        <5>6. Message(o).object = o
          BY DEF Message
        <5> QED
          BY ONLY <3>2, <3>4, <5>4, <5>5, <5>6
      <4>2. CASE v # Owner[b] \/ r # t
        <5>1. q2[v][r] = q[v][r]
          BY <4>2
        <5>2. \A l \in 1..Len(q[v][r]) : q[v][r][l].kind = "message" => q[v][r][l].object # e
          BY <3>2 DEF Fresh
        <5> QED
          BY ONLY <3>4, <5>1, <5>2, k \in 1..Len(q2[v][r])
      <4> QED
        BY <4>1, <4>2
    <3> QED
      BY <3>3, <3>4 DEF Fresh
  <2> QED
    BY <2>1 DEF AllFresh
<1> QED
  BY <1>12, <1>13, <1>14, <1>15 DEF Inv

(* A message of the application joins at the end of a queue. *)
LEMMA AppPostKept ==
  ASSUME Forwarding, Numbered, NEW q, NEW sc, NEW ob, NEW n, NEW h, NEW q2, NEW ob2,
         n + 1 <= Len(Posts), NEW b \in Blocks, NEW d \in Data,
         NewPost(n + 1) = At(d, b, 1, "app"), \A l \in 1..n : Precedes(Posts[l][2], d),
         NEW o \in 1..Len(ob2), o \notin 1..Len(ob), Len(ob) <= Len(ob2),
         ob2[o].callback = b, ob2[o].data = d, \A k \in 1..Len(ob) : ob2[k] = ob[k],
         q2[Owner[b]]["app"] = Append(q[Owner[b]]["app"], Message(o)),
         \A u \in Threads, r \in Producers : u # Owner[b] \/ r # "app" => q2[u][r] = q[u][r],
         Inv(q, sc, ob, n, h), MessageType(q2, sc, ob2, n + 1, h)
  PROVE  Inv(q2, sc, ob2, n + 1, h)
<1> DEFINE I == OnTheWay(q, sc, ob)
           J == OnTheWay(q2, sc, ob2)
<1>0. n \in Nat /\ "app" \in Producers /\ Owner[b] \in Threads
  BY DEF Inv, MessageType, Producers, Forwarding
<1>1. PICK x : x = At(d, b, 1, "app")
  OBVIOUS
<1>2. /\ x.data = d /\ x.block = b /\ x.stage = 1 /\ x.from = "app"
      /\ \A j \in Items : (j.data = d /\ j.block = b /\ j.stage = 1 /\ j.from = "app") => j = x
  BY <1>0, <1>1, AtIs
<1>5. SameObjects(q, ob2, ob) /\ SameInHand("app", sc, ob2, ob)
  <2>1. \A t \in Threads, p \in Producers : QueueOK(q[t][p], t, ob)
    BY DEF Inv
  <2> QED
    BY <2>1 DEF SameObjects, SameInHand, QueueOK
<1>6. \A u \in Threads : ScriptOK(sc[u], u, ob)
  BY DEF Inv
<1>8. ASSUME NEW j \in J PROVE j \in I \/ j = x
  <2>1. j \in Items /\ Present(j, q2, sc, ob2) /\ j.block \in Blocks /\ j.from \in Producers
        /\ Owner[j.block] \in Threads
    BY DEF OnTheWay, Items, Forwarding
  <2>2. CASE j.stage = 1 /\ Owner[j.block] = Owner[b] /\ j.from = "app"
    <3>1. PICK k \in 1..Len(q2[Owner[j.block]][j.from]) :
                 Carries(q2[Owner[j.block]][j.from][k], ob2, j.block, j.data)
      BY <2>1, <2>2 DEF Present
    <3>2. PICK s : s = q[Owner[b]]["app"]
      OBVIOUS
    <3>3. s \in Seq(Messages)
      BY <1>0, <3>2 DEF Inv, MessageType
    <3>4. k \in 1..Len(Append(s, Message(o))) /\ Carries(Append(s, Message(o))[k], ob2, j.block, j.data)
      BY <2>2, <3>1, <3>2
    <3>5. \/ k \in 1..Len(s) /\ Carries(s[k], ob2, j.block, j.data)
          \/ j.block = ob2[o].callback /\ j.data = ob2[o].data
      <4>1. \/ k \in 1..Len(s) /\ Append(s, Message(o))[k] = s[k]
            \/ Append(s, Message(o))[k] = Message(o)
        BY ONLY <3>3, <3>4
      <4>2. CASE Append(s, Message(o))[k] = Message(o)
        BY <3>4, <4>2 DEF Carries, Message
      <4> QED
        BY <3>4, <4>1, <4>2
    <3>6. CASE k \in 1..Len(s) /\ Carries(s[k], ob2, j.block, j.data)
      <4>1. q[Owner[b]]["app"][k].kind = "message"
        BY <3>2, <3>6 DEF Carries
      <4>2. ob2[s[k].object] = ob[s[k].object]
        BY <1>0, <1>5, <3>2, <3>6, <4>1 DEF SameObjects
      <4>3. Carries(s[k], ob, j.block, j.data)
        BY <3>6, <4>2 DEF Carries
      <4> QED
        BY <2>1, <2>2, <3>2, <3>6, <4>3 DEF OnTheWay, Present
    <3> QED
      BY <1>2, <2>1, <2>2, <3>5, <3>6
  <2>3. CASE ~ (j.stage = 1 /\ Owner[j.block] = Owner[b] /\ j.from = "app")
    <3>1. j.stage = 1 => Kept(q2[Owner[j.block]][j.from], q[Owner[j.block]][j.from])
      <4>1. q[Owner[j.block]][j.from] \in Seq(Messages)
        BY <2>1 DEF Inv, MessageType
      <4> QED
        BY <2>1, <2>3, <4>1, KeptSelf
    <3>2. j.stage \in {0, 2} => j.from # "app"
      BY ONLY <2>1, NamesAssumption DEF Present
    <3>3. \A u \in Threads \ {"app"} : sc[u] = sc[u]
      OBVIOUS
    <3> QED
      BY ONLY <1>5, <1>6, <3>1, <3>2, <3>3, j \in J, StillThere, Forwarding DEF Forwarding
  <2> QED
    BY <2>2, <2>3
<1>9. /\ I \in SUBSET Items /\ Routed(I, n) /\ Ordered(I)
      /\ \A a \in Blocks : HandledOK(h[a], a, I, n)
  BY DEF OnTheWay, Inv, MessageType
<1>10. Routed(J, n + 1) /\ Ordered(J) /\ \A a \in Blocks : HandledOK(h[a], a, J, n + 1)
  <2> HIDE DEF I, J
  <2>1. J \subseteq I \cup {NewPost(n + 1)}
    BY <1>1, <1>8
  <2> QED
    BY <1>0, <1>9, <2>1, PostOrdered
<1>11. ASSUME NEW u \in Threads PROVE ScriptOK(sc[u], u, ob2)
  <2>1. u \in Threads \ {"app"} /\ Len(ob) \in Nat /\ Len(ob2) \in Nat /\ Len(ob) <= Len(ob2)
    BY NamesAssumption DEF Inv, MessageType
  <2> QED
    BY <1>0, <1>5, <1>6, <2>1, ScriptKept
<1>12. ASSUME NEW u \in Threads, NEW r \in Producers PROVE QueueOK(q2[u][r], u, ob2)
  <2>1. q[u][r] \in Seq(Messages) /\ QueueOK(q[u][r], u, ob)
        /\ ob \in Seq([data : Data, callback : Blocks \cup {None}])
        /\ ob2 \in Seq([data : Data, callback : Blocks \cup {None}])
    BY DEF Inv, MessageType
  <2>2. QueueOK(q[u][r], u, ob2)
    <3>1. Kept(q[u][r], q[u][r])
      BY <2>1, KeptSelf
    <3>2. /\ Len(ob) <= Len(ob2)
          /\ \A k \in 1..Len(q[u][r]) : q[u][r][k].kind = "message"
               => ob2[q[u][r][k].object] = ob[q[u][r][k].object]
      BY <1>5 DEF SameObjects
    <3> QED
      BY <2>1, <3>1, <3>2, KeptQueue
  <2>3. CASE u = Owner[b] /\ r = "app"
    <3>1. ASSUME NEW k \in 1..Len(q[u][r]), q[u][r][k].kind = "message",
                 ob2[q[u][r][k].object].callback = b
          PROVE  Precedes(ob2[q[u][r][k].object].data, d)
      <4>1. PICK e : e = ob[q[u][r][k].object].data
        OBVIOUS
      <4>2. ob2[q[u][r][k].object] = ob[q[u][r][k].object]
        BY <1>5, <3>1 DEF SameObjects
      <4>3. Carries(q[u][r][k], ob, b, e)
        BY <3>1, <4>1, <4>2 DEF Carries
      <4>4. e \in Data /\ At(e, b, 1, "app") \in I
        BY <2>3, <4>3, Queued
      <4>5. At(e, b, 1, "app").data = e
        BY DEF At
      <4> HIDE DEF I, J
      <4>6. \E l \in 1..n : e = Posts[l][2]
        BY <1>9, <4>4, <4>5 DEF Routed
      <4>7. Precedes(e, d)
        BY <4>6
      <4> QED
        BY <4>1, <4>2, <4>7
    <3>2. QueueOK(Append(q[u][r], Message(o)), u, ob2)
      BY <2>1, <2>2, <2>3, <3>1, QueueAppend
    <3> QED
      BY <2>3, <3>2
  <2>4. CASE u # Owner[b] \/ r # "app"
    BY <2>2, <2>4
  <2> QED
    BY <2>3, <2>4
<1>13. AllFresh(q2, sc, ob2)
  <2>1. ASSUME NEW u \in Threads, NEW e \in 1..Len(ob2), NEW a \in Blocks, InPost(sc[u], e, a)
        PROVE  Fresh(e, u, q2, sc)
    <3>1. e \in 1..Len(ob)
      BY <1>6, <2>1, PostShape
    <3>2. Fresh(e, u, q, sc) /\ e # o
      BY <2>1, <3>1 DEF Inv, AllFresh
    <3>3. ASSUME NEW v \in Threads, NEW r \in Producers, NEW k \in 1..Len(q2[v][r]),
                 q2[v][r][k].kind = "message"
          PROVE  q2[v][r][k].object # e
      <4>1. CASE v = Owner[b] /\ r = "app"
        <5>1. PICK s : s = q[v][r]
          OBVIOUS
        <5>2. s \in Seq(Messages)
          BY <5>1 DEF Inv, MessageType
        <5>3. k \in 1..Len(Append(s, Message(o))) /\ q2[v][r][k] = Append(s, Message(o))[k]
          BY <4>1, <5>1
        <5>4. (k \in 1..Len(s) /\ q2[v][r][k] = s[k]) \/ q2[v][r][k] = Message(o)
          BY <5>2, <5>3
        <5>5. \A l \in 1..Len(s) : s[l].kind = "message" => s[l].object # e
          BY <3>2, <5>1 DEF Fresh
        <5>6. Message(o).object = o
          BY DEF Message
        <5> QED
          BY ONLY <3>2, <3>3, <5>4, <5>5, <5>6
      <4>2. CASE v # Owner[b] \/ r # "app"
        <5>1. q2[v][r] = q[v][r]
          BY <4>2
        <5>2. \A l \in 1..Len(q[v][r]) : q[v][r][l].kind = "message" => q[v][r][l].object # e
          BY <3>2 DEF Fresh
        <5> QED
          BY ONLY <3>3, <5>1, <5>2, k \in 1..Len(q2[v][r])
      <4> QED
        BY <4>1, <4>2
    <3> QED
      BY <3>2, <3>3 DEF Fresh
  <2> QED
    BY <2>1 DEF AllFresh
<1> QED
  BY <1>10, <1>11, <1>12, <1>13 DEF Inv

-----------------------------------------------------------------------------
(* The invariant holds at the start, and every action keeps it. *)
LEMMA InitMessage == ASSUME Forwarding, Numbered, Init PROVE MessageInv
<1>1. Len(Posts) \in Nat
  BY DEF Numbered
<1>2. MessageType(queue, script, objects, posted, handled)
  BY <1>1 DEF Init, MessageType
<1>3. ASSUME NEW i \in OnTheWay(queue, script, objects) PROVE FALSE
  <2>1. i \in Items /\ Present(i, queue, script, objects)
    BY DEF OnTheWay
  <2>2. i.block \in Blocks /\ i.from \in Producers /\ Owner[i.block] \in Threads
        /\ i.stage \in 0..2
    BY <2>1 DEF Items, Forwarding
  <2>3. CASE i.stage = 1
    BY <2>1, <2>2, <2>3 DEF Init, Present
  <2>4. CASE i.stage \in {0, 2}
    <3>1. i.from \in Threads
      BY <2>1, <2>2, <2>4 DEF Present
    <3>2. script[i.from] = <<>>
      BY <3>1 DEF Init
    <3> QED
      BY <2>4, <3>1, <3>2, IdleHolds
  <2> QED
    BY <2>2, <2>3, <2>4
<1>4. OnTheWay(queue, script, objects) = {}
  BY <1>3
<1>5. Routed({}, posted) /\ Ordered({})
  BY DEF Routed, Ordered
<1>6. ASSUME NEW b \in Blocks PROVE HandledOK(handled[b], b, {}, posted)
  BY DEF Init, HandledOK, ToCome
<1>7. \A t \in Threads : ScriptOK(script[t], t, objects)
  BY DEF Init, ScriptOK
<1>8. \A t \in Threads, p \in Producers : QueueOK(queue[t][p], t, objects)
  BY DEF Init, QueueOK
<1>9. AllFresh(queue, script, objects)
  BY DEF Init, AllFresh
<1> QED
  BY <1>2, <1>4, <1>5, <1>6, <1>7, <1>8, <1>9 DEF MessageInv, Inv

(* The types of the messages pushed. *)
LEMMA PushedTypes ==
  /\ \A o \in Nat : Message(o) \in Messages /\ Message(o).kind = "message"
  /\ \A b \in Blocks : System(b) \in Messages /\ System(b).kind # "message"
  /\ Notify \in Messages /\ Notify.kind # "message"
  BY DEF Message, System, Notify, Messages

(* A push changes one queue. *)
LEMMA PushIs ==
  ASSUME NEW q \in [Threads -> [Producers -> Seq(Messages)]], NEW q2, NEW u \in Threads,
         NEW p \in Producers, NEW m \in Messages, q2 = [q EXCEPT ![u][p] = Append(@, m)]
  PROVE  /\ q2 \in [Threads -> [Producers -> Seq(Messages)]]
         /\ q2[u][p] = Append(q[u][p], m)
         /\ \A v \in Threads, r \in Producers : v # u \/ r # p => q2[v][r] = q[v][r]
<1>1. Append(q[u][p], m) \in Seq(Messages)
  BY AppendProperties
<1> PICK S, a : S = Seq(Messages) /\ a = Append(q[u][p], m)
  OBVIOUS
<1>2. q2 = [q EXCEPT ![u][p] = a] /\ a \in S /\ q \in [Threads -> [Producers -> S]]
  BY <1>1
<1>3. /\ q2 \in [Threads -> [Producers -> S]] /\ q2[u][p] = a
      /\ \A v \in Threads, r \in Producers : v # u \/ r # p => q2[v][r] = q[v][r]
  BY ONLY <1>2, u \in Threads, p \in Producers
<1> QED
  BY <1>3

(* The application's post preserves the invariant. *)
LEMMA AppPostStep ==
  ASSUME Forwarding, Numbered, MessageInv, AppPost PROVE MessageInv'
<1> PICK q2, ob2 : q2 = queue' /\ ob2 = objects'
  OBVIOUS
<1> PICK b, d : b = Posts[posted + 1][1] /\ d = Posts[posted + 1][2]
  OBVIOUS
<1>0. /\ objects \in Seq([data : Data, callback : Blocks \cup {None}])
      /\ queue \in [Threads -> [Producers -> Seq(Messages)]]
      /\ posted \in 0..Len(Posts)
      /\ MessageType(queue, script, objects, posted, handled)
      /\ Inv(queue, script, objects, posted, handled)
  BY DEF MessageInv, Inv, MessageType
<1>n. Len(Posts) \in Nat /\ posted < Len(Posts)
  BY DEF AppPost, Numbered
<1>1. /\ posted \in Nat /\ posted + 1 \in 1..Len(Posts) /\ posted + 1 <= Len(Posts)
      /\ posted + 1 \in 0..Len(Posts)
  BY <1>0, <1>n
<1>2. b \in Blocks /\ d \in Data
  BY <1>1 DEF Numbered, Data
<1>3. Owner[b] \in Threads /\ "app" \in Producers
  BY <1>2 DEF Forwarding, Producers
<1>4. ob2 = Append(objects, [data |-> d, callback |-> b])
  BY DEF AppPost
<1>5. q2 = [queue EXCEPT ![Owner[b]]["app"] = Append(@, Message(Len(ob2)))]
  BY DEF AppPost, Push
<1>6. /\ Len(ob2) = Len(objects) + 1 /\ Len(objects) \in Nat
      /\ ob2[Len(objects) + 1] = [data |-> d, callback |-> b]
      /\ \A k \in 1..Len(objects) : ob2[k] = objects[k]
      /\ ob2 \in Seq([data : Data, callback : Blocks \cup {None}])
  BY <1>0, <1>2, <1>4
<1>7. PICK o : o = Len(ob2)
  OBVIOUS
<1>8. /\ o \in 1..Len(ob2) /\ o \notin 1..Len(objects) /\ Len(objects) <= Len(ob2) /\ o \in Nat
      /\ ob2[o].callback = b /\ ob2[o].data = d
  BY <1>6, <1>7
<1>9. /\ q2[Owner[b]]["app"] = Append(queue[Owner[b]]["app"], Message(o))
      /\ \A u \in Threads, r \in Producers : u # Owner[b] \/ r # "app" => q2[u][r] = queue[u][r]
  <2>1. Message(o) \in Messages
    BY <1>8 DEF Message, Messages
  <2> QED
    BY ONLY <1>0, <1>3, <1>5, <1>7, <2>1, PushIs
<1>10. q2 \in [Threads -> [Producers -> Seq(Messages)]]
  BY <1>0, <1>3, <1>5, <1>7, <1>8, PushedTypes
<1>11. MessageType(q2, script, ob2, posted + 1, handled)
  BY <1>0, <1>1, <1>6, <1>10 DEF MessageType
<1>12. NewPost(posted + 1) = At(d, b, 1, "app")
  BY DEF NewPost, At
<1>13. \A l \in 1..posted : Precedes(Posts[l][2], d)
  BY <1>1, LaterPost
<1>14. Inv(q2, script, ob2, posted + 1, handled)
  <2> PICK q, sc, ob, n, h :
         q = queue /\ sc = script /\ ob = objects /\ n = posted /\ h = handled
    OBVIOUS
  <2>1. Inv(q, sc, ob, n, h) /\ MessageType(q2, sc, ob2, n + 1, h) /\ n + 1 <= Len(Posts)
    BY <1>0, <1>1, <1>11
  <2>2. NewPost(n + 1) = At(d, b, 1, "app") /\ \A l \in 1..n : Precedes(Posts[l][2], d)
    BY <1>12, <1>13
  <2>3. /\ o \in 1..Len(ob2) /\ o \notin 1..Len(ob) /\ Len(ob) <= Len(ob2)
        /\ ob2[o].callback = b /\ ob2[o].data = d /\ \A k \in 1..Len(ob) : ob2[k] = ob[k]
    BY <1>6, <1>8
  <2>4. /\ q2[Owner[b]]["app"] = Append(q[Owner[b]]["app"], Message(o))
        /\ \A u \in Threads, r \in Producers : u # Owner[b] \/ r # "app" => q2[u][r] = q[u][r]
    BY <1>9
  <2>5. Inv(q2, sc, ob2, n + 1, h)
    BY ONLY <1>2, <2>1, <2>2, <2>3, <2>4, AppPostKept, Forwarding, Numbered
  <2> QED
    BY <2>5
<1> QED
  BY <1>14 DEF MessageInv, AppPost

(* A dispatch takes the first message of a queue into its handler. *)
LEMMA DispatchStep ==
  ASSUME Forwarding, Numbered, MessageInv, NEW t \in Threads, NEW p \in Producers, Dispatch(t, p)
  PROVE  MessageInv'
<1> PICK q2, sc2 : q2 = queue' /\ sc2 = script'
  OBVIOUS
<1>1. /\ MessageType(queue, script, objects, posted, handled)
      /\ Inv(queue, script, objects, posted, handled)
      /\ queue \in [Threads -> [Producers -> Seq(Messages)]] /\ DOMAIN script = Threads
      /\ queue[t][p] \in Seq(Messages) /\ queue[t][p] # <<>> /\ script[t] = <<>>
      /\ QueueOK(queue[t][p], t, objects)
  BY DEF MessageInv, Inv, MessageType, Dispatch, Popped
<1>2. Head(queue[t][p]) = queue[t][p][1] /\ 1 \in 1..Len(queue[t][p])
      /\ Tail(queue[t][p]) \in Seq(Messages)
  BY <1>1
<1>3. PICK o : o = objects[queue[t][p][1].object]
  OBVIOUS
<1> PICK b, d : b = o.callback /\ d = o.data
  OBVIOUS
<1>4. queue[t][p][1].kind = "message" /\ o.callback \in Blocks /\ o.callback # None
  BY <1>1, <1>2, <1>3, NamesAssumption DEF Dispatch, QueueOK
<1>5. sc2 = [script EXCEPT ![t] = Handler(o.callback, o.data)]
  BY <1>2, <1>3, <1>4 DEF Dispatch
<1>6. q2 = [queue EXCEPT ![t][p] = Tail(@)]
  BY DEF Dispatch
<1>7. /\ q2[t][p] = Tail(queue[t][p])
      /\ \A u \in Threads, r \in Producers : u # t \/ r # p => q2[u][r] = queue[u][r]
      /\ q2 \in [Threads -> [Producers -> Seq(Messages)]]
  BY <1>1, <1>2, <1>6
<1>8. /\ sc2[t] = Handler(b, d) /\ \A u \in Threads \ {t} : sc2[u] = script[u]
      /\ DOMAIN sc2 = Threads
  BY <1>1, <1>5
<1>9. Carries(queue[t][p][1], objects, b, d)
  BY <1>3, <1>4 DEF Carries
<1>10. MessageType(q2, sc2, objects, posted, handled)
  BY <1>1, <1>7, <1>8 DEF MessageType
<1>11. Inv(q2, sc2, objects, posted, handled)
  <2> PICK q, sc, ob, n, h :
         q = queue /\ sc = script /\ ob = objects /\ n = posted /\ h = handled
    OBVIOUS
  <2>1. sc[t] = <<>> /\ q[t][p] # <<>> /\ Carries(Head(q[t][p]), ob, b, d)
    BY <1>1, <1>2, <1>9
  <2>2. Inv(q, sc, ob, n, h) /\ MessageType(q2, sc2, ob, n, h)
    BY <1>1, <1>10
  <2>3. /\ q2[t][p] = Tail(q[t][p])
        /\ \A u \in Threads, r \in Producers : u # t \/ r # p => q2[u][r] = q[u][r]
    BY <1>7
  <2>4. sc2[t] = Handler(b, d) /\ \A u \in Threads \ {t} : sc2[u] = sc[u]
    BY <1>8
  <2>5. b \in Blocks /\ d \in Data
    <3>1. PICK k \in 1..Len(q[t][p]) : k = 1
      BY <1>2
    <3>2. Carries(q[t][p][k], ob, b, d)
      BY <1>9, <3>1
    <3> QED
      BY ONLY <2>2, <3>2, Queued, k \in 1..Len(q[t][p]), t \in Threads, p \in Producers
  <2>6. Inv(q2, sc2, ob, n, h)
    <3>1. Called(t, p, b, d, q, sc, ob, q2, sc2)
      BY <2>1, <2>3, <2>4 DEF Called
    <3> QED
      BY <2>2, <2>5, <3>1, CallKept
  <2> QED
    BY <2>6
<1> QED
  BY <1>11 DEF MessageInv, Dispatch

(* What a script does next tells what the thread is at. *)
LEMMA HandlerOps ==
  ASSUME NEW b, NEW d
  PROVE  /\ Head(Handler(b, d)).op = "load" /\ Head(Stored(b, d)).op = "store"
         /\ Head(Posting(b, d)).op = "post"
         /\ Head(Handler(b, d)).block = b /\ Head(Handler(b, d)).data = d
         /\ Head(Stored(b, d)).block = b
         /\ Head(Posting(b, d)).block = b /\ Head(Posting(b, d)).data = d
<1>1. /\ Head(Handler(b, d)) = [op |-> "load", block |-> b, data |-> d]
      /\ Head(Stored(b, d)) = [op |-> "store", block |-> b, data |-> d]
      /\ Head(Posting(b, d)) = [op |-> "post", block |-> b, data |-> d]
  BY DEF Handler, Stored, Posting
<1> QED
  BY <1>1

(* The kind, the block and the object of the steps of a delivery. *)
LEMMA PostOps ==
  ASSUME NEW b, NEW o
  PROVE  /\ Head(Delivery(o, b)).op = "bind" /\ Head(Pushing(o, b)).op = "push"
         /\ Head(Delivery(o, b)).block = b /\ Head(Delivery(o, b)).object = o
         /\ Head(Pushing(o, b)).block = b /\ Head(Pushing(o, b)).object = o
<1>1. /\ Head(Delivery(o, b)) = [op |-> "bind", block |-> b, object |-> o]
      /\ Head(Pushing(o, b)) = [op |-> "push", block |-> b, object |-> o]
  BY DEF Delivery, Pushing
<1> QED
  BY <1>1

(* The step a thread is about to take tells the shape of its script. *)
LEMMA NextOp ==
  ASSUME NEW s, NEW t, NEW ob, ScriptOK(s, t, ob), s # <<>>
  PROVE  /\ Head(s).op = "load" => \E b \in Blocks, d \in Data : Owner[b] = t /\ s = Handler(b, d)
         /\ Head(s).op = "store" => \E b \in Blocks, d \in Data : Owner[b] = t /\ s = Stored(b, d)
         /\ Head(s).op = "post" => \E b \in Blocks, d \in Data : Owner[b] = t /\ s = Posting(b, d)
         /\ Head(s).op = "bind" => \E b \in Blocks, o \in 1..Len(ob) : s = Delivery(o, b)
         /\ Head(s).op = "push" => \E b \in Blocks, o \in 1..Len(ob) : s = Pushing(o, b)
<1>1. ASSUME NEW b \in Blocks, NEW d \in Data
      PROVE  /\ s = Handler(b, d) => Head(s).op = "load"
             /\ s = Stored(b, d) => Head(s).op = "store"
             /\ s = Posting(b, d) => Head(s).op = "post"
  BY HandlerOps
<1>2. ASSUME NEW b \in Blocks, NEW o \in 1..Len(ob)
      PROVE  /\ s = Delivery(o, b) => Head(s).op = "bind"
             /\ s = Pushing(o, b) => Head(s).op = "push"
  BY PostOps
<1> QED
  BY <1>1, <1>2, ShapeOf

(* Steps that only touch messages of other kinds. *)
LEMMA OtherKept ==
  ASSUME Forwarding, Numbered, MessageInv, NEW t \in Threads,
         UNCHANGED <<script, objects, posted, handled>>,
         queue' \in [Threads -> [Producers -> Seq(Messages)]],
         \A u \in Threads, r \in Producers : Kept(queue'[u][r], queue[u][r])
  PROVE  MessageInv'
<1> PICK q2 : q2 = queue'
  OBVIOUS
<1>1. Inv(queue, script, objects, posted, handled)
  BY DEF MessageInv
<1>2. MessageType(q2, script, objects, posted, handled)
  BY <1>1 DEF Inv, MessageType
<1>3. \A u \in Threads, r \in Producers : Kept(q2[u][r], queue[u][r])
  OBVIOUS
<1>4. Inv(q2, script, objects, posted, handled)
  BY <1>1, <1>2, <1>3, QueuesKept
<1> QED
  BY <1>4 DEF MessageInv

(* Handling "done" moves no message. *)
LEMMA SystemStep ==
  ASSUME Forwarding, Numbered, MessageInv, NEW t \in Threads, NEW p \in Producers, HandleSystem(t, p)
  PROVE  MessageInv'
<1> PICK q2, b : q2 = queue' /\ b = Head(queue[t][p]).block
  OBVIOUS
<1>1. queue \in [Threads -> [Producers -> Seq(Messages)]] /\ queue[t][p] \in Seq(Messages)
  BY DEF MessageInv, Inv, MessageType
<1>2. queue[t][p] # <<>> /\ Head(queue[t][p]).kind = "system"
  BY DEF HandleSystem, Popped
<1>3. b \in Blocks
  <2>1. Head(queue[t][p]) \in Messages
    BY <1>1, <1>2
  <2> QED
    BY <1>2, <2>1 DEF Messages
<1>4. Owner[b] \in Threads /\ t \in Producers
  BY <1>3 DEF Forwarding, Producers
<1> PICK rest : rest = [queue EXCEPT ![t][p] = Tail(@)]
  OBVIOUS
<1>5. /\ rest \in [Threads -> [Producers -> Seq(Messages)]]
      /\ rest[t][p] = Tail(queue[t][p])
      /\ \A u \in Threads, r \in Producers : u # t \/ r # p => rest[u][r] = queue[u][r]
  BY <1>1, <1>2
<1>6. q2 = [rest EXCEPT ![Owner[b]][t] = Append(@, Notify)]
  BY DEF HandleSystem
<1>7. /\ q2 \in [Threads -> [Producers -> Seq(Messages)]]
      /\ q2[Owner[b]][t] = Append(rest[Owner[b]][t], Notify)
      /\ \A u \in Threads, r \in Producers : u # Owner[b] \/ r # t => q2[u][r] = rest[u][r]
  <2>1. rest[Owner[b]] \in [Producers -> Seq(Messages)] /\ rest[Owner[b]][t] \in Seq(Messages)
    BY <1>4, <1>5
  <2>2. Append(rest[Owner[b]][t], Notify) \in Seq(Messages)
    BY <2>1, PushedTypes
  <2> PICK a : a = Append(rest[Owner[b]][t], Notify)
    OBVIOUS
  <2>3. q2 = [rest EXCEPT ![Owner[b]][t] = a] /\ a \in Seq(Messages)
    BY <1>4, <1>5, <1>6, <2>1, <2>2
  <2> PICK S : S = Seq(Messages)
    OBVIOUS
  <2>4. rest \in [Threads -> [Producers -> S]] /\ a \in S
    BY <1>5, <2>3
  <2>5. /\ q2 \in [Threads -> [Producers -> S]] /\ q2[Owner[b]][t] = a
        /\ \A u \in Threads, r \in Producers : u # Owner[b] \/ r # t => q2[u][r] = rest[u][r]
    BY ONLY <1>4, <2>3, <2>4, t \in Threads
  <2> QED
    BY <2>5
<1>8. ASSUME NEW u \in Threads, NEW r \in Producers PROVE Kept(q2[u][r], queue[u][r])
  <2>1. queue[u][r] \in Seq(Messages) /\ rest[u][r] \in Seq(Messages)
    BY <1>1, <1>5
  <2>2. Kept(rest[u][r], queue[u][r])
    BY <1>2, <1>5, <2>1, KeptSelf, KeptTail
  <2>3. Kept(Append(rest[u][r], Notify), queue[u][r])
    BY <2>1, <2>2, KeptAppend, PushedTypes
  <2> QED
    BY <1>7, <2>2, <2>3
<1> QED
  BY <1>7, <1>8, OtherKept DEF HandleSystem

(* Popping a notification moves no message. *)
LEMMA NotifyStep ==
  ASSUME Forwarding, Numbered, MessageInv, NEW t \in Threads, NEW p \in Producers, PopNotify(t, p)
  PROVE  MessageInv'
<1> PICK q2 : q2 = queue'
  OBVIOUS
<1>1. queue \in [Threads -> [Producers -> Seq(Messages)]] /\ queue[t][p] # <<>>
  BY DEF MessageInv, Inv, MessageType, PopNotify, Popped
<1>2. q2 = [queue EXCEPT ![t][p] = Tail(@)]
  BY DEF PopNotify
<1>3. /\ q2 \in [Threads -> [Producers -> Seq(Messages)]]
      /\ q2[t][p] = Tail(queue[t][p])
      /\ \A u \in Threads, r \in Producers : u # t \/ r # p => q2[u][r] = queue[u][r]
  BY <1>1, <1>2
<1>4. ASSUME NEW u \in Threads, NEW r \in Producers PROVE Kept(q2[u][r], queue[u][r])
  <2>1. queue[u][r] \in Seq(Messages)
    BY <1>1
  <2> QED
    BY <1>1, <1>3, <2>1, KeptSelf, KeptTail
<1> QED
  BY <1>3, <1>4, OtherKept DEF PopNotify

(* An iteration moves no message. *)
LEMMA IterateStep ==
  ASSUME Forwarding, Numbered, MessageInv, NEW t \in Threads, Iterate(t)
  PROVE  MessageInv'
  BY DEF Iterate, MessageInv

(* Loading the count is where a message counts as handled. *)
LEMMA LoadStep ==
  ASSUME Forwarding, Numbered, MessageInv, NEW t \in Threads, LoadCount(t)
  PROVE  MessageInv'
<1> PICK sc2, h2 : sc2 = script' /\ h2 = handled'
  OBVIOUS
<1>1. /\ Inv(queue, script, objects, posted, handled)
      /\ MessageType(queue, script, objects, posted, handled)
      /\ DOMAIN script = Threads
      /\ handled \in [Blocks -> Seq([data : Data, thread : Threads])]
      /\ ScriptOK(script[t], t, objects) /\ script[t] # <<>>
      /\ Head(script[t]).op = "load"
  BY DEF MessageInv, Inv, MessageType, LoadCount, Does
<1>2. PICK b \in Blocks, d \in Data : Owner[b] = t /\ script[t] = Handler(b, d)
  BY <1>1, NextOp
<1>3. Head(script[t]).block = b /\ Head(script[t]).data = d /\ Tail(script[t]) = Stored(b, d)
  BY <1>2, HandlerOps, HandlerTails
<1>4. sc2 = [script EXCEPT ![t] = Stored(b, d)]
  BY <1>3 DEF LoadCount
<1>5. h2 = [handled EXCEPT ![b] = Append(@, [data |-> d, thread |-> t])]
  BY <1>3 DEF LoadCount
<1>6. /\ sc2[t] = Stored(b, d) /\ \A u \in Threads \ {t} : sc2[u] = script[u]
      /\ DOMAIN sc2 = Threads
  BY <1>1, <1>4
<1>7. /\ h2[b] = Append(handled[b], [data |-> d, thread |-> t])
      /\ \A a \in Blocks \ {b} : h2[a] = handled[a]
      /\ h2 \in [Blocks -> Seq([data : Data, thread : Threads])]
  <2>1. [data |-> d, thread |-> t] \in [data : Data, thread : Threads]
    OBVIOUS
  <2>2. Append(handled[b], [data |-> d, thread |-> t]) \in Seq([data : Data, thread : Threads])
    BY <1>1, <2>1, AppendProperties
  <2> QED
    BY <1>1, <1>5, <2>2
<1>8. MessageType(queue, sc2, objects, posted, h2)
  BY <1>1, <1>6, <1>7 DEF MessageType
<1>9. Inv(queue, sc2, objects, posted, h2)
  <2> PICK q, sc, ob, n, h :
         q = queue /\ sc = script /\ ob = objects /\ n = posted /\ h = handled
    OBVIOUS
  <2>1. Owner[b] = t /\ sc[t] = Handler(b, d) /\ sc2[t] = Stored(b, d)
    BY <1>2, <1>6
  <2>2. \A u \in Threads \ {t} : sc2[u] = sc[u]
    BY <1>6
  <2>3. h2[b] = Append(h[b], [data |-> d, thread |-> t]) /\ \A a \in Blocks \ {b} : h2[a] = h[a]
    BY <1>7
  <2>4. Inv(q, sc, ob, n, h) /\ MessageType(q, sc2, ob, n, h2)
    BY <1>1, <1>8
  <2>5. Inv(q, sc2, ob, n, h2)
    BY ONLY <2>1, <2>2, <2>3, <2>4, LoadKept, Forwarding, Numbered,
            t \in Threads, b \in Blocks, d \in Data
  <2> QED
    BY <2>5
<1> QED
  BY <1>9 DEF MessageInv, LoadCount

(* Storing the count preserves the invariant. *)
LEMMA StoreStep ==
  ASSUME Forwarding, Numbered, MessageInv, NEW t \in Threads, StoreCount(t)
  PROVE  MessageInv'
<1> PICK q2, sc2 : q2 = queue' /\ sc2 = script'
  OBVIOUS
<1>1. /\ Inv(queue, script, objects, posted, handled)
      /\ MessageType(queue, script, objects, posted, handled)
      /\ DOMAIN script = Threads /\ queue \in [Threads -> [Producers -> Seq(Messages)]]
      /\ ScriptOK(script[t], t, objects) /\ script[t] # <<>>
      /\ Head(script[t]).op = "store"
  BY DEF MessageInv, Inv, MessageType, StoreCount, Does
<1>2. PICK b \in Blocks, d \in Data : Owner[b] = t /\ script[t] = Stored(b, d)
  BY <1>1, NextOp
<1>3. Head(script[t]).block = b /\ Tail(script[t]) = Posting(b, d)
  BY <1>2, HandlerOps, HandlerTails
<1>4. sc2 = [script EXCEPT ![t] = Posting(b, d)]
  BY <1>3 DEF StoreCount
<1>5. q2 = queue \/ q2 = [queue EXCEPT ![t][t] = Append(@, System(b))]
  BY <1>2, <1>3 DEF StoreCount, Push
<1>6. /\ sc2[t] = Posting(b, d) /\ \A u \in Threads \ {t} : sc2[u] = script[u]
      /\ DOMAIN sc2 = Threads
  BY <1>1, <1>4
<1>7. /\ q2 \in [Threads -> [Producers -> Seq(Messages)]]
      /\ \A u \in Threads, r \in Producers : Kept(q2[u][r], queue[u][r])
  <2>0. t \in Producers /\ System(b) \in Messages /\ System(b).kind # "message"
    BY PushedTypes DEF Producers
  <2>1. CASE q2 = queue
    BY <1>1, <2>1, KeptSelf
  <2>2. CASE q2 = [queue EXCEPT ![t][t] = Append(@, System(b))]
    <3>1. /\ q2 \in [Threads -> [Producers -> Seq(Messages)]]
          /\ q2[t][t] = Append(queue[t][t], System(b))
          /\ \A v \in Threads, r \in Producers : v # t \/ r # t => q2[v][r] = queue[v][r]
      BY ONLY <1>1, <2>0, <2>2, t \in Threads, PushIs
    <3>2. ASSUME NEW u \in Threads, NEW r \in Producers PROVE Kept(q2[u][r], queue[u][r])
      <4>1. queue[u][r] \in Seq(Messages) /\ Kept(queue[u][r], queue[u][r])
        BY <1>1, KeptSelf
      <4>2. Kept(Append(queue[u][r], System(b)), queue[u][r])
        BY <2>0, <4>1, KeptAppend
      <4> QED
        BY <3>1, <4>1, <4>2
    <3> QED
      BY <3>1, <3>2
  <2> QED
    BY <1>5, <2>1, <2>2
<1>8. MessageType(q2, sc2, objects, posted, handled)
  BY <1>1, <1>6, <1>7 DEF MessageType
<1>9. Inv(q2, sc2, objects, posted, handled)
  <2> PICK q, sc, ob, n, h :
         q = queue /\ sc = script /\ ob = objects /\ n = posted /\ h = handled
    OBVIOUS
  <2>1. Owner[b] = t /\ sc[t] = Stored(b, d) /\ sc2[t] = Posting(b, d)
    BY <1>2, <1>6
  <2>2. \A u \in Threads \ {t} : sc2[u] = sc[u]
    BY <1>6
  <2>3. \A u \in Threads, r \in Producers : Kept(q2[u][r], q[u][r])
    BY <1>7
  <2>4. Inv(q, sc, ob, n, h) /\ MessageType(q2, sc2, ob, n, h)
    BY <1>1, <1>8
  <2>5. Inv(q2, sc2, ob, n, h)
    BY ONLY <2>1, <2>2, <2>3, <2>4, StoreKept, Forwarding, t \in Threads, b \in Blocks, d \in Data
  <2> QED
    BY <2>5
<1> QED
  BY <1>9 DEF MessageInv, StoreCount

(* A post on an output port preserves the invariant. *)
LEMMA PostStep ==
  ASSUME Forwarding, Numbered, MessageInv, NEW t \in Threads, Post(t)
  PROVE  MessageInv'
<1> PICK sc2, ob2 : sc2 = script' /\ ob2 = objects'
  OBVIOUS
<1>1. /\ Inv(queue, script, objects, posted, handled)
      /\ MessageType(queue, script, objects, posted, handled)
      /\ DOMAIN script = Threads
      /\ objects \in Seq([data : Data, callback : Blocks \cup {None}])
      /\ ScriptOK(script[t], t, objects) /\ script[t] # <<>>
      /\ Head(script[t]).op = "post"
  BY DEF MessageInv, Inv, MessageType, Post, Does
<1>2. PICK b \in Blocks, d \in Data : Owner[b] = t /\ script[t] = Posting(b, d)
  BY <1>1, NextOp
<1>3. Head(script[t]).block = b /\ Head(script[t]).data = d /\ Tail(script[t]) = <<>>
  BY <1>2, HandlerOps, HandlerTails
<1> PICK o : o = Len(objects) + 1
  OBVIOUS
<1>4. sc2 = [script EXCEPT ![t] = Deliveries(o, Connected[b]) \o <<>>]
  BY <1>3 DEF Post
<1>5. ob2 = Append(objects, [data |-> d, callback |-> None])
  BY <1>3 DEF Post
<1>6. /\ Len(ob2) = o /\ Len(ob2) = Len(objects) + 1 /\ ob2[Len(ob2)].data = d
      /\ \A k \in 1..Len(objects) : ob2[k] = objects[k]
      /\ ob2 \in Seq([data : Data, callback : Blocks \cup {None}])
  <2>1. [data |-> d, callback |-> None] \in [data : Data, callback : Blocks \cup {None}]
    OBVIOUS
  <2> PICK S, e : S = [data : Data, callback : Blocks \cup {None}]
                  /\ e = [data |-> d, callback |-> None]
    OBVIOUS
  <2>2. objects \in Seq(S) /\ e \in S /\ e.data = d /\ ob2 = Append(objects, e)
    BY <1>1, <1>5, <2>1
  <2>3. /\ Len(ob2) = Len(objects) + 1 /\ ob2[Len(objects) + 1] = e
        /\ \A k \in 1..Len(objects) : ob2[k] = objects[k] /\ ob2 \in Seq(S)
    BY ONLY <2>2, AppendProperties
  <2> QED
    BY <2>2, <2>3
<1>7. /\ sc2[t] = Deliveries(o, Connected[b]) \o <<>>
      /\ \A u \in Threads \ {t} : sc2[u] = script[u]
      /\ DOMAIN sc2 = Threads
  BY <1>1, <1>4
<1>8. \/ sc2[t] = <<>>
      \/ \E c \in Blocks : Feeds(b, c) /\ sc2[t] = Delivery(Len(ob2), c)
  <2>1. CASE Connected[b] = <<>>
    BY <1>7, <2>1, PostScript
  <2>2. ASSUME NEW c \in Blocks, Feeds(b, c) PROVE sc2[t] = Delivery(Len(ob2), c)
    <3>1. Connected[b] = <<c>> /\ <<c>> # <<>>
      BY <2>2 DEF Feeds
    <3>2. Deliveries(o, Connected[b]) \o <<>> = Delivery(o, c)
      BY <3>1, PostScript
    <3> QED
      BY <1>6, <1>7, <3>2
  <2> QED
    BY <2>1, <2>2 DEF Forwarding
<1>9. MessageType(queue, sc2, ob2, posted, handled)
  BY <1>1, <1>6, <1>7 DEF MessageType
<1>10. Inv(queue, sc2, ob2, posted, handled)
  <2> PICK q, sc, ob, n, h :
         q = queue /\ sc = script /\ ob = objects /\ n = posted /\ h = handled
    OBVIOUS
  <2>1. Owner[b] = t /\ sc[t] = Posting(b, d) /\ \A u \in Threads \ {t} : sc2[u] = sc[u]
    BY <1>2, <1>7
  <2>2. /\ Len(ob2) = Len(ob) + 1 /\ ob2[Len(ob2)].data = d
        /\ \A k \in 1..Len(ob) : ob2[k] = ob[k]
    BY <1>6
  <2>3. Inv(q, sc, ob, n, h) /\ MessageType(q, sc2, ob2, n, h)
    BY <1>1, <1>9
  <2>4. PostedBy(q, sc, ob, n, h, sc2, ob2, t, b, d)
    BY ONLY <1>8, <2>1, <2>2, <2>3 DEF PostedBy
  <2>5. Inv(q, sc2, ob2, n, h)
    BY ONLY <2>4, PostKept, Forwarding, t \in Threads, b \in Blocks, d \in Data
  <2> QED
    BY <2>5
<1> QED
  BY <1>10 DEF MessageInv, Post

(* Storing a port's callback preserves the invariant. *)
LEMMA BindStep ==
  ASSUME Forwarding, Numbered, MessageInv, NEW t \in Threads, Bind(t)
  PROVE  MessageInv'
<1> PICK sc2, ob2 : sc2 = script' /\ ob2 = objects'
  OBVIOUS
<1>1. /\ Inv(queue, script, objects, posted, handled)
      /\ MessageType(queue, script, objects, posted, handled)
      /\ DOMAIN script = Threads
      /\ objects \in Seq([data : Data, callback : Blocks \cup {None}])
      /\ ScriptOK(script[t], t, objects) /\ script[t] # <<>>
      /\ Head(script[t]).op = "bind"
  BY DEF MessageInv, Inv, MessageType, Bind, Does
<1>2. PICK b \in Blocks, o \in 1..Len(objects) : script[t] = Delivery(o, b)
  BY <1>1, NextOp
<1>3. /\ Head(script[t]).block = b /\ Head(script[t]).object = o
      /\ Tail(script[t]) = Pushing(o, b)
  BY <1>2, PostOps, PostTails
<1>4. /\ sc2 = [script EXCEPT ![t] = Pushing(o, b)]
      /\ ob2 = [objects EXCEPT ![o].callback = b]
  BY <1>3 DEF Bind
<1>5. /\ sc2[t] = Pushing(o, b) /\ \A u \in Threads \ {t} : sc2[u] = script[u]
      /\ DOMAIN sc2 = Threads
  BY <1>1, <1>4
<1>6. /\ Len(ob2) = Len(objects) /\ \A k \in 1..Len(objects) : ob2[k].data = objects[k].data
      /\ \A k \in 1..Len(objects) : k # o => ob2[k] = objects[k]
      /\ ob2[o].callback = b
      /\ ob2 \in Seq([data : Data, callback : Blocks \cup {None}])
  <2> PICK S, ob, B : S = [data : Data, callback : B] /\ ob = objects /\ B = Blocks \cup {None}
    OBVIOUS
  <2> PICK e : e = [ob[o] EXCEPT !.callback = b]
    OBVIOUS
  <2>1. ob \in Seq(S) /\ o \in 1..Len(ob) /\ b \in B /\ ob2 = [ob EXCEPT ![o] = e]
    BY <1>1, <1>4
  <2>2. ob[o] \in S
    BY ONLY <2>1
  <2>3. e \in [data : Data, callback : B] /\ e.data = ob[o].data /\ e.callback = b
    BY ONLY <2>1, <2>2, e = [ob[o] EXCEPT !.callback = b], S = [data : Data, callback : B]
  <2>4. /\ Len(ob2) = Len(ob) /\ ob2[o] = e /\ \A k \in 1..Len(ob) : k # o => ob2[k] = ob[k]
        /\ ob2 \in Seq(S)
    BY ONLY <2>1, <2>3, S = [data : Data, callback : B]
  <2> QED
    BY <2>3, <2>4
<1>7. MessageType(queue, sc2, ob2, posted, handled)
  BY <1>1, <1>5, <1>6 DEF MessageType
<1>8. Inv(queue, sc2, ob2, posted, handled)
  <2> PICK q, sc, ob, n, h :
         q = queue /\ sc = script /\ ob = objects /\ n = posted /\ h = handled
    OBVIOUS
  <2>1. sc[t] = Delivery(o, b) /\ sc2[t] = Pushing(o, b) /\ \A u \in Threads \ {t} : sc2[u] = sc[u]
    BY <1>2, <1>5
  <2>2. /\ Len(ob2) = Len(ob) /\ \A k \in 1..Len(ob) : ob2[k].data = ob[k].data
        /\ \A k \in 1..Len(ob) : k # o => ob2[k] = ob[k]
        /\ ob2[o].callback = b /\ o \in 1..Len(ob)
    BY <1>6
  <2>3. Inv(q, sc, ob, n, h) /\ MessageType(q, sc2, ob2, n, h)
    BY <1>1, <1>7
  <2>4. BoundBy(q, sc, ob, n, h, sc2, ob2, t, b, o)
    BY ONLY <2>1, <2>2, <2>3 DEF BoundBy
  <2>5. Inv(q, sc2, ob2, n, h)
    BY ONLY <2>2, <2>4, BindKept, Forwarding, t \in Threads, b \in Blocks
  <2> QED
    BY <2>5
<1> QED
  BY <1>8 DEF MessageInv, Bind

(* Pushing to the owner's queue preserves the invariant. *)
LEMMA DeliverStep ==
  ASSUME Forwarding, Numbered, MessageInv, NEW t \in Threads, Deliver(t)
  PROVE  MessageInv'
<1> PICK sc2, q2 : sc2 = script' /\ q2 = queue'
  OBVIOUS
<1>1. /\ Inv(queue, script, objects, posted, handled)
      /\ MessageType(queue, script, objects, posted, handled)
      /\ DOMAIN script = Threads
      /\ queue \in [Threads -> [Producers -> Seq(Messages)]]
      /\ objects \in Seq([data : Data, callback : Blocks \cup {None}])
      /\ ScriptOK(script[t], t, objects) /\ script[t] # <<>>
      /\ Head(script[t]).op = "push"
  BY DEF MessageInv, Inv, MessageType, Deliver, Does
<1>2. PICK b \in Blocks, o \in 1..Len(objects) : script[t] = Pushing(o, b)
  BY <1>1, NextOp
<1>3. /\ Head(script[t]).block = b /\ Head(script[t]).object = o
      /\ Tail(script[t]) = <<>>
  BY <1>2, PostOps, PostTails
<1>4. /\ sc2 = [script EXCEPT ![t] = <<>>]
      /\ q2 = [queue EXCEPT ![Owner[b]][t] = Append(@, Message(o))]
  BY <1>3 DEF Deliver, Push
<1>5. /\ sc2[t] = <<>> /\ \A u \in Threads \ {t} : sc2[u] = script[u]
      /\ DOMAIN sc2 = Threads
  BY <1>1, <1>4
<1>6. Owner[b] \in Threads /\ t \in Producers /\ Message(o) \in Messages
  BY LenProperties, <1>1 DEF Forwarding, Producers, Message, Messages
<1>7. /\ q2 \in [Threads -> [Producers -> Seq(Messages)]]
      /\ q2[Owner[b]][t] = Append(queue[Owner[b]][t], Message(o))
      /\ \A v \in Threads, r \in Producers : v # Owner[b] \/ r # t => q2[v][r] = queue[v][r]
  BY ONLY <1>1, <1>4, <1>6, PushIs
<1>8. MessageType(q2, sc2, objects, posted, handled)
  BY <1>1, <1>5, <1>7 DEF MessageType
<1>9. Inv(q2, sc2, objects, posted, handled)
  <2> PICK q, sc, ob, n, h :
         q = queue /\ sc = script /\ ob = objects /\ n = posted /\ h = handled
    OBVIOUS
  <2>1. sc[t] = Pushing(o, b) /\ sc2[t] = <<>> /\ \A u \in Threads \ {t} : sc2[u] = sc[u]
    BY <1>2, <1>5
  <2>2. /\ q2[Owner[b]][t] = Append(q[Owner[b]][t], Message(o)) /\ o \in 1..Len(ob)
        /\ \A v \in Threads, r \in Producers : v # Owner[b] \/ r # t => q2[v][r] = q[v][r]
    BY <1>7
  <2>3. Inv(q, sc, ob, n, h) /\ MessageType(q2, sc2, ob, n, h)
    BY <1>1, <1>8
  <2>4. PushedBy(q, sc, ob, n, h, q2, sc2, t, b, o)
    BY ONLY <2>1, <2>2, <2>3 DEF PushedBy
  <2>5. Inv(q2, sc2, ob, n, h)
    BY ONLY <2>2, <2>4, DeliverKept, Forwarding, Numbered, t \in Threads, b \in Blocks
  <2> QED
    BY <2>5
<1> QED
  BY <1>9 DEF MessageInv, Deliver

-----------------------------------------------------------------------------
(* Every step preserves the invariant. *)
LEMMA StepMessage == ASSUME Forwarding, Numbered, MessageInv, [Next]_vars PROVE MessageInv'
<1>1. CASE AppPost
  BY <1>1, AppPostStep
<1>2. ASSUME NEW t \in Threads, NEW p \in Producers,
             Dispatch(t, p) \/ HandleSystem(t, p) \/ PopNotify(t, p)
      PROVE  MessageInv'
  BY <1>2, DispatchStep, SystemStep, NotifyStep
<1>3. ASSUME NEW t \in Threads, Iterate(t) \/ LoadCount(t) \/ StoreCount(t)
      PROVE  MessageInv'
  BY <1>3, IterateStep, LoadStep, StoreStep
<1>4. ASSUME NEW t \in Threads, Post(t) \/ Bind(t) \/ Deliver(t) PROVE MessageInv'
  BY <1>4, PostStep, BindStep, DeliverStep
<1>5. CASE UNCHANGED vars
  BY <1>5 DEF MessageInv, vars
<1> QED
  BY <1>1, <1>2, <1>3, <1>4, <1>5 DEF Next, ThreadNext

(* The invariant is more than the property. *)
LEMMA InvInOrder == ASSUME MessageInv PROVE HandledByOwnerInOrder
<1>1. ASSUME NEW b \in Blocks PROVE DOMAIN handled[b] = 1..Len(handled[b])
  BY DEF MessageInv, Inv, MessageType
<1>2. ASSUME NEW b \in Blocks PROVE HandledOK(handled[b], b, OnTheWay(queue, script, objects), posted)
  BY DEF MessageInv, Inv
<1> QED
  BY <1>1, <1>2 DEF HandledOK, Precedes, HandledByOwnerInOrder

(* Wherever a message is - with the thread that posts it, in the queue of the
   owner, in its hands - no message of the same source that was posted later is
   ahead of it, and the handlers have seen none. *)
THEOREM MessageInvariant == ASSUME Forwarding, Numbered PROVE Spec => []MessageInv
<1>1. Init => MessageInv
  BY InitMessage
<1>2. MessageInv /\ [Next]_vars => MessageInv'
  BY StepMessage
<1> QED
  BY <1>1, <1>2, PTL DEF Spec

(* A message is handled by each block it reaches at most once, in the thread
   that owns the block and in the order of the posts. *)
THEOREM InOrder == ASSUME Forwarding, Numbered PROVE Spec => []HandledByOwnerInOrder
<1>1. MessageInv => HandledByOwnerInOrder
  BY InvInOrder
<1> QED
  BY <1>1, MessageInvariant, PTL
=============================================================================
