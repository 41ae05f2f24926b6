---------------------------- MODULE ZmqLinkProofs ----------------------------
(***************************************************************************)
(* Proofs about ZmqLink, for every length of the stream and of the queues, *)
(* every size of the buffers at both ends and every choice of tagged       *)
(* items: however a stream is cut into messages, and however these are     *)
(* copied in pieces, items arrive in order, once and with their tags.      *)
(***************************************************************************)
EXTENDS ZmqLink, SequenceTheorems, TLAPS

Messages == [first : Nat, n : Nat, tags : SUBSET Nat]

(* What has come through, the rest of the message at hand and the messages on
   the wire hold items one after the other. *)
Increasing(s) == \A i, j \in 1..Len(s) : i < j => s[i] < s[j]
ItemsOfAll(w) == UNION {ItemsOf(w[k]) : k \in 1..Len(w)}
Chain(s, part, w) ==
  /\ Increasing(s)
  /\ Before(Range(s), ItemsOf(part))
  /\ Before(Range(s), ItemsOfAll(w)) /\ Before(ItemsOf(part), ItemsOfAll(w))
  /\ \A k, l \in 1..Len(w) : k < l => Before(ItemsOf(w[k]), ItemsOf(w[l]))
Carried(s, part, w) == Range(s) \cup ItemsOf(part) \cup ItemsOfAll(w)

LinkType ==
  /\ pattern \in {"PUSH", "REQ", "NET"} /\ hwm \in Nat \ {0} /\ connected \in BOOLEAN
  /\ produced \in Nat /\ nread \in Nat /\ replying \in Nat /\ rdone \in Nat /\ request \in Int
  /\ nread + replying <= produced /\ produced <= Items /\ rdone <= replying
  /\ pattern # "REQ" => replying = 0
  /\ pattern = "NET" => nread = produced
  /\ wire \in Seq(Messages) /\ d_msg \in Messages
  /\ d_consumed \in Nat /\ d_consumed <= d_msg.n

(* The work of the source stays within the space it was granted. *)
SpaceInv ==
  /\ grant \in Nat /\ taken \in Nat /\ out \in Seq(Nat) /\ staged \in Seq(Nat)
  /\ Len(staged) <= grant /\ taken <= Len(out)
  /\ (Len(out) - taken) + grant <= DownCap
  /\ pattern = "NET" => grant = 0

(* The items sent so far. *)
Sent == nread + rdone
OrderInv ==
  /\ Chain(Received, Rest, wire)
  /\ Carried(Received, Rest, wire) \subseteq 0..(Sent - 1)

(* Every message of push_sink has an item, so that the wire cannot fill up
   before the stream ends; nothing is sent before the connection. *)
GapInv ==
  /\ pattern = "PUSH" =>
       /\ Len(wire) <= nread
       /\ ~ connected => Carried(Received, Rest, wire) = {}
       /\ hwm >= Items => \E i \in Nat : Carried(Received, Rest, wire) = i..(nread - 1)
  /\ pattern = "NET" => Carried(Received, Rest, wire) = 0..(produced - 1)

(* The offsets in a message that are below its length are those of its items
   that carry a tag. *)
Fits(m) == \A t \in Nat : t < m.n => (t \in m.tags <=> m.first + t \in Tagged)
TagInv ==
  IF pattern = "NET"
  THEN /\ outTags = {} /\ d_msg.tags = {}
       /\ \A k \in 1..Len(wire) : wire[k].tags = {}
  ELSE /\ Fits(d_msg) /\ \A k \in 1..Len(wire) : Fits(wire[k])
       /\ outTags = {k - 1 : k \in {j \in 1..Len(Received) : Received[j] \in Tagged}}

LinkInv == LinkType /\ SpaceInv /\ OrderInv /\ GapInv /\ TagInv

-----------------------------------------------------------------------------
(* The least of two numbers. *)
LEMMA MinPair ==
  ASSUME NEW a \in Int, NEW b \in Int
  PROVE  /\ Min({a, b}) \in {a, b}
         /\ Min({a, b}) <= a /\ Min({a, b}) <= b
<1>1. \E x \in {a, b} : \A y \in {a, b} : x <= y
  OBVIOUS
<1> QED
  BY <1>1 DEF Min

(* The items of messages. *)
LEMMA ItemsAre ==
  ASSUME NEW part, part.first \in Nat, part.n \in Nat
  PROVE  /\ \A x : x \in ItemsOf(part) <=> x \in Nat /\ part.first <= x /\ x < part.first + part.n
         /\ ItemsOf(part) \subseteq Nat
  BY DEF ItemsOf

(* Messages hold numbers, and every item of them is an item of one. *)
LEMMA AllItems ==
  ASSUME NEW w \in Seq(Messages)
  PROVE  /\ ItemsOfAll(w) \subseteq Nat
         /\ \A k \in 1..Len(w) : /\ w[k].first \in Nat /\ w[k].n \in Nat
                                 /\ ItemsOf(w[k]) \subseteq ItemsOfAll(w)
         /\ \A x \in ItemsOfAll(w) : \E k \in 1..Len(w) : x \in ItemsOf(w[k])
<1>1. \A k \in 1..Len(w) : w[k] \in Messages
  BY ElementOfSeq
<1>2. \A k \in 1..Len(w) : w[k].first \in Nat /\ w[k].n \in Nat
  BY <1>1 DEF Messages
<1>3. \A k \in 1..Len(w) : ItemsOf(w[k]) \subseteq Nat
  BY <1>2, ItemsAre
<1> QED
  BY <1>2, <1>3 DEF ItemsOfAll

(* A message sent holds the items that come after all that were sent. *)
LEMMA ChainSend ==
  ASSUME NEW s \in Seq(Nat), NEW part, part.first \in Nat, part.n \in Nat,
         NEW w \in Seq(Messages), NEW m \in Messages,
         Chain(s, part, w), Carried(s, part, w) \subseteq 0..(m.first - 1)
  PROVE  /\ Chain(s, part, Append(w, m))
         /\ Carried(s, part, Append(w, m)) = Carried(s, part, w) \cup ItemsOf(m)
<1> DEFINE v == Append(w, m)
<1>1. /\ v \in Seq(Messages) /\ Len(v) = Len(w) + 1 /\ Len(w) \in Nat
      /\ \A k \in 1..Len(w) : v[k] = w[k]
      /\ v[Len(w) + 1] = m
  BY AppendProperties
<1> HIDE DEF v
<1>2. \A k \in 1..Len(v) : (k \in 1..Len(w) /\ v[k] = w[k]) \/ (k = Len(w) + 1 /\ v[k] = m)
  BY <1>1
<1>3. ItemsOfAll(v) = ItemsOfAll(w) \cup ItemsOf(m)
  <2>1. ItemsOfAll(v) \subseteq ItemsOfAll(w) \cup ItemsOf(m)
    BY <1>2 DEF ItemsOfAll
  <2>2. ItemsOfAll(w) \subseteq ItemsOfAll(v)
    <3>1. \A k \in 1..Len(w) : k \in 1..Len(v) /\ v[k] = w[k]
      BY <1>1
    <3> QED
      BY <3>1 DEF ItemsOfAll
  <2>3. ItemsOf(m) \subseteq ItemsOfAll(v)
    <3>1. Len(w) + 1 \in 1..Len(v)
      BY <1>1
    <3> QED
      BY <1>1, <3>1 DEF ItemsOfAll
  <2> QED
    BY <2>1, <2>2, <2>3
<1>4. m.first \in Nat /\ m.n \in Nat
  BY DEF Messages
<1>5. \A x \in Carried(s, part, w) : \A y \in ItemsOf(m) : x < y
  <2>1. \A y \in ItemsOf(m) : y \in Nat /\ m.first <= y
    BY <1>4, ItemsAre
  <2>2. \A x \in Carried(s, part, w) : x \in Nat /\ x <= m.first - 1
    OBVIOUS
  <2> QED
    BY <1>4, <2>1, <2>2
<1>6. \A k, l \in 1..Len(v) : k < l => Before(ItemsOf(v[k]), ItemsOf(v[l]))
  <2> SUFFICES ASSUME NEW k \in 1..Len(v), NEW l \in 1..Len(v), k < l
               PROVE  Before(ItemsOf(v[k]), ItemsOf(v[l]))
    OBVIOUS
  <2>1. k \in 1..Len(w) /\ v[k] = w[k]
    BY <1>1, <1>2
  <2>2. CASE l \in 1..Len(w) /\ v[l] = w[l]
    BY <2>1, <2>2 DEF Chain
  <2>3. CASE v[l] = m
    BY <1>5, <2>1, <2>3 DEF Before, Carried, ItemsOfAll
  <2> QED
    BY <1>2, <2>2, <2>3
<1>7. Before(Range(s), ItemsOfAll(v)) /\ Before(ItemsOf(part), ItemsOfAll(v))
  BY <1>3, <1>5 DEF Chain, Before, Carried
<1> QED
  BY <1>3, <1>6, <1>7 DEF Chain, Carried, v

(* What is cut off the front of a range, and what is left of it. *)
LEMMA Cut ==
  ASSUME NEW f \in Nat, NEW c \in Nat, NEW n \in Nat, n <= c
  PROVE  /\ \A x \in Nat : f + n <= x /\ x < (f + n) + (c - n) => f <= x /\ x < f + c
         /\ \A x \in Nat : f <= x /\ x < f + c =>
              (f + n <= x /\ x < (f + n) + (c - n)) \/ x - f + 1 \in 1..n
         /\ \A k \in 1..n : f + k - 1 \in Nat /\ f <= f + k - 1 /\ f + k - 1 < f + c
         /\ \A k \in 1..n : \A y \in Nat : f + n <= y => f + k - 1 < y
  OBVIOUS

(* Items copied from the message at hand move from its rest to what has come
   through. *)
LEMMA ChainCopy ==
  ASSUME NEW s \in Seq(Nat), NEW part, part.first \in Nat, part.n \in Nat,
         NEW w \in Seq(Messages), NEW n \in 0..part.n,
         Chain(s, part, w)
  PROVE  LET new == [k \in 1..n |-> part.first + k - 1]
             rest == [first |-> part.first + n, n |-> part.n - n]
         IN  /\ new \in Seq(Nat) /\ Len(new) = n
             /\ Chain(s \o new, rest, w)
             /\ Carried(s \o new, rest, w) = Carried(s, part, w)
<1> DEFINE new == [k \in 1..n |-> part.first + k - 1]
           rest == [first |-> part.first + n, n |-> part.n - n]
           r == s \o new
<1>0. n \in Nat /\ n <= part.n
  OBVIOUS
<1>1. new \in Seq(Nat) /\ Len(new) = n /\ \A k \in 1..n : new[k] = part.first + k - 1
  <2>1. \A k \in 1..n : part.first + k - 1 \in Nat
    OBVIOUS
  <2> QED
    BY <1>0, <2>1
<1>2. rest.first = part.first + n /\ rest.n = part.n - n /\ rest.first \in Nat /\ rest.n \in Nat
  OBVIOUS
<1> HIDE DEF new, rest
<1>3. /\ r \in Seq(Nat) /\ Len(r) = Len(s) + n /\ Len(s) \in Nat
      /\ DOMAIN s = 1..Len(s) /\ DOMAIN r = 1..Len(r)
      /\ \A i \in 1..(Len(s) + n) : r[i] = IF i <= Len(s) THEN s[i] ELSE new[i - Len(s)]
  <2>1. r \in Seq(Nat) /\ Len(r) = Len(s) + Len(new)
    BY <1>1, ConcatProperties
  <2>2. \A i \in 1..(Len(s) + Len(new)) : r[i] = IF i <= Len(s) THEN s[i] ELSE new[i - Len(s)]
    BY <1>1, ConcatProperties
  <2> HIDE DEF r
  <2> QED
    BY <1>1, <2>1, <2>2
<1> HIDE DEF r
<1>4. /\ \A x : x \in ItemsOf(part) <=> x \in Nat /\ part.first <= x /\ x < part.first + part.n
      /\ \A x : x \in ItemsOf(rest) <=>
           x \in Nat /\ part.first + n <= x /\ x < (part.first + n) + (part.n - n)
  <2>1. /\ \A x : x \in ItemsOf(part) <=> x \in Nat /\ part.first <= x /\ x < part.first + part.n
        /\ \A x : x \in ItemsOf(rest) <=> x \in Nat /\ rest.first <= x /\ x < rest.first + rest.n
    BY <1>2, ItemsAre
  <2> QED
    BY <1>2, <2>1
<1>5. /\ \A x \in Nat : part.first + n <= x /\ x < (part.first + n) + (part.n - n) =>
              part.first <= x /\ x < part.first + part.n
      /\ \A x \in Nat : part.first <= x /\ x < part.first + part.n =>
              \/ part.first + n <= x /\ x < (part.first + n) + (part.n - n)
              \/ x - part.first + 1 \in 1..n
      /\ \A k \in 1..n : /\ part.first + k - 1 \in Nat /\ part.first <= part.first + k - 1
                          /\ part.first + k - 1 < part.first + part.n
      /\ \A k \in 1..n : \A y \in Nat : part.first + n <= y => part.first + k - 1 < y
  BY <1>0, Cut
<1>6. \A i \in 1..Len(s) : i \in 1..Len(r) /\ r[i] = s[i] /\ s[i] \in Range(s) /\ s[i] \in Nat
  <2>1. \A i \in 1..Len(s) : s[i] \in Nat
    BY ElementOfSeq
  <2>2. \A i \in 1..Len(s) : s[i] \in Range(s)
    BY <1>3 DEF Range
  <2>3. \A i \in 1..Len(s) : i \in 1..(Len(s) + n) /\ i <= Len(s)
    BY <1>0, <1>3
  <2>4. \A i \in 1..Len(s) : i \in 1..Len(r) /\ r[i] = s[i]
    BY <1>3, <2>3
  <2> QED
    BY <2>1, <2>2, <2>4
<1>7. \A i \in 1..Len(r) : i \in 1..Len(s) \/ (i - Len(s) \in 1..n /\ r[i] = part.first + (i - Len(s)) - 1)
  BY <1>0, <1>1, <1>3
<1>8. \A x \in ItemsOf(part) : x \in ItemsOf(rest) \/ x - part.first + 1 \in 1..n
  <2> TAKE x \in ItemsOf(part)
  <2>1. x \in Nat /\ part.first <= x /\ x < part.first + part.n
    BY <1>4
  <2>2. \/ part.first + n <= x /\ x < (part.first + n) + (part.n - n)
        \/ x - part.first + 1 \in 1..n
    <3>1. PICK f, c : f = part.first /\ c = part.n
      OBVIOUS
    <3>2. f \in Nat /\ c \in Nat /\ n \in Nat /\ x \in Nat /\ f <= x /\ x < f + c
      BY <1>0, <2>1, <3>1
    <3>3. (f + n <= x /\ x < (f + n) + (c - n)) \/ x - f + 1 \in 1..n
      BY ONLY <3>2
    <3> QED
      BY <3>1, <3>3
  <2> QED
    BY ONLY <1>4, <2>1, <2>2
<1>9. \A k \in 1..n : /\ part.first + k - 1 \in ItemsOf(part)
                      /\ Len(s) + k \in 1..Len(r) /\ r[Len(s) + k] = part.first + k - 1
  <2> TAKE k \in 1..n
  <2>1. part.first + k - 1 \in ItemsOf(part)
    <3>1. /\ part.first + k - 1 \in Nat /\ part.first <= part.first + k - 1
          /\ part.first + k - 1 < part.first + part.n
      BY ONLY <1>1, <1>5, k \in 1..n, part.first \in Nat, part.n \in Nat
    <3> QED
      BY ONLY <1>4, <3>1
  <2>2. Len(s) + k \in 1..(Len(s) + n) /\ ~ (Len(s) + k <= Len(s)) /\ (Len(s) + k) - Len(s) = k
    BY <1>3
  <2> QED
    BY <1>1, <1>3, <2>1, <2>2
<1>10. ItemsOf(rest) \subseteq ItemsOf(part)
  BY <1>4, <1>5
<1>11. \A x \in Range(r) : x \in Range(s) \/ \E k \in 1..n : x = part.first + k - 1
  BY <1>3, <1>6, <1>7 DEF Range
<1>12. Range(s) \subseteq Range(r) /\ \A k \in 1..n : part.first + k - 1 \in Range(r)
  BY <1>3, <1>6, <1>9 DEF Range
<1>13. Carried(r, rest, w) = Carried(s, part, w)
  <2>1. Range(r) \cup ItemsOf(rest) \subseteq Range(s) \cup ItemsOf(part)
    BY <1>9, <1>10, <1>11
  <2>2. ASSUME NEW x \in ItemsOf(part) PROVE x \in Range(r) \cup ItemsOf(rest)
    <3>1. x \in Nat
      BY ItemsAre
    <3>2. CASE x - part.first + 1 \in 1..n
      <4>1. part.first + (x - part.first + 1) - 1 \in Range(r)
        BY <1>12, <3>2
      <4>2. part.first + (x - part.first + 1) - 1 = x
        BY <3>1
      <4> QED
        BY <4>1, <4>2
    <3> QED
      BY <1>8, <3>2
  <2> QED
    BY <1>12, <2>1, <2>2 DEF Carried
<1>14. Increasing(r)
  <2> SUFFICES ASSUME NEW i \in 1..Len(r), NEW j \in 1..Len(r), i < j PROVE r[i] < r[j]
    BY DEF Increasing
  <2>1. CASE j \in 1..Len(s)
    BY <1>3, <1>6, <2>1 DEF Chain, Increasing
  <2>2. CASE i \in 1..Len(s) /\ ~ (j \in 1..Len(s))
    <3>1. r[j] \in ItemsOf(part)
      BY <1>7, <1>9, <2>2
    <3> QED
      BY <1>6, <2>2, <3>1 DEF Chain, Before
  <2>3. CASE ~ (i \in 1..Len(s)) /\ ~ (j \in 1..Len(s))
    <3>1. r[i] = part.first + (i - Len(s)) - 1 /\ r[j] = part.first + (j - Len(s)) - 1
      BY <1>7, <2>3
    <3>2. part.first \in Nat /\ i \in Nat /\ j \in Nat
      BY <1>3
    <3> QED
      BY <1>3, <3>1, <3>2
  <2> QED
    BY <1>3, <2>1, <2>2, <2>3
<1>15. Before(Range(r), ItemsOf(rest))
  <2>1. ASSUME NEW k \in 1..n, NEW y \in ItemsOf(rest) PROVE part.first + k - 1 < y
    BY <1>4, <1>5
  <2> QED
    BY <1>10, <1>11, <2>1 DEF Chain, Before
<1>16. Before(Range(r), ItemsOfAll(w)) /\ Before(ItemsOf(rest), ItemsOfAll(w))
  BY <1>9, <1>10, <1>11 DEF Chain, Before
<1> QED
  BY <1>1, <1>13, <1>14, <1>15, <1>16 DEF Chain, new, rest, r

(* When all of a message is copied, the next one is taken from the wire. *)
LEMMA ChainLoad ==
  ASSUME NEW s \in Seq(Nat), NEW part, part.first \in Nat, part.n = 0,
         NEW w \in Seq(Messages), w # <<>>, NEW rest,
         rest.first = Head(w).first, rest.n = Head(w).n,
         Chain(s, part, w)
  PROVE  /\ Chain(s, rest, Tail(w))
         /\ Carried(s, rest, Tail(w)) = Carried(s, part, w)
<1> DEFINE v == Tail(w)
<1>1. /\ v \in Seq(Messages) /\ Len(v) = Len(w) - 1 /\ Len(w) \in Nat /\ Len(w) >= 1
      /\ Head(w) = w[1]
      /\ \A k \in 1..Len(v) : v[k] = w[k + 1]
  BY HeadTailProperties
<1> HIDE DEF v
<1>2. \A k \in 1..Len(v) : k + 1 \in 1..Len(w) /\ v[k] = w[k + 1] /\ 1 < k + 1
  BY <1>1
<1>3. \A k \in 1..Len(w) : k = 1 \/ (k - 1 \in 1..Len(v) /\ v[k - 1] = w[k])
  <2> TAKE k \in 1..Len(w)
  <2>1. k = 1 \/ (k - 1 \in 1..Len(v) /\ (k - 1) + 1 = k)
    BY <1>1
  <2> QED
    BY <1>1, <2>1
<1>4. ItemsOf(part) = {}
  BY ItemsAre
<1>5. ItemsOf(rest) = ItemsOf(w[1]) /\ 1 \in 1..Len(w)
  BY <1>1 DEF ItemsOf
<1>6. ItemsOfAll(w) = ItemsOf(rest) \cup ItemsOfAll(v)
  <2>1. ItemsOfAll(w) \subseteq ItemsOf(rest) \cup ItemsOfAll(v)
    BY <1>3, <1>5 DEF ItemsOfAll
  <2>2. ItemsOf(rest) \cup ItemsOfAll(v) \subseteq ItemsOfAll(w)
    BY <1>2, <1>5 DEF ItemsOfAll
  <2> QED
    BY <2>1, <2>2
<1>7. Before(ItemsOf(rest), ItemsOfAll(v))
  <2>1. \A k \in 1..Len(v) : Before(ItemsOf(w[1]), ItemsOf(v[k]))
    BY <1>1, <1>2, <1>5 DEF Chain
  <2> QED
    BY <1>5, <2>1 DEF Before, ItemsOfAll
<1>8. \A k, l \in 1..Len(v) : k < l => Before(ItemsOf(v[k]), ItemsOf(v[l]))
  <2> SUFFICES ASSUME NEW k \in 1..Len(v), NEW l \in 1..Len(v), k < l
               PROVE  Before(ItemsOf(v[k]), ItemsOf(v[l]))
    OBVIOUS
  <2>1. k + 1 \in 1..Len(w) /\ l + 1 \in 1..Len(w) /\ k + 1 < l + 1
    BY <1>1
  <2> QED
    BY <1>2, <2>1 DEF Chain
<1>9. Before(Range(s), ItemsOf(rest)) /\ Before(Range(s), ItemsOfAll(v))
  BY <1>6 DEF Chain, Before
<1> QED
  BY <1>4, <1>6, <1>7, <1>8, <1>9 DEF Chain, Carried, v
-----------------------------------------------------------------------------
(* The types behind the chain. *)
LEMMA LinkSeqs ==
  ASSUME LinkType, SpaceInv
  PROVE  /\ Received \in Seq(Nat) /\ Len(Received) = Len(out) + Len(staged)
         /\ DOMAIN Received = 1..Len(Received)
         /\ Rest.first = d_msg.first + d_consumed /\ Rest.n = d_msg.n - d_consumed
         /\ Rest.first \in Nat /\ Rest.n \in Nat
         /\ d_msg.first \in Nat /\ d_msg.n \in Nat /\ d_msg.tags \subseteq Nat
         /\ Len(wire) \in Nat
<1>1. Received \in Seq(Nat) /\ Len(Received) = Len(out) + Len(staged)
  BY ConcatProperties DEF SpaceInv, Received
<1>2. d_msg.first \in Nat /\ d_msg.n \in Nat /\ d_msg.tags \subseteq Nat
  BY DEF LinkType, Messages
<1>3. Rest.first = d_msg.first + d_consumed /\ Rest.n = d_msg.n - d_consumed
  BY DEF Rest
<1>4. d_consumed \in Nat /\ d_consumed <= d_msg.n /\ Len(wire) \in Nat
  BY DEF LinkType
<1> QED
  BY <1>1, <1>2, <1>3, <1>4

(* Steps that move no items. *)
LEMMA LinkStill ==
  ASSUME UNCHANGED <<wire, d_msg, d_consumed>>, Received' = Received
  PROVE  /\ Chain(Received, Rest, wire)' <=> Chain(Received, Rest, wire)
         /\ Carried(Received, Rest, wire)' = Carried(Received, Rest, wire)
<1>1. Rest' = Rest
  BY DEF Rest
<1> QED
  BY <1>1 DEF Chain, Carried, Increasing, Before, ItemsOf, ItemsOfAll

(* Steps that leave what is on the link alone keep the invariant of it. *)
LEMMA LinkFrame ==
  ASSUME LinkInv, LinkType', UNCHANGED <<pattern, hwm, wire, d_msg, d_consumed, outTags>>,
         Received' = Received, Sent' >= Sent,
         pattern = "NET" => produced' = produced,
         pattern = "PUSH" => nread' = nread,
         ~ connected' => ~ connected
  PROVE  OrderInv' /\ GapInv' /\ TagInv'
<1>2. Chain(Received, Rest, wire)' /\ Carried(Received, Rest, wire)' = Carried(Received, Rest, wire)
  BY LinkStill DEF LinkInv, OrderInv
<1>3. Carried(Received, Rest, wire) \subseteq 0..(Sent' - 1)
  <2>1. PICK a, b : a = Sent /\ b = Sent'
    OBVIOUS
  <2>2. a \in Nat
    BY <2>1 DEF LinkInv, LinkType, Sent
  <2>3. b \in Nat
    <3>1. PICK c, d : c = nread' /\ d = rdone'
      OBVIOUS
    <3>2. c \in Nat /\ d \in Nat
      BY <3>1 DEF LinkType
    <3>3. b = c + d
      BY <2>1, <3>1 DEF Sent
    <3> QED
      BY <3>2, <3>3
  <2>4. a <= b
    BY <2>1, <2>2, <2>3
  <2>5. 0..(a - 1) \subseteq 0..(b - 1)
    BY <2>2, <2>3, <2>4
  <2> QED
    BY <2>1, <2>5 DEF LinkInv, OrderInv
<1>4. OrderInv'
  BY <1>2, <1>3 DEF OrderInv
<1>5. GapInv'
  BY <1>2 DEF LinkInv, GapInv
<1>6. TagInv'
  BY DEF LinkInv, TagInv, Fits
<1> QED
  BY <1>4, <1>5, <1>6

(* Sending. *)
LEMMA LinkSend ==
  ASSUME LinkInv, NEW m \in Messages, wire' = Append(wire, m), m.first = Sent, Sent' = Sent + m.n,
         UNCHANGED <<pattern, hwm, out, staged, d_msg, d_consumed, connected, outTags>>,
         IF pattern = "NET" THEN m.tags = {} ELSE Fits(m),
         pattern = "PUSH" => m.n >= 1 /\ connected /\ rdone = 0 /\ rdone' = 0 /\ nread' \in Nat,
         pattern = "NET" => produced = Sent /\ produced' = Sent'
  PROVE  OrderInv' /\ GapInv' /\ TagInv'
<1>0. PICK old : old = Carried(Received, Rest, wire)
  OBVIOUS
<1>1. Rest' = Rest /\ Received' = Received
  BY DEF Rest, Received
<1>2. /\ Received \in Seq(Nat) /\ Rest.first \in Nat /\ Rest.n \in Nat /\ wire \in Seq(Messages)
      /\ Len(wire) \in Nat /\ Sent \in Nat /\ m.n \in Nat /\ nread \in Nat
  BY LinkSeqs DEF LinkInv, LinkType, Sent, Messages
<1>3. Chain(Received, Rest, wire) /\ old \subseteq 0..(m.first - 1)
  BY <1>0 DEF LinkInv, OrderInv
<1>4. /\ Chain(Received, Rest, Append(wire, m))
      /\ Carried(Received, Rest, Append(wire, m)) = old \cup ItemsOf(m)
  BY <1>0, <1>2, <1>3, ChainSend
<1>5. Chain(Received, Rest, wire)' /\ Carried(Received, Rest, wire)' = old \cup ItemsOf(m)
  BY <1>1, <1>4 DEF Chain, Carried, Increasing, Before, ItemsOf, ItemsOfAll
<1>6. PICK to : to = Sent'
  OBVIOUS
<1>7. to = m.first + m.n /\ m.first \in Nat /\ m.n \in Nat /\ to \in Nat
  BY <1>2, <1>6
<1>8. ItemsOf(m) = Sent..(to - 1)
  BY <1>2, <1>7 DEF ItemsOf
<1>9. OrderInv'
  <2>1. \A i \in 0..(m.first - 1) : i \in 0..(to - 1)
    BY <1>7
  <2>2. \A i \in m.first..(to - 1) : i \in 0..(to - 1)
    BY <1>7
  <2>3. old \cup ItemsOf(m) \subseteq 0..(to - 1)
    BY <1>3, <1>8, <2>1, <2>2
  <2> QED
    BY <1>5, <1>6, <2>3 DEF OrderInv
<1>10. GapInv'
  <2>1. CASE pattern = "PUSH"
    <3>1. Sent = nread /\ to = nread'
      BY <1>2, <1>6, <2>1 DEF Sent
    <3>2. Len(wire)' <= nread'
      <4>1. Len(wire') = Len(wire) + 1
        BY <1>2, AppendProperties
      <4>2. Len(wire) <= nread
        BY <2>1 DEF LinkInv, GapInv
      <4> QED
        BY <1>2, <1>7, <2>1, <3>1, <4>1, <4>2
    <3>3. ASSUME hwm >= Items PROVE \E i \in Nat : old \cup ItemsOf(m) = i..(nread' - 1)
      <4>1. PICK i \in Nat : old = i..(nread - 1)
        BY <1>0, <2>1, <3>3 DEF LinkInv, GapInv
      <4>2. CASE i <= nread
        <5>0. nread <= to
          BY <1>2, <1>7, <3>1
        <5>1. i..(nread - 1) \cup nread..(to - 1) = i..(to - 1)
          BY ONLY <1>2, <1>7, <4>2, <5>0, i \in Nat
        <5>2. old \cup ItemsOf(m) = i..(nread' - 1)
          BY <1>8, <3>1, <4>1, <5>1
        <5> QED
          BY <5>2
      <4>3. CASE ~ (i <= nread)
        <5>1. old \cup ItemsOf(m) = nread..(nread' - 1)
          BY <1>2, <1>8, <1>7, <2>1, <3>1, <4>1, <4>3
        <5> QED
          BY <1>2, <5>1
      <4> QED
        BY <4>2, <4>3
    <3> QED
      BY <1>5, <2>1, <3>2, <3>3 DEF GapInv
  <2>2. CASE pattern = "NET"
    <3>1. old = 0..(Sent - 1)
      BY <1>0, <2>2 DEF LinkInv, GapInv
    <3>2. old \cup ItemsOf(m) = 0..(produced' - 1)
      BY <1>2, <1>8, <1>6, <1>7, <2>2, <3>1
    <3> QED
      BY <1>5, <2>2, <3>2 DEF GapInv
  <2>3. CASE pattern = "REQ"
    BY <2>3 DEF GapInv
  <2> QED
    BY <2>1, <2>2, <2>3 DEF LinkInv, LinkType
<1>11. TagInv'
  <2>1. /\ Len(wire') = Len(wire) + 1
        /\ \A k \in 1..Len(wire) : wire'[k] = wire[k]
        /\ wire'[Len(wire) + 1] = m
    BY <1>2, AppendProperties
  <2>2. \A k \in 1..Len(wire') : (k \in 1..Len(wire) /\ wire'[k] = wire[k]) \/ wire'[k] = m
    BY <1>2, <2>1
  <2>3. CASE pattern = "NET"
    <3>1. \A k \in 1..Len(wire') : wire'[k].tags = {}
      BY <2>2, <2>3 DEF LinkInv, TagInv
    <3> QED
      BY <2>3, <3>1 DEF LinkInv, TagInv
  <2>4. CASE pattern # "NET"
    <3>1. \A k \in 1..Len(wire') : Fits(wire'[k])
      BY <2>2, <2>4 DEF LinkInv, TagInv
    <3> QED
      BY <1>1, <2>4, <3>1 DEF LinkInv, TagInv, Fits
  <2> QED
    BY <2>3, <2>4
<1> QED
  BY <1>9, <1>10, <1>11

(* Receiving. *)
LEMMA LinkLoad ==
  ASSUME LinkInv, wire # <<>>, d_consumed = d_msg.n,
         d_msg' = Head(wire), wire' = Tail(wire), d_consumed' = 0,
         UNCHANGED <<pattern, hwm, produced, nread, rdone, connected, out, staged, outTags>>
  PROVE  OrderInv' /\ GapInv' /\ TagInv' /\ wire' \in Seq(Messages) /\ d_msg' \in Messages
<1>0. PICK old, rest : old = Carried(Received, Rest, wire) /\ rest = Rest'
  OBVIOUS
<1>1. Received' = Received /\ Sent' = Sent
  BY DEF Received, Sent
<1>2. /\ Received \in Seq(Nat) /\ Rest.first \in Nat /\ Rest.n = 0 /\ wire \in Seq(Messages)
      /\ Len(wire) \in Nat /\ nread \in Nat
  BY LinkSeqs DEF LinkInv, LinkType
<1>3. /\ Head(wire) \in Messages /\ Head(wire) = wire[1] /\ Tail(wire) \in Seq(Messages)
      /\ Len(Tail(wire)) = Len(wire) - 1 /\ Len(wire) >= 1
      /\ \A k \in 1..Len(Tail(wire)) : Tail(wire)[k] = wire[k + 1] /\ k + 1 \in 1..Len(wire)
  BY <1>2, HeadTailProperties
<1>4. rest.first = Head(wire).first /\ rest.n = Head(wire).n
  BY <1>0, <1>3 DEF Rest, Messages
<1>5. Chain(Received, rest, Tail(wire)) /\ Carried(Received, rest, Tail(wire)) = old
  BY <1>0, <1>2, <1>4, ChainLoad DEF LinkInv, OrderInv
<1>6. Chain(Received, Rest, wire)' /\ Carried(Received, Rest, wire)' = old
  BY <1>0, <1>1, <1>5 DEF Chain, Carried, Increasing, Before, ItemsOf, ItemsOfAll
<1>7. OrderInv'
  BY <1>0, <1>1, <1>6 DEF LinkInv, OrderInv
<1>8. GapInv'
  <2>1. pattern = "PUSH" => Len(wire') <= nread
    BY <1>2, <1>3 DEF LinkInv, GapInv
  <2> QED
    BY <1>0, <1>6, <2>1 DEF LinkInv, GapInv
<1>9. TagInv'
  <2>1. CASE pattern = "NET"
    <3>1. Head(wire).tags = {} /\ \A k \in 1..Len(Tail(wire)) : Tail(wire)[k].tags = {}
      BY <1>3, <2>1 DEF LinkInv, TagInv
    <3> QED
      BY <2>1, <3>1 DEF LinkInv, TagInv
  <2>2. CASE pattern # "NET"
    <3>1. Fits(Head(wire)) /\ \A k \in 1..Len(Tail(wire)) : Fits(Tail(wire)[k])
      BY <1>3, <2>2 DEF LinkInv, TagInv
    <3> QED
      BY <1>1, <2>2, <3>1 DEF LinkInv, TagInv, Fits
  <2> QED
    BY <2>1, <2>2
<1> QED
  BY <1>3, <1>7, <1>8, <1>9

(* Copying n items of the message at hand, with their tags. *)
LEMMA LinkCopy ==
  ASSUME LinkInv, NEW n \in 0..(d_msg.n - d_consumed),
         Received' = Received \o [k \in 1..n |-> d_msg.first + d_consumed + k - 1],
         d_consumed' = d_consumed + n,
         UNCHANGED <<pattern, hwm, produced, nread, rdone, connected, wire, d_msg>>,
         IF pattern = "NET" THEN outTags' = outTags
         ELSE outTags' = outTags \cup
                {t + Len(Received) - d_consumed :
                   t \in {u \in d_msg.tags : d_consumed <= u /\ u < d_consumed + n}}
  PROVE  OrderInv' /\ GapInv' /\ TagInv'
<1> DEFINE new == [k \in 1..n |-> Rest.first + k - 1]
           rest == [first |-> Rest.first + n, n |-> Rest.n - n]
<1>1. /\ Received \in Seq(Nat) /\ Rest.first = d_msg.first + d_consumed /\ Rest.n = d_msg.n - d_consumed
      /\ Rest.first \in Nat /\ Rest.n \in Nat /\ d_msg.first \in Nat /\ d_msg.n \in Nat
      /\ d_msg.tags \subseteq Nat
      /\ wire \in Seq(Messages) /\ Len(wire) \in Nat /\ d_consumed \in Nat
      /\ DOMAIN Received = 1..Len(Received) /\ Len(Received) \in Nat
  BY LinkSeqs DEF LinkInv, LinkType
<1>2. n \in 0..Rest.n /\ n \in Nat
  BY <1>1
<1>3. Received' = Received \o new /\ Rest' = rest
  <2>1. [k \in 1..n |-> d_msg.first + d_consumed + k - 1] = new
    BY <1>1
  <2>2. d_msg.first + d_consumed + n = Rest.first + n /\ d_msg.n - (d_consumed + n) = Rest.n - n
    BY <1>1, <1>2
  <2>3. Rest' = [first |-> d_msg.first + (d_consumed + n), n |-> d_msg.n - (d_consumed + n)]
    BY DEF Rest
  <2>4. d_msg.first + (d_consumed + n) = Rest.first + n
    BY <1>1, <1>2
  <2> QED
    BY <2>1, <2>2, <2>3, <2>4
<1>4. /\ new \in Seq(Nat) /\ Len(new) = n
      /\ Chain(Received \o new, rest, wire)
      /\ Carried(Received \o new, rest, wire) = Carried(Received, Rest, wire)
  BY <1>1, <1>2, ChainCopy DEF LinkInv, OrderInv
<1>5. \A k \in 1..n : new[k] = d_msg.first + (d_consumed + k - 1)
  BY <1>1, <1>2
<1>6. PICK q, p : q = Received \o new /\ p = rest
  OBVIOUS
<1> HIDE DEF new, rest
<1>7. Chain(Received, Rest, wire)' /\ Carried(Received, Rest, wire)' = Carried(Received, Rest, wire)
  <2>1. Chain(q, p, wire) /\ Carried(q, p, wire) = Carried(Received, Rest, wire)
    BY <1>4, <1>6
  <2>2. Received' = q /\ Rest' = p /\ wire' = wire
    BY <1>3, <1>6
  <2>3. Chain(Received, Rest, wire)'
    <3>1. Chain(Received', Rest', wire')
      BY <2>1, <2>2
    <3> QED
      BY <3>1 DEF Chain, Increasing, Before, ItemsOf, ItemsOfAll
  <2>4. Carried(Received, Rest, wire)' = Carried(q, p, wire)
    BY <2>2 DEF Carried, ItemsOf, ItemsOfAll
  <2> QED
    BY <2>1, <2>3, <2>4
<1>8. OrderInv'
  BY <1>7 DEF LinkInv, OrderInv, Sent
<1>9. GapInv'
  BY <1>7 DEF LinkInv, GapInv
<1>10. TagInv'
  <2>1. CASE pattern = "NET"
    BY <2>1 DEF LinkInv, TagInv
  <2>2. CASE pattern # "NET"
    <3> DEFINE l == Len(Received)
               r == Received \o new
               copied == {t + l - d_consumed : t \in {u \in d_msg.tags : d_consumed <= u /\ u < d_consumed + n}}
    <3>1. /\ outTags = {k - 1 : k \in {j \in 1..l : Received[j] \in Tagged}}
          /\ Fits(d_msg) /\ \A k \in 1..Len(wire) : Fits(wire[k])
      BY <2>2 DEF LinkInv, TagInv
    <3>2. /\ Len(r) = l + n
          /\ \A i \in 1..(l + n) : r[i] = IF i <= l THEN Received[i] ELSE new[i - l]
      BY <1>1, <1>4, ConcatProperties
    <3> HIDE DEF r
    <3>3. \A i \in 1..l : i \in 1..(l + n) /\ r[i] = Received[i]
      BY <1>1, <1>2, <3>2
    <3>4. \A k \in 1..n : l + k \in 1..(l + n) /\ r[l + k] = d_msg.first + (d_consumed + k - 1)
      <4> TAKE k \in 1..n
      <4>1. l + k \in 1..(l + n) /\ ~ (l + k <= l) /\ (l + k) - l = k
        BY <1>1, <1>2
      <4> QED
        BY <1>5, <3>2, <4>1
    <3>5. \A k \in 1..n : r[l + k] \in Tagged <=> d_consumed + k - 1 \in d_msg.tags
      <4> TAKE k \in 1..n
      <4>1. d_consumed + k - 1 \in Nat /\ d_consumed + k - 1 < d_msg.n
        BY <1>1, <1>2
      <4> QED
        BY <3>1, <3>4, <4>1 DEF Fits
    <3>6. copied = {k - 1 : k \in {j \in 1..(l + n) : ~ (j \in 1..l) /\ r[j] \in Tagged}}
      <4>1. ASSUME NEW t \in d_msg.tags, d_consumed <= t, t < d_consumed + n
            PROVE  \E k \in {j \in 1..(l + n) : ~ (j \in 1..l) /\ r[j] \in Tagged} : t + l - d_consumed = k - 1
        <5> DEFINE k == t - d_consumed + 1
        <5>1. t \in Nat /\ k \in 1..n /\ d_consumed + k - 1 = t
          <6>1. t \in Nat /\ n \in Nat /\ d_consumed \in Nat
            BY <1>1, <1>2
          <6> QED
            BY ONLY <4>1, <6>1
        <5>2. l + k \in 1..(l + n) /\ ~ (l + k \in 1..l) /\ t + l - d_consumed = (l + k) - 1
          BY <1>1, <1>2, <5>1
        <5> HIDE DEF k
        <5>3. r[l + k] \in Tagged
          BY <3>5, <4>1, <5>1
        <5> QED
          BY <5>2, <5>3
      <4>2. ASSUME NEW k \in 1..(l + n), ~ (k \in 1..l), r[k] \in Tagged
            PROVE  \E t \in {u \in d_msg.tags : d_consumed <= u /\ u < d_consumed + n} : k - 1 = t + l - d_consumed
        <5> DEFINE i == k - l
                   t == d_consumed + i - 1
        <5>1. i \in 1..n /\ l + i = k
          BY <1>1, <1>2, <4>2
        <5>2. k - 1 = t + l - d_consumed /\ d_consumed <= t /\ t < d_consumed + n
          BY <1>1, <1>2, <4>2
        <5> HIDE DEF i
        <5>3. t \in d_msg.tags
          BY <3>5, <4>2, <5>1
        <5> QED
          BY <5>2, <5>3
      <4> QED
        BY <4>1, <4>2
    <3>7. outTags' = {k - 1 : k \in {j \in 1..(l + n) : r[j] \in Tagged}}
      <4>1. outTags' = outTags \cup copied
        BY <2>2
      <4>2. {j \in 1..(l + n) : r[j] \in Tagged}
              = {j \in 1..l : Received[j] \in Tagged}
                \cup {j \in 1..(l + n) : ~ (j \in 1..l) /\ r[j] \in Tagged}
        BY <3>3
      <4> HIDE DEF copied, l
      <4> QED
        BY <3>1, <3>6, <4>1, <4>2
    <3>8. Received' = r /\ Len(Received)' = l + n
      BY <1>3, <3>2 DEF r
    <3>9. outTags' = {k - 1 : k \in {j \in 1..Len(Received') : Received'[j] \in Tagged}}
      BY <3>7, <3>8
    <3> QED
      BY <2>2, <3>1, <3>9 DEF TagInv, Fits
  <2> QED
    BY <2>1, <2>2
<1> QED
  BY <1>8, <1>9, <1>10

-----------------------------------------------------------------------------
(* The remainder modulo Word of the distance between two items. *)
LEMMA Distance ==
  ASSUME NEW x \in Int, NEW w \in Nat, x < w, - w <= x
  PROVE  x % w = IF x >= 0 THEN x ELSE x + w
  OBVIOUS

(* gen_tag_header: below the length of the message, a tag's offset in it is
   the place of its item. *)
LEMMA MessageFits ==
  ASSUME NEW first \in Nat, NEW n \in Nat, first + n <= Items, NEW T, T \subseteq Tagged,
         \A t \in Tagged : first <= t /\ t < first + n => t \in T
  PROVE  /\ Message(first, n, T) \in Messages
         /\ Message(first, n, T).first = first /\ Message(first, n, T).n = n
         /\ Fits(Message(first, n, T))
<1> DEFINE tags == {(t - first) % Word : t \in T}
<1>1. Items \in Nat /\ Word \in Nat /\ Word > 2 * Items /\ Tagged \subseteq 0..(Items - 1)
  BY ZmqSizes
<1>2. \A t \in T : /\ t \in Nat /\ t < Items /\ t \in Tagged
                   /\ (t - first) % Word = IF t >= first THEN t - first ELSE t - first + Word
  <2> TAKE t \in T
  <2>1. t \in Nat /\ t < Items /\ t \in Tagged
    BY <1>1
  <2>2. t - first \in Int /\ t - first < Word /\ - Word <= t - first
    BY <1>1, <2>1
  <2>3. (t - first) % Word = IF t - first >= 0 THEN t - first ELSE t - first + Word
    BY <1>1, <2>2, Distance
  <2> QED
    BY <2>1, <2>3
<1>3. tags \subseteq Nat
  BY <1>1, <1>2
<1>4. ASSUME NEW t \in Nat, t < n PROVE t \in tags <=> first + t \in Tagged
  <2>1. ASSUME first + t \in Tagged PROVE t \in tags
    <3>1. first + t \in T /\ first + t >= first /\ (first + t) - first = t
      BY <1>4, <2>1
    <3>2. ((first + t) - first) % Word = t
      BY <1>2, <3>1
    <3> QED
      BY <3>1, <3>2
  <2>2. ASSUME t \in tags PROVE first + t \in Tagged
    <3>1. PICK u \in T : t = (u - first) % Word
      BY <2>2
    <3>2. u >= first
      BY <1>1, <1>2, <1>4, <3>1
    <3>3. first + t = u
      BY <1>2, <3>1, <3>2
    <3> QED
      BY <1>2, <3>3
  <2> QED
    BY <2>1, <2>2
<1> HIDE DEF tags
<1>5. Message(first, n, T) = [first |-> first, n |-> n, tags |-> tags]
  BY DEF Message, tags
<1>6. Message(first, n, T).first = first /\ Message(first, n, T).n = n /\ Message(first, n, T).tags = tags
  BY <1>5
<1>7. Message(first, n, T) \in Messages
  BY <1>3, <1>5 DEF Messages
<1>8. Fits(Message(first, n, T))
  BY <1>4, <1>6 DEF Fits
<1> QED
  BY <1>6, <1>7, <1>8

-----------------------------------------------------------------------------
(* The invariant at the start. *)
LEMMA InitLink == Init => LinkInv
<1> SUFFICES ASSUME Init PROVE LinkInv
  OBVIOUS
<1>1. Received = <<>> /\ Rest = [first |-> 0, n |-> 0] /\ wire = <<>>
  <2>1. out = <<>> /\ staged = <<>> /\ d_msg = NoMessage /\ d_consumed = 0 /\ wire = <<>>
    BY DEF Init
  <2>2. <<>> \o <<>> = <<>>
    OBVIOUS
  <2> QED
    BY <2>1, <2>2 DEF Received, Rest, NoMessage
<1>2. Range(Received) = {} /\ ItemsOf(Rest) = {} /\ ItemsOfAll(wire) = {}
  BY <1>1 DEF Range, ItemsOf, ItemsOfAll
<1>3. LinkType /\ SpaceInv
  <2>1. d_msg \in Messages /\ d_msg.n = 0 /\ wire \in Seq(Messages)
    BY DEF Init, NoMessage, Messages
  <2>4. pattern \in {"PUSH", "REQ", "NET"} /\ hwm \in Nat \ {0} /\ Items \in Nat
    BY ZmqPatterns, ZmqSizes DEF Init
  <2>2. LinkType
    <3>1. /\ produced = 0 /\ nread = 0 /\ replying = 0 /\ rdone = 0
          /\ request = -1 /\ d_consumed = 0
      BY DEF Init
    <3>3. connected \in BOOLEAN
      BY DEF Init
    <3>2. d_consumed \in Nat /\ d_consumed <= d_msg.n /\ request \in Int
      BY <2>1, <3>1
    <3> QED
      BY <2>1, <2>4, <3>1, <3>2, <3>3 DEF LinkType
  <2>3. SpaceInv
    BY ZmqSizes DEF Init, SpaceInv
  <2> QED
    BY <2>2, <2>3
<1>4. OrderInv
  BY <1>1, <1>2 DEF OrderInv, Chain, Carried, Increasing, Before
<1>5. GapInv
  <2>1. Carried(Received, Rest, wire) = {} /\ nread = 0 /\ produced = 0 /\ Len(wire) = 0
    BY <1>1, <1>2 DEF Init, Carried
  <2>2. 0..(0 - 1) = {} /\ 0 \in Nat
    OBVIOUS
  <2> QED
    BY <2>1, <2>2 DEF GapInv
<1>6. TagInv
  <2>1. /\ outTags = {} /\ d_msg.tags = {} /\ d_msg.n = 0
        /\ Len(wire) = 0 /\ Len(Received) = 0
    BY <1>1 DEF Init, NoMessage
  <2>2. Fits(d_msg)
    BY <2>1 DEF Fits
  <2>3. \A j \in 1..0 : FALSE
    OBVIOUS
  <2> QED
    BY <2>1, <2>2, <2>3 DEF TagInv
<1> QED
  BY <1>3, <1>4, <1>5, <1>6 DEF LinkInv

(* The steps of the sending flowgraph. *)
LEMMA ArriveLink == LinkInv /\ Arrive => LinkInv'
<1> SUFFICES ASSUME LinkInv, Arrive PROVE LinkInv'
  OBVIOUS
<1>1. LinkType' /\ SpaceInv'
  BY ZmqSizes DEF LinkInv, LinkType, SpaceInv, Arrive, sourceVars, throttleVars
<1>2. Received' = Received /\ Sent' = Sent /\ Sent \in Nat
  BY DEF LinkInv, LinkType, Arrive, sourceVars, Received, Sent
<1>3. OrderInv' /\ GapInv' /\ TagInv'
  BY <1>1, <1>2, LinkFrame DEF Arrive, sourceVars
<1> QED
  BY <1>1, <1>3 DEF LinkInv

(* A connection moves nothing. *)
LEMMA ConnectLink == LinkInv /\ Connect => LinkInv'
<1> SUFFICES ASSUME LinkInv, Connect PROVE LinkInv'
  OBVIOUS
<1>1. LinkType' /\ SpaceInv'
  BY DEF LinkInv, LinkType, SpaceInv, Connect, sinkVars, sourceVars, throttleVars
<1>2. Received' = Received /\ Sent' = Sent /\ Sent \in Nat
  BY DEF LinkInv, LinkType, Connect, sinkVars, sourceVars, Received, Sent
<1>3. OrderInv' /\ GapInv' /\ TagInv'
  BY <1>1, <1>2, LinkFrame DEF Connect, sinkVars, sourceVars
<1> QED
  BY <1>1, <1>3 DEF LinkInv

(* rep_sink's work begins with nothing sent of what it was given ... *)
LEMMA RepBeginLink == LinkInv /\ RepBegin => LinkInv'
<1> SUFFICES ASSUME LinkInv, RepBegin PROVE LinkInv'
  OBVIOUS
<1>1. LinkType' /\ SpaceInv'
  BY DEF LinkInv, LinkType, SpaceInv, RepBegin, sourceVars, throttleVars
<1>2. Received' = Received /\ Sent' = Sent /\ Sent \in Nat
  <2>1. rdone = 0 /\ rdone' = 0 /\ nread' = nread /\ nread \in Nat
    BY DEF LinkInv, LinkType, RepBegin
  <2> QED
    BY <2>1 DEF RepBegin, sourceVars, Received, Sent
<1>3. OrderInv' /\ GapInv' /\ TagInv'
  BY <1>1, <1>2, LinkFrame DEF RepBegin, sourceVars
<1> QED
  BY <1>1, <1>3 DEF LinkInv

(* ... and ends with all of it consumed: items that it did not send
   are never sent, and those that come are numbered higher. *)
LEMMA RepEndLink == LinkInv /\ RepEnd => LinkInv'
<1> SUFFICES ASSUME LinkInv, RepEnd PROVE LinkInv'
  OBVIOUS
<1>1. LinkType' /\ SpaceInv'
  BY DEF LinkInv, LinkType, SpaceInv, RepEnd, sourceVars, throttleVars
<1>2. Received' = Received /\ Sent' >= Sent
  <2>1. /\ nread' = nread + replying /\ rdone' = 0
        /\ nread \in Nat /\ replying \in Nat /\ rdone \in Nat /\ rdone <= replying
    BY DEF LinkInv, LinkType, RepEnd
  <2>2. Sent' = (nread + replying) + 0
    BY <2>1 DEF Sent
  <2>3. (nread + replying) + 0 >= nread + rdone
    BY <2>1
  <2> QED
    BY <2>2, <2>3 DEF RepEnd, sourceVars, Received, Sent
<1>3. pattern = "REQ"
  BY DEF LinkInv, LinkType, RepEnd
<1>4. OrderInv' /\ GapInv' /\ TagInv'
  BY <1>1, <1>2, <1>3, LinkFrame DEF RepEnd, sourceVars
<1> QED
  BY <1>1, <1>4 DEF LinkInv

(* push_sink loses what it was given only before the connection and when the
   queue is full, which a stream no longer than the queue never makes it. *)
LEMMA PushWorkLink == LinkInv /\ PushWork => LinkInv'
<1> SUFFICES ASSUME LinkInv, PushWork PROVE LinkInv'
  OBVIOUS
<1> DEFINE n == produced - nread
           T == TagsInWindow(nread, n)
           m == Message(nread, n, T)
<1>1. /\ nread \in Nat /\ produced \in Nat /\ n \in Nat /\ n >= 1 /\ produced <= Items
      /\ replying = 0 /\ rdone = 0 /\ nread' = produced /\ nread + n = produced
      /\ pattern = "PUSH" /\ wire \in Seq(Messages) /\ Len(wire) \in Nat
  BY DEF LinkInv, LinkType, PushWork
<1>2. m \in Messages /\ m.first = nread /\ m.n = n /\ Fits(m)
  <2>1. T \subseteq Tagged
    BY DEF TagsInWindow
  <2>2. \A t \in Tagged : nread <= t /\ t < nread + n => t \in T
    BY DEF TagsInWindow
  <2> HIDE DEF n, T
  <2>3. nread + n <= Items
    BY <1>1
  <2> QED
    BY <1>1, <2>1, <2>2, <2>3, MessageFits
<1>3. wire' \in {wire, Append(wire, m)} /\ (Pollout => wire' = Append(wire, m)) /\ (~ Pollout => wire' = wire)
  BY DEF PushWork, SendMessage
<1> HIDE DEF m, T
<1>4. wire' \in Seq(Messages)
  BY <1>1, <1>2, <1>3, AppendProperties
<1> HIDE DEF n
<1>5. LinkType' /\ SpaceInv'
  BY <1>1, <1>4 DEF LinkInv, LinkType, SpaceInv, PushWork, sourceVars, throttleVars
<1>6. Received' = Received /\ Sent = nread /\ Sent' = produced
  <2>1. nread' = produced /\ rdone' = 0
    BY <1>1 DEF PushWork
  <2>2. Sent' = produced + 0 /\ Sent = nread + 0
    BY <1>1, <2>1 DEF Sent
  <2> QED
    BY <1>1, <2>2 DEF PushWork, sourceVars, Received
<1>7. OrderInv' /\ GapInv' /\ TagInv'
  <2>1. CASE Pollout
    BY <1>1, <1>2, <1>3, <1>6, <2>1, LinkSend DEF Pollout, PushWork, sourceVars
  <2>2. CASE ~ Pollout
    <3> PICK old : old = Carried(Received, Rest, wire)
      OBVIOUS
    <3>1. Chain(Received, Rest, wire)' /\ Carried(Received, Rest, wire)' = old
      BY <1>3, <1>6, <2>2, LinkStill DEF LinkInv, OrderInv, PushWork, sourceVars
    <3>2. old \subseteq 0..(nread - 1) /\ 0..(nread - 1) \subseteq 0..(produced - 1)
      BY <1>1, <1>6 DEF LinkInv, OrderInv
    <3>3. OrderInv'
      BY <1>6, <3>1, <3>2 DEF OrderInv
    <3>4. Len(wire') <= nread'
      BY <1>1, <1>3, <2>2 DEF LinkInv, GapInv
    <3>5. ~ connected => old = {}
      BY <1>1 DEF LinkInv, GapInv
    <3>6. ASSUME hwm >= Items PROVE old = produced..(produced - 1)
      <4>1. ~ connected
        <5>1. Len(wire) <= nread /\ hwm \in Nat /\ Items \in Nat
          BY <1>1, ZmqSizes DEF LinkInv, LinkType, GapInv
        <5>2. Len(wire) < hwm
          BY <1>1, <3>6, <5>1
        <5> QED
          BY <2>2, <5>2 DEF Pollout
      <4>2. produced..(produced - 1) = {}
        BY <1>1
      <4> QED
        BY <3>5, <4>1, <4>2
    <3>7. GapInv'
      BY <1>1, <3>1, <3>4, <3>5, <3>6 DEF GapInv, PushWork
    <3>8. TagInv'
      BY <1>3, <1>6, <2>2 DEF LinkInv, TagInv, Fits, PushWork, sourceVars
    <3> QED
      BY <3>3, <3>7, <3>8
  <2> QED
    BY <2>1, <2>2
<1> QED
  BY <1>5, <1>7 DEF LinkInv

(* rep_sink sends the tags of its whole window with every reply. *)
LEMMA RepServeLink == LinkInv /\ RepServe => LinkInv'
<1> SUFFICES ASSUME LinkInv, RepServe PROVE LinkInv'
  OBVIOUS
<1> DEFINE n == Min({replying - rdone, request})
           T == TagsInWindow(nread, replying)
           m == Message(nread + rdone, n, T)
<1>1. /\ nread \in Nat /\ produced \in Nat /\ rdone \in Nat /\ replying \in Nat /\ rdone <= replying
      /\ nread + replying <= produced /\ produced <= Items /\ request \in Int /\ request >= 0
      /\ pattern = "REQ" /\ wire \in Seq(Messages) /\ Len(wire) \in Nat
  BY DEF LinkInv, LinkType, RepServe
<1>2. n \in Nat /\ rdone + n <= replying
  <2>2. replying - rdone \in Int
    BY <1>1
  <2>1. n \in {replying - rdone, request} /\ n <= replying - rdone
    BY <1>1, <2>2, MinPair
  <2> HIDE DEF n
  <2> QED
    BY <1>1, <2>1
<1>3. m \in Messages /\ m.first = nread + rdone /\ m.n = n /\ Fits(m)
  <2>1. T \subseteq Tagged
    BY DEF TagsInWindow
  <2>2. \A t \in Tagged : t \in Nat
    BY ZmqSizes
  <2> HIDE DEF n
  <2>3. \A t \in Tagged : nread + rdone <= t /\ t < (nread + rdone) + n => t \in T
    BY <1>1, <1>2, <2>2 DEF TagsInWindow
  <2> HIDE DEF T
  <2>4. nread + rdone \in Nat /\ (nread + rdone) + n <= Items
    BY <1>1, <1>2, ZmqSizes
  <2> QED
    BY <1>2, <2>1, <2>3, <2>4, MessageFits
<1>4. wire' = Append(wire, m) /\ rdone' = rdone + n
  BY DEF RepServe, SendMessage
<1> HIDE DEF m, T, n
<1>5. wire' \in Seq(Messages)
  BY <1>1, <1>3, <1>4, AppendProperties
<1>6. LinkType' /\ SpaceInv'
  BY <1>1, <1>2, <1>4, <1>5 DEF LinkInv, LinkType, SpaceInv, RepServe, sourceVars, throttleVars
<1>7. Sent = nread + rdone /\ Sent' = Sent + n
  <2>1. Sent' = nread + (rdone + n)
    BY <1>4 DEF RepServe, Sent
  <2> QED
    BY <1>1, <1>2, <2>1 DEF Sent
<1>8. OrderInv' /\ GapInv' /\ TagInv'
  BY <1>1, <1>3, <1>4, <1>7, LinkSend DEF RepServe, sourceVars
<1> QED
  BY <1>6, <1>8 DEF LinkInv

(* The steps of the network buffer. *)
LEMMA NetPostWriteLink ==
  ASSUME NEW n \in 0..UpCap
  PROVE  LinkInv /\ NetPostWrite(n) => LinkInv'
<1> SUFFICES ASSUME LinkInv, NetPostWrite(n) PROVE LinkInv'
  OBVIOUS
<1> DEFINE m == Message(produced, n, {})
<1>1. /\ nread \in Nat /\ produced \in Nat /\ n \in Nat /\ nread = produced /\ rdone = 0
      /\ produced + n <= Items /\ pattern = "NET" /\ wire \in Seq(Messages)
  BY ZmqSizes DEF LinkInv, LinkType, NetPostWrite
<1>2. m = [first |-> produced, n |-> n, tags |-> {}]
  <2>1. {(t - produced) % Word : t \in {}} = {}
    OBVIOUS
  <2> QED
    BY <2>1 DEF Message
<1>3. m \in Messages /\ m.first = produced /\ m.n = n /\ m.tags = {}
  BY <1>1, <1>2 DEF Messages
<1>4. wire' = Append(wire, m) /\ produced' = produced + n /\ nread' = produced + n
  BY DEF NetPostWrite, SendMessage
<1> HIDE DEF m
<1>5. wire' \in Seq(Messages)
  BY <1>1, <1>3, <1>4, AppendProperties
<1>6. LinkType' /\ SpaceInv'
  BY <1>1, <1>4, <1>5 DEF LinkInv, LinkType, SpaceInv, NetPostWrite, sourceVars, throttleVars
<1>7. Sent = produced /\ Sent' = produced + n
  <2>1. Sent' = (produced + n) + 0 /\ Sent = produced + 0
    BY <1>1, <1>4 DEF NetPostWrite, Sent
  <2> QED
    BY <1>1, <2>1
<1>8. OrderInv' /\ GapInv' /\ TagInv'
  BY <1>1, <1>3, <1>4, <1>7, LinkSend DEF NetPostWrite, sourceVars
<1> QED
  BY <1>6, <1>8 DEF LinkInv

(* What is at hand of the message fits what is copied of it. *)
LEMMA NetCopyLink == LinkInv /\ NetCopy => LinkInv'
<1> SUFFICES ASSUME LinkInv, NetCopy PROVE LinkInv'
  OBVIOUS
<1> DEFINE n == Min({Space, d_msg.n - d_consumed})
           new == [k \in 1..n |-> d_msg.first + d_consumed + k - 1]
<1>1. /\ pattern = "NET" /\ d_msg.first \in Nat /\ d_msg.n \in Nat
      /\ d_consumed \in Nat /\ d_consumed <= d_msg.n
      /\ out \in Seq(Nat) /\ taken \in Nat /\ taken <= Len(out) /\ Len(out) \in Nat
      /\ grant = 0 /\ Len(staged) <= grant /\ staged \in Seq(Nat) /\ DownCap \in Nat
      /\ Space = DownCap - (Len(out) - taken)
  BY ZmqSizes DEF LinkInv, LinkType, SpaceInv, Messages, NetCopy, Space
<1>2. n \in Nat /\ n >= 1 /\ n <= Space /\ n <= d_msg.n - d_consumed
  <2>1. Space \in Int /\ d_msg.n - d_consumed \in Int
    BY <1>1
  <2>2. n \in {Space, d_msg.n - d_consumed} /\ n <= Space /\ n <= d_msg.n - d_consumed
    BY <2>1, MinPair
  <2>3. n > 0
    BY DEF NetCopy
  <2> HIDE DEF n
  <2> QED
    BY <2>1, <2>2, <2>3
<1>3. out' = out \o new /\ d_consumed' = d_consumed + n /\ staged' = staged
  BY DEF NetCopy
<1> HIDE DEF n
<1>4. new \in Seq(Nat) /\ Len(new) = n
  <2>1. \A k \in 1..n : d_msg.first + d_consumed + k - 1 \in Nat
    BY <1>1, <1>2
  <2> QED
    BY <1>2, <2>1
<1> HIDE DEF new
<1>5. staged = <<>>
  BY <1>1, EmptySeq
<1>6. out' \in Seq(Nat) /\ Len(out') = Len(out) + n
  BY <1>1, <1>3, <1>4, ConcatProperties
<1>7. SpaceInv'
  <2>1. /\ UNCHANGED <<grant, staged, taken, pattern>>
        /\ (Len(out) + n) - taken + grant <= DownCap /\ taken <= Len(out) + n
    BY <1>1, <1>2 DEF NetCopy, throttleVars
  <2> QED
    BY <1>1, <1>6, <2>1 DEF LinkInv, SpaceInv
<1>8. LinkType'
  <2>1. d_consumed' \in Nat /\ d_consumed' <= d_msg.n
    BY <1>1, <1>2, <1>3
  <2> QED
    BY <2>1 DEF LinkInv, LinkType, NetCopy, sinkVars
<1>9. Received' = Received \o new
  <2>1. Received = out \o <<>> /\ Received' = (out \o new) \o <<>>
    BY <1>3, <1>5 DEF Received
  <2>2. out \o <<>> = out /\ (out \o new) \o <<>> = out \o new
    BY <1>1, <1>3, <1>4, <1>6, ConcatEmptySeq
  <2> QED
    BY <2>1, <2>2
<1>10. n \in 0..(d_msg.n - d_consumed)
  BY <1>1, <1>2
<1>11. OrderInv' /\ GapInv' /\ TagInv'
  BY <1>1, <1>3, <1>9, <1>10, LinkCopy DEF new, NetCopy, sinkVars
<1> QED
  BY <1>7, <1>8, <1>11 DEF LinkInv

(* The reader's thread takes the next message after all of this one. *)
LEMMA NetReceiveLink == LinkInv /\ NetReceive => LinkInv'
<1> SUFFICES ASSUME LinkInv, NetReceive PROVE LinkInv'
  OBVIOUS
<1>1. OrderInv' /\ GapInv' /\ TagInv' /\ wire' \in Seq(Messages) /\ d_msg' \in Messages
  BY LinkLoad DEF NetReceive, sinkVars
<1>2. LinkType'
  <2>1. d_consumed' = 0 /\ 0 <= d_msg'.n
    BY <1>1 DEF NetReceive, Messages
  <2> QED
    BY <1>1, <2>1 DEF LinkInv, LinkType, NetReceive, sinkVars
<1>3. SpaceInv'
  BY DEF LinkInv, SpaceInv, NetReceive, throttleVars
<1> QED
  BY <1>1, <1>2, <1>3 DEF LinkInv

(* The steps of the source. *)
LEMMA LoadMessageLink == LinkInv /\ LoadMessage => LinkInv'
<1> SUFFICES ASSUME LinkInv, LoadMessage PROVE LinkInv'
  OBVIOUS
<1>1. d_consumed = d_msg.n
  BY DEF LinkInv, LinkType, Messages, LoadMessage, Polling, HasPending
<1>2. OrderInv' /\ GapInv' /\ TagInv' /\ wire' \in Seq(Messages) /\ d_msg' \in Messages
  BY <1>1, LinkLoad DEF LoadMessage, sinkVars
<1>3. LinkType'
  <2>1. d_consumed' = 0 /\ 0 <= d_msg'.n
    BY <1>2 DEF LoadMessage, Messages
  <2> QED
    BY <1>2, <2>1 DEF LinkInv, LinkType, LoadMessage, sinkVars
<1>4. SpaceInv'
  BY DEF LinkInv, SpaceInv, LoadMessage, throttleVars
<1> QED
  BY <1>2, <1>3, <1>4 DEF LinkInv

(* The source is granted the space behind it. *)
LEMMA SourceBeginLink == LinkInv /\ SourceBegin => LinkInv'
<1> SUFFICES ASSUME LinkInv, SourceBegin PROVE LinkInv'
  OBVIOUS
<1>1. LinkType'
  BY DEF LinkInv, LinkType, SourceBegin, sinkVars
<1>2. SpaceInv'
  <2>1. /\ out \in Seq(Nat) /\ Len(out) \in Nat /\ taken \in Nat /\ taken <= Len(out)
        /\ (Len(out) - taken) + grant <= DownCap /\ grant = 0 /\ DownCap \in Nat
        /\ staged \in Seq(Nat) /\ Len(staged) <= grant /\ Len(staged) \in Nat
    BY ZmqSizes DEF LinkInv, SpaceInv, SourceBegin
  <2>2. Space \in Nat /\ Len(staged) <= Space /\ (Len(out) - taken) + Space <= DownCap
    BY <2>1 DEF Space
  <2> QED
    BY <2>1, <2>2 DEF SpaceInv, SourceBegin, throttleVars
<1>3. Received' = Received /\ Sent' = Sent /\ Sent \in Nat
  BY DEF LinkInv, LinkType, SourceBegin, sinkVars, Received, Sent
<1>4. OrderInv' /\ GapInv' /\ TagInv'
  BY <1>1, <1>3, LinkFrame DEF SourceBegin, sinkVars
<1> QED
  BY <1>1, <1>2, <1>4 DEF LinkInv

(* A request moves no items. *)
LEMMA SendRequestLink == LinkInv /\ SendRequest => LinkInv'
<1> SUFFICES ASSUME LinkInv, SendRequest PROVE LinkInv'
  OBVIOUS
<1>1. grant - Len(staged) \in Int
  BY DEF LinkInv, SpaceInv
<1>2. LinkType' /\ SpaceInv'
  BY <1>1 DEF LinkInv, LinkType, SpaceInv, SendRequest, sinkVars, throttleVars
<1>3. Received' = Received /\ Sent' = Sent /\ Sent \in Nat
  BY DEF LinkInv, LinkType, SendRequest, sinkVars, Received, Sent
<1>4. OrderInv' /\ GapInv' /\ TagInv'
  BY <1>2, <1>3, LinkFrame DEF SendRequest, sinkVars
<1> QED
  BY <1>2, <1>4 DEF LinkInv

(* Nothing is lost between what was copied before and the end of work. *)
LEMMA LoadFailsLink == LinkInv /\ LoadFails => LinkInv'
<1> SUFFICES ASSUME LinkInv, LoadFails PROVE LinkInv'
  OBVIOUS
<1>1. /\ out \in Seq(Nat) /\ staged \in Seq(Nat) /\ Len(staged) <= grant /\ grant \in Nat
      /\ taken \in Nat /\ taken <= Len(out) /\ Len(out) \in Nat /\ Len(staged) \in Nat
      /\ (Len(out) - taken) + grant <= DownCap /\ DownCap \in Nat
  BY ZmqSizes DEF LinkInv, SpaceInv
<1>2. out' = out \o staged /\ staged' = <<>> /\ grant' = 0
  BY DEF LoadFails, EndWork
<1>3. out \o staged \in Seq(Nat) /\ Len(out \o staged) = Len(out) + Len(staged)
  BY <1>1, ConcatProperties
<1>4. LinkType'
  BY DEF LinkInv, LinkType, LoadFails, sinkVars
<1>5. SpaceInv'
  <2>1. taken <= Len(out) + Len(staged) /\ ((Len(out) + Len(staged)) - taken) + 0 <= DownCap
    BY <1>1
  <2>2. staged' \in Seq(Nat) /\ Len(staged') = 0
    BY <1>2
  <2> QED
    BY <1>1, <1>2, <1>3, <2>1, <2>2 DEF SpaceInv, LoadFails, throttleVars
<1>6. Received' = Received /\ Sent' = Sent /\ Sent \in Nat
  <2>1. Received' = (out \o staged) \o <<>>
    BY <1>2 DEF Received
  <2>2. (out \o staged) \o <<>> = out \o staged
    BY <1>3, ConcatEmptySeq
  <2> QED
    BY <2>1, <2>2 DEF LinkInv, LinkType, LoadFails, sinkVars, Received, Sent
<1>7. OrderInv' /\ GapInv' /\ TagInv'
  BY <1>4, <1>6, LinkFrame DEF LoadFails, sinkVars
<1> QED
  BY <1>4, <1>5, <1>7 DEF LinkInv

(* flush_pending, whether work ends with it or not. *)
LEMMA FlushPendingLink == LinkInv /\ FlushPending => LinkInv'
<1> SUFFICES ASSUME LinkInv, FlushPending PROVE LinkInv'
  OBVIOUS
<1> DEFINE n == Min({grant - Len(staged), d_msg.n - d_consumed})
           new == [k \in 1..n |-> d_msg.first + d_consumed + k - 1]
           items == staged \o new
           copied == {t + Len(out) + Len(staged) - d_consumed :
                        t \in {u \in d_msg.tags : d_consumed <= u /\ u < d_consumed + n}}
<1>1. /\ d_msg.first \in Nat /\ d_msg.n \in Nat /\ d_consumed \in Nat /\ d_consumed <= d_msg.n
      /\ out \in Seq(Nat) /\ staged \in Seq(Nat) /\ Len(staged) <= grant /\ grant \in Nat
      /\ taken \in Nat /\ taken <= Len(out) /\ Len(out) \in Nat /\ Len(staged) \in Nat
      /\ (Len(out) - taken) + grant <= DownCap /\ DownCap \in Nat
  <2>1. d_msg \in Messages
    BY DEF LinkInv, LinkType
  <2>2. /\ d_msg.first \in Nat /\ d_msg.n \in Nat /\ d_consumed \in Nat /\ d_consumed <= d_msg.n
    BY <2>1 DEF LinkInv, LinkType, Messages
  <2>3. /\ out \in Seq(Nat) /\ staged \in Seq(Nat) /\ Len(staged) <= grant /\ grant \in Nat
        /\ taken \in Nat /\ taken <= Len(out) /\ Len(out) \in Nat /\ Len(staged) \in Nat
        /\ (Len(out) - taken) + grant <= DownCap /\ DownCap \in Nat
    BY ZmqSizes DEF LinkInv, SpaceInv
  <2> QED
    BY ONLY <2>2, <2>3
<1>2. pattern # "NET"
  BY DEF LinkInv, SpaceInv, FlushPending
<1>3. n \in Nat /\ Len(staged) + n <= grant /\ n <= d_msg.n - d_consumed
  <2>1. grant - Len(staged) \in Nat /\ d_msg.n - d_consumed \in Nat
    BY <1>1
  <2>2. /\ n \in {grant - Len(staged), d_msg.n - d_consumed}
        /\ n <= grant - Len(staged) /\ n <= d_msg.n - d_consumed
    <3>1. grant - Len(staged) \in Int /\ d_msg.n - d_consumed \in Int
      BY <2>1
    <3> QED
      BY <3>1, MinPair
  <2> HIDE DEF n
  <2> QED
    BY <1>1, <2>1, <2>2
<1>4. /\ d_consumed' = d_consumed + n
      /\ outTags' = outTags \cup copied
      /\ IF Len(items) = grant
         THEN grant' = 0 /\ staged' = <<>> /\ out' = out \o items
         ELSE staged' = items /\ grant' = grant /\ out' = out
      /\ UNCHANGED <<pattern, hwm, sinkVars, connected, wire, request, d_msg, throttleVars>>
  BY DEF FlushPending, EndWork
<1> HIDE DEF n
<1>5. new \in Seq(Nat) /\ Len(new) = n
  <2>1. \A k \in 1..n : d_msg.first + d_consumed + k - 1 \in Nat
    <3>1. d_msg.first + d_consumed \in Nat
      BY <1>1
    <3> QED
      BY ONLY <1>3, <3>1
  <2> QED
    BY <1>3, <2>1
<1> HIDE DEF new
<1>6. items \in Seq(Nat) /\ Len(items) = Len(staged) + n
  BY <1>1, <1>5, ConcatProperties
<1>7. out \o items = (out \o staged) \o new
  <2>1. PICK S, s, t, u : S = Nat /\ s = out /\ t = staged /\ u = new
    OBVIOUS
  <2>2. s \in Seq(S) /\ t \in Seq(S) /\ u \in Seq(S)
    BY <1>1, <1>5, <2>1
  <2>3. (s \o t) \o u = s \o (t \o u)
    BY ONLY <2>2, ConcatAssociative
  <2> QED
    BY <2>1, <2>3
<1> HIDE DEF items
<1>8. out \o items \in Seq(Nat) /\ Len(out \o items) = Len(out) + Len(items)
  BY <1>1, <1>6, ConcatProperties
<1>9. SpaceInv'
  <2>1. CASE Len(items) = grant
    <3>1. taken <= Len(out) + Len(items) /\ ((Len(out) + Len(items)) - taken) + 0 <= DownCap
      BY <1>1, <2>1
    <3>2. staged' \in Seq(Nat) /\ Len(staged') = 0
      BY <1>4, <2>1
    <3>3. out' = out \o items /\ grant' = 0 /\ taken' = taken
      BY <1>4, <2>1 DEF throttleVars
    <3> QED
      BY <1>1, <1>8, <3>1, <3>2, <3>3 DEF SpaceInv
  <2>2. CASE Len(items) # grant
    BY <1>1, <1>2, <1>3, <1>4, <1>6, <2>2 DEF SpaceInv, throttleVars
  <2> QED
    BY <2>1, <2>2
<1>10. LinkType'
  <2>1. d_consumed' \in Nat /\ d_consumed' <= d_msg.n
    BY <1>1, <1>3, <1>4
  <2> QED
    BY <1>4, <2>1 DEF LinkInv, LinkType, sinkVars
<1>11. Received' = Received \o new
  <2>1. CASE Len(items) = grant
    <3>1. Received' = (out \o items) \o <<>>
      BY <1>4, <2>1 DEF Received
    <3>2. (out \o items) \o <<>> = out \o items
      BY <1>8, ConcatEmptySeq
    <3> QED
      BY <1>7, <3>1, <3>2 DEF Received
  <2>2. CASE Len(items) # grant
    <3>1. Received' = out \o items
      BY <1>4, <2>2 DEF Received
    <3> QED
      BY <1>7, <3>1 DEF Received
  <2> QED
    BY <2>1, <2>2
<1>12. outTags' = outTags \cup {t + Len(Received) - d_consumed :
                                  t \in {u \in d_msg.tags : d_consumed <= u /\ u < d_consumed + n}}
  <2>1. Len(Received) = Len(out) + Len(staged) /\ d_msg.tags \subseteq Nat
    BY LinkSeqs DEF LinkInv
  <2>2. \A t \in d_msg.tags : t + Len(Received) - d_consumed = t + Len(out) + Len(staged) - d_consumed
    BY <1>1, <2>1
  <2> QED
    BY <1>4, <2>2
<1>13. n \in 0..(d_msg.n - d_consumed)
  BY <1>1, <1>3
<1> HIDE DEF copied
<1>14. OrderInv' /\ GapInv' /\ TagInv'
  BY <1>2, <1>4, <1>11, <1>12, <1>13, LinkCopy DEF new, sinkVars
<1> QED
  BY <1>9, <1>10, <1>14 DEF LinkInv

(* Timers, the throttle and its sleeper move no items of the link. *)
LEMMA OtherLink ==
  LinkInv /\ (TimerFires \/ ThrottleNext \/ SleeperPushes \/ SleeperClears \/ UNCHANGED vars) => LinkInv'
<1> SUFFICES ASSUME LinkInv,
                    TimerFires \/ ThrottleNext \/ SleeperPushes \/ SleeperClears \/ UNCHANGED vars
             PROVE  LinkInv'
  OBVIOUS
<1>1. /\ UNCHANGED <<pattern, hwm, produced, nread, replying, rdone, connected, wire, request,
                     grant, staged, d_msg, d_consumed, out, outTags>>
      /\ taken' = taken \/ taken' = Len(out)
  BY DEF TimerFires, ThrottleNext, ThrottleBlocked, ThrottleSleeps, ThrottleEarly,
         ThrottleCopies, SleeperPushes, SleeperClears, vars, sinkVars, sourceVars, throttleVars
<1>2. LinkType'
  BY <1>1 DEF LinkInv, LinkType
<1>3. SpaceInv'
  <2>1. CASE taken' = taken
    BY <1>1, <2>1 DEF LinkInv, SpaceInv
  <2>2. CASE taken' = Len(out)
    <3>1. /\ Len(out) \in Nat /\ Len(out) <= Len(out) /\ grant \in Nat
          /\ (Len(out) - Len(out)) + grant <= DownCap
      BY ZmqSizes DEF LinkInv, SpaceInv
    <3> QED
      BY <1>1, <2>2, <3>1 DEF LinkInv, SpaceInv
  <2> QED
    BY <1>1, <2>1, <2>2
<1>4. Received' = Received /\ Sent' = Sent /\ Sent \in Nat
  BY <1>1 DEF LinkInv, LinkType, Received, Sent
<1>5. OrderInv' /\ GapInv' /\ TagInv'
  BY <1>1, <1>2, <1>4, LinkFrame
<1> QED
  BY <1>2, <1>3, <1>5 DEF LinkInv

(* Every step keeps the invariant. *)
LEMMA StepLink == LinkInv /\ [Next]_vars => LinkInv'
  BY ArriveLink, ConnectLink, NetPostWriteLink, NetCopyLink, NetReceiveLink, PushWorkLink,
     RepBeginLink, RepServeLink, RepEndLink, SourceBeginLink, FlushPendingLink, SendRequestLink,
     LoadMessageLink, LoadFailsLink, OtherLink
  DEF Next, NetNext, SinkNext, SourceNext

(* The parts of the stream on the link are the rest of the message at hand
   and the messages on the wire. *)
LEMMA PartsAre ==
  ASSUME LinkInv
  PROVE  /\ DOMAIN Parts = 0..Len(wire) /\ Parts[0] = Rest
         /\ \A k \in 0..Len(wire) : k = 0 \/ (k \in 1..Len(wire) /\ Parts[k] = wire[k])
         /\ OnLink = Carried(Received, Rest, wire)
<1>1. Len(wire) \in Nat
  BY LinkSeqs DEF LinkInv
<1>2. DOMAIN Parts = 0..Len(wire) /\ \A k \in 0..Len(wire) : Parts[k] = IF k = 0 THEN Rest ELSE wire[k]
  BY DEF Parts
<1>3. 0 \in 0..Len(wire) /\ \A k \in 0..Len(wire) : k = 0 \/ k \in 1..Len(wire)
  BY <1>1
<1>4. \A k \in 1..Len(wire) : k \in 0..Len(wire) /\ k # 0
  BY <1>1
<1>5. UNION {ItemsOf(Parts[k]) : k \in 0..Len(wire)} = ItemsOf(Rest) \cup ItemsOfAll(wire)
  <2>1. ASSUME NEW k \in 0..Len(wire) PROVE ItemsOf(Parts[k]) \subseteq ItemsOf(Rest) \cup ItemsOfAll(wire)
    <3>1. CASE k = 0
      BY <1>2, <3>1
    <3>2. CASE k # 0
      <4>1. k \in 1..Len(wire) /\ Parts[k] = wire[k]
        BY <1>2, <1>3, <3>2
      <4> QED
        BY <4>1 DEF ItemsOfAll
    <3> QED
      BY <3>1, <3>2
  <2>2. ItemsOf(Rest) \subseteq UNION {ItemsOf(Parts[k]) : k \in 0..Len(wire)}
    BY <1>2, <1>3
  <2>3. ItemsOfAll(wire) \subseteq UNION {ItemsOf(Parts[k]) : k \in 0..Len(wire)}
    <3>1. \A k \in 1..Len(wire) : k \in 0..Len(wire) /\ Parts[k] = wire[k]
      BY <1>2, <1>4
    <3> QED
      BY <3>1 DEF ItemsOfAll
  <2> QED
    BY <2>1, <2>2, <2>3
<1>6. OnLink = Range(Received) \cup (ItemsOf(Rest) \cup ItemsOfAll(wire))
  BY <1>2, <1>5 DEF OnLink
<1> QED
  BY <1>2, <1>3, <1>6 DEF Carried

(* The invariant says that the stream is in order ... *)
LEMMA InOrder == LinkInv => StreamArrivesInOrder
<1> SUFFICES ASSUME LinkInv PROVE StreamArrivesInOrder
  OBVIOUS
<1>1. Chain(Received, Rest, wire) /\ DOMAIN Received = 1..Len(Received)
  BY LinkSeqs DEF LinkInv, OrderInv
<1>2. \A i, j \in DOMAIN Received : i < j => Received[i] < Received[j]
  BY <1>1 DEF Chain, Increasing
<1>3. ASSUME NEW k \in DOMAIN Parts PROVE Before(Range(Received), ItemsOf(Parts[k]))
  <2>1. CASE k = 0
    BY <1>1, <2>1, PartsAre DEF Chain
  <2>2. CASE k # 0
    <3>1. k \in 1..Len(wire) /\ Parts[k] = wire[k]
      BY <2>2, PartsAre
    <3>2. ItemsOf(wire[k]) \subseteq ItemsOfAll(wire)
      BY <3>1 DEF ItemsOfAll
    <3> QED
      BY <1>1, <3>1, <3>2 DEF Chain, Before
  <2> QED
    BY <2>1, <2>2
<1>4. ASSUME NEW k \in DOMAIN Parts, NEW l \in DOMAIN Parts, k < l
      PROVE  Before(ItemsOf(Parts[k]), ItemsOf(Parts[l]))
  <2>1. l \in 1..Len(wire) /\ Parts[l] = wire[l]
    <3>1. k \in 0..Len(wire) /\ l \in 0..Len(wire) /\ Len(wire) \in Nat
      BY PartsAre, LinkSeqs DEF LinkInv
    <3>2. l # 0
      BY <1>4, <3>1
    <3> QED
      BY <3>1, <3>2, PartsAre
  <2>2. CASE k = 0
    <3>1. ItemsOf(wire[l]) \subseteq ItemsOfAll(wire)
      BY <2>1 DEF ItemsOfAll
    <3> QED
      BY <1>1, <2>1, <2>2, <3>1, PartsAre DEF Chain, Before
  <2>3. CASE k # 0
    <3>1. k \in 1..Len(wire) /\ Parts[k] = wire[k]
      BY <2>3, PartsAre
    <3> QED
      BY <1>1, <1>4, <2>1, <3>1 DEF Chain
  <2> QED
    BY <2>2, <2>3
<1>5. pattern = "PUSH" /\ hwm >= Items => NoGap
  <2> SUFFICES ASSUME pattern = "PUSH", hwm >= Items PROVE NoGap
    OBVIOUS
  <2>1. PICK i \in Nat : OnLink = i..(nread - 1)
    BY PartsAre DEF LinkInv, GapInv
  <2>2. nread \in Nat
    BY DEF LinkInv, LinkType
  <2>3. \A a, b \in i..(nread - 1) : a..b \subseteq i..(nread - 1)
    BY <2>2
  <2> QED
    BY <2>1, <2>3 DEF NoGap
<1>6. pattern = "NET" => OnLink = 0..(produced - 1)
  BY PartsAre DEF LinkInv, GapInv
<1> QED
  BY <1>2, <1>3, <1>4, <1>5, <1>6 DEF StreamArrivesInOrder

(* ... and that tags are with their items. *)
LEMMA TagsWithItems == LinkInv => TagsStayWithItems
<1> SUFFICES ASSUME LinkInv PROVE TagsStayWithItems
  OBVIOUS
<1>1. DOMAIN Received = 1..Len(Received)
  BY LinkSeqs DEF LinkInv
<1> QED
  BY <1>1 DEF LinkInv, TagInv, TagsStayWithItems

-----------------------------------------------------------------------------
(* LinkInv holds always: the work of the source stays within the space it was
   granted, and what is on the link is a chain of items that ends before the
   next one to be sent. *)
THEOREM LinkInvariant == Spec => []LinkInv
  BY InitLink, StepLink, PTL DEF Spec

(* Items arrive in order and none twice, however messages are cut, copied in
   pieces and delayed; if the queue holds as many messages as the stream has
   items, push_sink loses none between the first and the last it sent, and
   the network buffer loses none at all (send_message, flush_pending,
   load_message, buffer_net_zmq's post_write). *)
THEOREM StreamInOrder == Spec => []StreamArrivesInOrder
  BY LinkInvariant, InOrder, PTL

(* After all fixups of offsets a tag is at the item it was given to, also if
   rep_sink sends the tags of its whole window with every reply
   (gen_tag_header, flush_pending). *)
THEOREM TagsStay == Spec => []TagsStayWithItems
  BY LinkInvariant, TagsWithItems, PTL
=============================================================================
