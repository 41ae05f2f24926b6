----------------------------- MODULE TagsProofs -----------------------------
(***************************************************************************)
(* Proofs about Tags, for a source, a block and any number of sinks, with  *)
(* items of any size, each in a thread of its own, until a walk of         *)
(* propagate_tags is disturbed.                                            *)
(*                                                                         *)
(* Every vector of tags lists some keys, what added a tag and to which     *)
(* item, each of them once (Lists, Entries).  The invariant says which:    *)
(* the vector of the input, the tags of the source that the block has not  *)
(* read; that of the output, the tags that the block has moved or added    *)
(* (Moved) and that some sink has not read; what a sink has been given,    *)
(* the tags of the items it was given.  The source may add and prune at    *)
(* any moment: only what it changes before the walk has come to its end    *)
(* disturbs it, as a tag that it adds is behind the items of the walk and  *)
(* one that it prunes has been read.                                       *)
(***************************************************************************)
EXTENDS Tags, FiniteSetTheorems, SequenceTheorems, WellFoundedInduction, TLAPS

(* The tag of an item that an adder has added, whatever its offset. *)
Key(t) == <<t.by, t.at>>
Entries(v) == {Key(v[i]) : i \in DOMAIN v}

(* No tag is twice in v, and each has the offset of its item, for a reader
   whose items are r items of the buffer. *)
Lists(v, r) ==
  /\ v \in Seq(Tag)
  /\ \A i \in DOMAIN v : v[i].offset = v[i].at \div r
  /\ \A i, j \in DOMAIN v : Key(v[i]) = Key(v[j]) => i = j

-----------------------------------------------------------------------------
(* The invariant. *)

Places == {"idle", "propagate", "post_read", "post_write", "prune"}

TypeOK ==
  /\ tags \in [Buffers -> Seq(Tag)]
  /\ written \in [Buffers -> Nat]
  /\ read \in [Readers -> Nat]
  /\ pc \in [Actors -> Places]
  /\ n \in [Actors -> Nat]
  /\ next \in [at : Nat, end : Nat]
  /\ added \subseteq Adders \X Nat
  /\ seen \in [Sinks -> Seq(Tag)]

(* Up to which item the source and the block have added tags. *)
SourceEnd == written["in"] + (IF pc["source"] = "post_write" THEN n["source"] ELSE 0)
BlockEnd ==
  written["out"] + (IF pc["block"] \in {"propagate", "post_read", "post_write"}
                    THEN n["block"] ELSE 0)

(* The indices: the block is one to one, and no reader passes its writer. *)
IndicesAgree ==
  /\ pc["source"] \in {"idle", "post_write", "prune"}
  /\ \A s \in Sinks : pc[s] \in {"idle", "post_read"}
  /\ read["block"] = IF pc["block"] = "post_write" THEN BlockEnd ELSE written["out"]
  /\ BlockEnd <= written["in"]
  /\ \A s \in Sinks : Given(s) * Rate[s] <= written["out"]

(* Tags are added to items of the work call, and never again to these. *)
AddedInOrder ==
  \A a \in added : a[2] < IF a[1] = "source" THEN SourceEnd ELSE BlockEnd

(* The tags that have been in the vector of the output. *)
Moved ==
  {a \in added :
     \/ a[1] = "block"
     \/ a[2] < written["out"]
     \/ pc["block"] \in {"post_read", "post_write"} /\ a[2] < BlockEnd
     \/ /\ pc["block"] = "propagate" /\ a[2] < BlockEnd
        /\ \/ next.at = next.end
           \/ \E j \in DOMAIN tags["in"] : j < next.at /\ a = Key(tags["in"][j])}

InputListed ==
  /\ Lists(tags["in"], 1)
  /\ \A a \in Entries(tags["in"]) : a \in added /\ a[1] = "source"
  /\ \A a \in added : a[1] = "source" /\ a[2] >= read["block"] => a \in Entries(tags["in"])
  /\ pc["block"] = "propagate" => next.at \in 1..next.end
  /\ Walking => next.end = EndOf("in")

OutputListed ==
  /\ Lists(tags["out"], 1)
  /\ Entries(tags["out"]) \subseteq Moved
  /\ \A a \in Moved : (\E s \in Sinks : read[s] <= a[2]) => a \in Entries(tags["out"])

GivenListed ==
  \A s \in Sinks :
    /\ Lists(seen[s], Rate[s])
    /\ Entries(seen[s]) = {a \in added : a[2] \div Rate[s] < Given(s)}

IInv ==
  /\ TypeOK /\ IndicesAgree /\ AddedInOrder
  /\ InputListed /\ OutputListed /\ GivenListed

(* All of it until a walk is disturbed. *)
Inv == disturbed \in BOOLEAN /\ (disturbed \/ IInv)

-----------------------------------------------------------------------------
(* Induction, and the entries of a vector. *)

(* The smallest of a set of naturals. *)
LEMMA LeastExists ==
  ASSUME NEW S \in SUBSET Nat, S # {}
  PROVE  \E x \in S : \A y \in S : x <= y
<1> DEFINE less == OpToRel(<, Nat)
<1>1. IsWellFoundedOn(less, Nat)
  BY NatLessThanWellFounded
<1>2. \A h, g \in Nat : h < g => <<h, g>> \in less
  BY DEF OpToRel
<1> HIDE DEF less
<1>3. PICK x \in S : \A y \in S : ~ (<<y, x>> \in less)
  BY <1>1, WFMin
<1>4. \A y \in S : ~ (y < x)
  BY <1>2, <1>3
<1> QED
  BY <1>4

(* Lowest is the smallest. *)
LEMMA LowestIs ==
  ASSUME NEW S \in SUBSET Nat, S # {}
  PROVE  Lowest(S) \in S /\ \A y \in S : Lowest(S) <= y
BY LeastExists DEF Lowest

(* A set that holds 0, and with a number its successor, holds all up to m. *)
LEMMA UpTo ==
  ASSUME NEW m \in Nat, NEW S, 0 \in S,
         \A k \in S : k \in Nat /\ k < m => k + 1 \in S
  PROVE  0..m \subseteq S
<1> DEFINE Out == {k \in 0..m : k \notin S}
<1>1. SUFFICES ASSUME Out # {} PROVE FALSE
  OBVIOUS
<1>2. PICK x \in Out : \A y \in Out : x <= y
  <2>1. Out \in SUBSET Nat
    OBVIOUS
  <2> HIDE DEF Out
  <2> QED BY <1>1, <2>1, LeastExists
<1>3. x \in 0..m /\ x \notin S /\ x # 0
  BY <1>2
<1>4. x - 1 \in 0..m /\ ~ (x <= x - 1) /\ x - 1 < m /\ (x - 1) + 1 = x
  BY <1>3
<1>5. x - 1 \in S
  BY <1>2, <1>4
<1> QED
  BY <1>3, <1>4, <1>5

(* What Selected's function is at each place. *)
Selects(f, s, I, m) ==
  f = [i \in 0..m |->
         IF i = 0 THEN <<>> ELSE IF i \in I THEN Append(f[i - 1], s[i]) ELSE f[i - 1]]

(* There is such a function. *)
LEMMA SelectsExists ==
  ASSUME NEW s, NEW I, NEW m \in Nat
  PROVE  \E f : Selects(f, s, I, m)
<1> DEFINE S == {k \in 0..m : \E f : Selects(f, s, I, k)}
<1>1. 0 \in S
  <2>1. Selects([i \in 0..0 |-> <<>>], s, I, 0)
    BY DEF Selects
  <2> QED BY <2>1
<1>2. ASSUME NEW k \in S, k \in Nat, k < m PROVE k + 1 \in S
  <2>1. PICK f : Selects(f, s, I, k)
    OBVIOUS
  <2> DEFINE g == [i \in 0..(k + 1) |->
         IF i <= k THEN f[i] ELSE IF i \in I THEN Append(f[k], s[i]) ELSE f[k]]
  <2>2. ASSUME NEW i \in 0..k
        PROVE  f[i] = IF i = 0 THEN <<>> ELSE IF i \in I THEN Append(f[i - 1], s[i]) ELSE f[i - 1]
    BY <2>1 DEF Selects
  <2>3. ASSUME NEW i \in 0..(k + 1)
        PROVE  g[i] = IF i = 0 THEN <<>> ELSE IF i \in I THEN Append(g[i - 1], s[i]) ELSE g[i - 1]
    <3>1. CASE i = k + 1
      <4>1. i - 1 = k /\ i # 0 /\ ~ (i <= k) /\ k \in 0..(k + 1)
        BY <3>1
      <4>2. g[i - 1] = f[k]
        BY <4>1
      <4>3. g[i] = IF i \in I THEN Append(f[k], s[i]) ELSE f[k]
        BY <4>1
      <4> QED BY <4>1, <4>2, <4>3
    <3>2. CASE i \in 0..k
      <4>1. g[i] = f[i] /\ (i # 0 => g[i - 1] = f[i - 1])
        BY <3>2
      <4> QED BY <2>2, <3>2, <4>1
    <3> QED BY <3>1, <3>2
  <2>4. g = [i \in 0..(k + 1) |->
         IF i = 0 THEN <<>> ELSE IF i \in I THEN Append(g[i - 1], s[i]) ELSE g[i - 1]]
    BY <2>3
  <2>5. Selects(g, s, I, k + 1)
    <3> HIDE DEF g
    <3> QED BY <2>4 DEF Selects
  <2> QED BY <2>5
<1>3. m \in S
  <2> HIDE DEF S
  <2> QED BY <1>1, <1>2, UpTo
<1> QED BY <1>3

(* r has the entries of s at those of the places I that are up to k, in
   their order. *)
Picks(r, s, I, T, k) ==
  /\ r \in Seq(T)
  /\ \E g \in [DOMAIN r -> I] :
       /\ \A i \in DOMAIN r : r[i] = s[g[i]] /\ g[i] <= k
       /\ \A i, j \in DOMAIN r : i < j => g[i] < g[j]
       /\ \A i \in I : i <= k => \E j \in DOMAIN r : g[j] = i

(* Nothing is picked of nothing. *)
LEMMA PickNone ==
  ASSUME NEW T, NEW s \in Seq(T), NEW I \in SUBSET DOMAIN s
  PROVE  Picks(<<>>, s, I, T, 0)
<1>1. <<>> \in Seq(T) /\ DOMAIN <<>> = {}
  OBVIOUS
<1>2. \A i \in I : ~ (i <= 0)
  OBVIOUS
<1>3. [i \in {} |-> 0] \in [DOMAIN <<>> -> I]
  BY <1>1
<1> QED BY <1>1, <1>2, <1>3 DEF Picks

(* A place that is not to be picked is passed. *)
LEMMA PickSkip ==
  ASSUME NEW T, NEW s \in Seq(T), NEW I \in SUBSET DOMAIN s,
         NEW k \in Nat, k + 1 \notin I, NEW r, Picks(r, s, I, T, k)
  PROVE  Picks(r, s, I, T, k + 1)
<1>1. \A i \in I : i \in Nat /\ (i <= k + 1 => i <= k)
  OBVIOUS
<1>2. PICK g \in [DOMAIN r -> I] :
       /\ \A i \in DOMAIN r : r[i] = s[g[i]] /\ g[i] <= k
       /\ \A i, j \in DOMAIN r : i < j => g[i] < g[j]
       /\ \A i \in I : i <= k => \E j \in DOMAIN r : g[j] = i
  BY DEF Picks
<1>3. \A i \in DOMAIN r : g[i] \in Nat /\ g[i] <= k + 1
  BY <1>1, <1>2
<1>4. \A i \in DOMAIN r : r[i] = s[g[i]] /\ g[i] <= k + 1
  BY <1>2, <1>3
<1>5. \A i \in I : i <= k + 1 => \E j \in DOMAIN r : g[j] = i
  BY <1>1, <1>2
<1>6. r \in Seq(T)
  BY DEF Picks
<1> QED BY <1>2, <1>4, <1>5, <1>6 DEF Picks

(* A place that is to be picked is the next of the result. *)
LEMMA PickNext ==
  ASSUME NEW T, NEW s \in Seq(T), NEW I \in SUBSET DOMAIN s,
         NEW k \in Nat, k + 1 \in I, NEW r, Picks(r, s, I, T, k)
  PROVE  Picks(Append(r, s[k + 1]), s, I, T, k + 1)
<1>1. PICK g \in [DOMAIN r -> I] :
       /\ \A i \in DOMAIN r : r[i] = s[g[i]] /\ g[i] <= k
       /\ \A i, j \in DOMAIN r : i < j => g[i] < g[j]
       /\ \A i \in I : i <= k => \E j \in DOMAIN r : g[j] = i
  BY DEF Picks
<1> DEFINE m == Len(r)
           q == Append(r, s[k + 1])
           h == [i \in 1..(m + 1) |-> IF i <= m THEN g[i] ELSE k + 1]
<1>2. r \in Seq(T) /\ DOMAIN r = 1..m /\ m \in Nat /\ s[k + 1] \in T
  BY DEF Picks
<1>3. I \subseteq Nat /\ \A i \in I : i <= k + 1 => i <= k \/ i = k + 1
  OBVIOUS
<1>4. q \in Seq(T) /\ DOMAIN q = 1..(m + 1) /\ q[m + 1] = s[k + 1]
  BY <1>2
<1>5. \A i \in 1..m : q[i] = r[i]
  BY <1>2
<1>6. h \in [1..(m + 1) -> I] /\ h[m + 1] = k + 1 /\ \A i \in 1..m : h[i] = g[i]
  <2> HIDE DEF m
  <2>1. \A i \in 1..m : g[i] \in I
    BY <1>1, <1>2
  <2>2. m + 1 \in 1..(m + 1) /\ ~ (m + 1 <= m) /\ \A i \in 1..(m + 1) : i <= m => i \in 1..m
    BY <1>2
  <2>3. \A i \in 1..m : i \in 1..(m + 1) /\ i <= m
    BY <1>2
  <2> QED BY <2>1, <2>2, <2>3
<1> HIDE DEF m, q, h
<1>7. \A i \in 1..(m + 1) : i \in 1..m \/ i = m + 1
  BY <1>2
<1>8. \A i \in 1..m : h[i] = g[i] /\ g[i] \in I /\ g[i] \in Nat /\ g[i] <= k /\ q[i] = s[g[i]]
  BY <1>1, <1>2, <1>3, <1>5, <1>6
<1>9. \A i \in DOMAIN q : q[i] = s[h[i]] /\ h[i] <= k + 1
  <2>1. ASSUME NEW i \in 1..m PROVE q[i] = s[h[i]] /\ h[i] <= k + 1
    BY <1>8
  <2>2. q[m + 1] = s[h[m + 1]] /\ h[m + 1] <= k + 1
    BY <1>4, <1>6
  <2> QED BY <2>1, <2>2, <1>4, <1>7
<1>10. ASSUME NEW i \in DOMAIN q, NEW j \in DOMAIN q, i < j PROVE h[i] < h[j]
  <2>1. i \in 1..m
    BY <1>2, <1>4, <1>10
  <2>2. CASE j = m + 1
    BY <2>1, <2>2, <1>6, <1>8
  <2>3. CASE j \in 1..m
    BY <2>1, <2>3, <1>1, <1>2, <1>8, <1>10
  <2> QED BY <2>2, <2>3, <1>4, <1>7
<1>11. ASSUME NEW i \in I, i <= k + 1 PROVE \E j \in DOMAIN q : h[j] = i
  <2>1. CASE i = k + 1
    <3>1. m + 1 \in DOMAIN q
      BY <1>2, <1>4
    <3> QED BY <2>1, <3>1, <1>6
  <2>2. CASE i <= k
    <3>1. PICK j \in 1..m : g[j] = i
      BY <2>2, <1>1, <1>2
    <3>2. j \in 1..(m + 1) /\ h[j] = i
      BY <3>1, <1>2, <1>8
    <3> QED BY <3>2, <1>4
  <2> QED BY <2>1, <2>2, <1>3, <1>11
<1> QED
  <2>1. h \in [DOMAIN q -> I]
    BY <1>4, <1>6
  <2>2. Picks(q, s, I, T, k + 1)
    BY <2>1, <1>4, <1>9, <1>10, <1>11 DEF Picks
  <2> QED BY <2>2 DEF q

(* Selected returns the entries at the places I, in their order. *)
LEMMA SelectedIs ==
  ASSUME NEW T, NEW s \in Seq(T), NEW I \in SUBSET DOMAIN s
  PROVE  Picks(Selected(s, I), s, I, T, Len(s))
<1> DEFINE f == CHOOSE f : Selects(f, s, I, Len(s))
<1>1. Selects(f, s, I, Len(s))
  BY SelectsExists
<1>2. Selected(s, I) = f[Len(s)]
  BY Zenon DEF Selected, Selects
<1> HIDE DEF f
<1>3. f[0] = <<>>
  BY <1>1 DEF Selects
<1>4. ASSUME NEW k \in Nat, k < Len(s)
      PROVE  f[k + 1] = IF k + 1 \in I THEN Append(f[k], s[k + 1]) ELSE f[k]
  <2>1. k + 1 \in 0..Len(s) /\ k + 1 # 0 /\ (k + 1) - 1 = k
    BY <1>4
  <2>2. f[k + 1] = IF k + 1 = 0 THEN <<>> ELSE IF k + 1 \in I THEN Append(f[(k + 1) - 1], s[k + 1]) ELSE f[(k + 1) - 1]
    BY <1>1, <2>1 DEF Selects
  <2> QED BY <2>1, <2>2
<1> DEFINE S == {k \in 0..Len(s) : Picks(f[k], s, I, T, k)}
<1>5. 0 \in S
  BY <1>3, PickNone
<1>6. ASSUME NEW k \in S, k \in Nat, k < Len(s) PROVE k + 1 \in S
  <2>1. Picks(f[k + 1], s, I, T, k + 1)
    BY <1>4, <1>6, PickSkip, PickNext
  <2> QED BY <2>1, <1>6
<1>7. Len(s) \in S
  <2>1. Len(s) \in Nat
    OBVIOUS
  <2> HIDE DEF S
  <2>2. 0..Len(s) \subseteq S
    BY <1>5, <1>6, <2>1, UpTo
  <2> QED BY <2>1, <2>2
<1> QED BY <1>2, <1>7

-----------------------------------------------------------------------------
(* What the operations of a vector list. *)

(* The fields of a tag are those it is made of. *)
LEMMA TagIs ==
  ASSUME NEW t \in Tag
  PROVE  /\ t.by \in Adders /\ t.at \in Nat /\ t.offset \in Nat
         /\ t = [by |-> t.by, at |-> t.at, offset |-> t.offset]
BY DEF Tag

(* An item is in the reader's item that it is divided into. *)
LEMMA DivFacts ==
  ASSUME NEW a \in Nat, NEW r \in Nat \ {0}
  PROVE  /\ a \div r \in Nat
         /\ \A m \in Nat : (a \div r < m) <=> (a < m * r)
         /\ \A m \in Nat : (m <= a \div r) <=> (m * r <= a)
<1>1. a \div r \in Nat
  OBVIOUS
<1>2. ASSUME NEW m \in Nat PROVE (a \div r < m) <=> (a < m * r)
  OBVIOUS
<1>3. ASSUME NEW m \in Nat PROVE (m <= a \div r) <=> (m * r <= a)
  <2>1. m * r \in Nat
    OBVIOUS
  <2> QED BY <1>1, <1>2, <2>1
<1> QED BY <1>1, <1>2, <1>3

(* An entry of a vector is there once. *)
LEMMA EntryOf ==
  ASSUME NEW v, NEW r, Lists(v, r)
  PROVE  /\ DOMAIN v = 1..Len(v) /\ Len(v) \in Nat
         /\ \A i \in DOMAIN v : /\ v[i] \in Tag /\ Key(v[i]) \in Entries(v)
                                /\ Key(v[i]) \in Adders \X Nat
                                /\ Key(v[i])[1] = v[i].by /\ Key(v[i])[2] = v[i].at
         /\ \A a \in Entries(v) : /\ a \in Adders \X Nat
                                  /\ \E i \in DOMAIN v : a = Key(v[i])
<1>1. v \in Seq(Tag)
  BY DEF Lists
<1>2. DOMAIN v = 1..Len(v) /\ Len(v) \in Nat /\ \A i \in DOMAIN v : v[i] \in Tag
  BY <1>1
<1>3. \A i \in DOMAIN v : Key(v[i]) \in Adders \X Nat /\ Key(v[i])[1] = v[i].by /\ Key(v[i])[2] = v[i].at
  BY <1>2, TagIs DEF Key
<1> QED BY <1>2, <1>3 DEF Entries

(* An empty vector lists nothing. *)
LEMMA ListEmpty ==
  ASSUME NEW r
  PROVE  Lists(<<>>, r) /\ Entries(<<>>) = {}
<1>1. <<>> \in Seq(Tag) /\ DOMAIN <<>> = {}
  OBVIOUS
<1> QED BY <1>1 DEF Lists, Entries

(* q has the entries of v and those of w. *)
Joins(q, v, w) == Entries(q) = Entries(v) \cup Entries(w)

(* Two vectors that have no tag in common. *)
LEMMA ListConcat ==
  ASSUME NEW r, NEW v, NEW w, Lists(v, r), Lists(w, r), Entries(v) \cap Entries(w) = {}
  PROVE  Lists(v \o w, r) /\ Joins(v \o w, v, w)
<1> DEFINE q == v \o w
           m == Len(v)
           k == Len(w)
<1>1. v \in Seq(Tag) /\ w \in Seq(Tag)
  BY DEF Lists
<1>2. /\ DOMAIN v = 1..m /\ DOMAIN w = 1..k /\ m \in Nat /\ k \in Nat
      /\ q \in Seq(Tag) /\ DOMAIN q = 1..(m + k)
      /\ \A i \in 1..(m + k) : q[i] = IF i <= m THEN v[i] ELSE w[i - m]
  BY <1>1, ConcatProperties, LenProperties
<1> HIDE DEF q, m, k
<1>3. ASSUME NEW i \in DOMAIN q
      PROVE  (i \in DOMAIN v /\ q[i] = v[i]) \/ (i - m \in DOMAIN w /\ q[i] = w[i - m] /\ i > m)
  BY <1>2
<1>4. \A i \in DOMAIN v : i \in DOMAIN q /\ q[i] = v[i]
  BY <1>2
<1>5. ASSUME NEW i \in DOMAIN w PROVE i + m \in DOMAIN q /\ q[i + m] = w[i]
  <2>1. i + m \in 1..(m + k) /\ ~ (i + m <= m) /\ (i + m) - m = i
    BY <1>2
  <2> QED BY <1>2, <2>1
<1>6. \A i \in DOMAIN q : q[i].offset = q[i].at \div r
  BY <1>3 DEF Lists
<1>7. ASSUME NEW i \in DOMAIN q, NEW j \in DOMAIN q, Key(q[i]) = Key(q[j]) PROVE i = j
  <2>1. CASE i \in DOMAIN v /\ q[i] = v[i] /\ j \in DOMAIN v /\ q[j] = v[j]
    BY <2>1, <1>7 DEF Lists
  <2>2. CASE i - m \in DOMAIN w /\ q[i] = w[i - m] /\ j - m \in DOMAIN w /\ q[j] = w[j - m]
    <3>1. i - m = j - m
      BY <2>2, <1>7 DEF Lists
    <3> QED BY <3>1, <1>2
  <2>3. CASE i \in DOMAIN v /\ q[i] = v[i] /\ j - m \in DOMAIN w /\ q[j] = w[j - m]
    BY <2>3, <1>7 DEF Entries
  <2>4. CASE i - m \in DOMAIN w /\ q[i] = w[i - m] /\ j \in DOMAIN v /\ q[j] = v[j]
    BY <2>4, <1>7 DEF Entries
  <2> QED BY <2>1, <2>2, <2>3, <2>4, <1>3
<1>8. Entries(q) \subseteq Entries(v) \cup Entries(w)
  BY <1>3 DEF Entries
<1>9. Entries(v) \subseteq Entries(q)
  BY <1>4 DEF Entries
<1>10. Entries(w) \subseteq Entries(q)
  BY <1>5 DEF Entries
<1>11. Lists(q, r)
  BY <1>2, <1>6, <1>7 DEF Lists
<1> QED BY <1>8, <1>9, <1>10, <1>11 DEF q, Joins

(* A tag that is not in the vector yet. *)
LEMMA ListAppend ==
  ASSUME NEW r, NEW v, NEW t \in Tag, Lists(v, r),
         t.offset = t.at \div r, Key(t) \notin Entries(v)
  PROVE  Lists(Append(v, t), r) /\ Entries(Append(v, t)) = Entries(v) \cup {Key(t)}
<1> DEFINE q == Append(v, t)
           m == Len(v)
<1>1. /\ DOMAIN v = 1..m /\ m \in Nat
      /\ q \in Seq(Tag) /\ DOMAIN q = 1..(m + 1)
      /\ q[m + 1] = t /\ \A i \in 1..m : q[i] = v[i]
  BY DEF Lists
<1> HIDE DEF q, m
<1>2. \A i \in 1..(m + 1) : i \in 1..m \/ i = m + 1
  BY <1>1
<1>3. m + 1 \in DOMAIN q /\ \A i \in 1..m : i \in DOMAIN q /\ Key(v[i]) \in Entries(v)
  BY <1>1 DEF Entries
<1>4. \A i \in DOMAIN q : q[i].offset = q[i].at \div r
  BY <1>1, <1>2 DEF Lists
<1>5. \A i, j \in DOMAIN q : Key(q[i]) = Key(q[j]) => i = j
  BY <1>1, <1>2, <1>3 DEF Lists
<1>6. Entries(q) \subseteq Entries(v) \cup {Key(t)}
  BY <1>1, <1>2 DEF Entries
<1>7. Entries(v) \subseteq Entries(q) /\ Key(t) \in Entries(q)
  BY <1>1, <1>3 DEF Entries
<1>8. Lists(q, r)
  BY <1>1, <1>4, <1>5 DEF Lists
<1> QED BY <1>6, <1>7, <1>8 DEF q

(* A selection of the entries. *)
LEMMA ListSelect ==
  ASSUME NEW r, NEW v, Lists(v, r), NEW I \in SUBSET DOMAIN v
  PROVE  Lists(Selected(v, I), r) /\ Entries(Selected(v, I)) = {Key(v[i]) : i \in I}
<1> DEFINE q == Selected(v, I)
<1>1. v \in Seq(Tag)
  BY DEF Lists
<1>2. Picks(q, v, I, Tag, Len(v))
  BY <1>1, SelectedIs
<1> HIDE DEF q
<1>3. q \in Seq(Tag) /\ DOMAIN q = 1..Len(q) /\ Len(q) \in Nat
  BY <1>2 DEF Picks
<1>4. PICK g \in [DOMAIN q -> I] :
       /\ \A i \in DOMAIN q : q[i] = v[g[i]] /\ g[i] <= Len(v)
       /\ \A i, j \in DOMAIN q : i < j => g[i] < g[j]
       /\ \A i \in I : i <= Len(v) => \E j \in DOMAIN q : g[j] = i
  BY <1>2 DEF Picks
<1>5. \A i \in I : i \in DOMAIN v /\ i \in Nat /\ i <= Len(v)
  BY <1>1
<1>6. \A i \in DOMAIN q : g[i] \in I /\ g[i] \in DOMAIN v /\ g[i] \in Nat /\ q[i] = v[g[i]]
  BY <1>4, <1>5
<1>7. \A i, j \in DOMAIN q : g[i] = g[j] => i = j
  <2> TAKE i, j \in DOMAIN q
  <2> HAVE g[i] = g[j]
  <2>1. ~ (i < j) /\ ~ (j < i)
    BY <1>4, <1>6
  <2> QED BY <2>1, <1>3
<1>8. \A i \in DOMAIN q : q[i].offset = q[i].at \div r
  BY <1>6 DEF Lists
<1>9. \A i, j \in DOMAIN q : Key(q[i]) = Key(q[j]) => i = j
  BY <1>6, <1>7 DEF Lists
<1>10. Lists(q, r)
  BY <1>3, <1>8, <1>9 DEF Lists
<1>11. Entries(q) \subseteq {Key(v[i]) : i \in I}
  BY <1>6 DEF Entries
<1>12. ASSUME NEW i \in I PROVE Key(v[i]) \in Entries(q)
  <2>1. PICK j \in DOMAIN q : g[j] = i
    BY <1>4, <1>5
  <2> QED BY <2>1, <1>6 DEF Entries
<1> QED BY <1>10, <1>11, <1>12 DEF q

(* A sequence from its entries. *)
LEMMA IsASeqOf ==
  ASSUME NEW T, NEW m \in Nat, NEW q, q = [i \in 1..m |-> q[i]], \A i \in 1..m : q[i] \in T
  PROVE  q \in Seq(T)
<1>1. q \in [1..m -> T]
  OBVIOUS
<1> QED BY <1>1

(* SetToSeq lists the elements of a finite set, each once. *)
LEMMA SetToSeqIs ==
  ASSUME NEW S, IsFiniteSet(S)
  PROVE  /\ Cardinality(S) \in Nat
         /\ SetToSeq(S) \in [1..Cardinality(S) -> S]
         /\ \A i, j \in 1..Cardinality(S) : SetToSeq(S)[i] = SetToSeq(S)[j] => i = j
         /\ \A x \in S : \E i \in 1..Cardinality(S) : SetToSeq(S)[i] = x
<1> DEFINE m == Cardinality(S)
           f == SetToSeq(S)
<1>1. m \in Nat /\ ExistsBijection(1..m, S)
  BY FS_CardinalityType
<1>2. PICK h : h \in Bijection(1..m, S)
  BY <1>1 DEF ExistsBijection
<1>3. h \in [1..m -> S] /\ IsInjective(h)
  BY <1>2 DEF Bijection, Injection
<1>4. f \in [1..m -> S] /\ IsInjective(f)
  BY <1>3 DEF SetToSeq
<1>5. IsFiniteSet(1..m) /\ Cardinality(1..m) = m
  <2> HIDE DEF m
  <2>1. m \in Int /\ 1 \in Int
    BY <1>1
  <2>2. IsFiniteSet(1..m) /\ Cardinality(1..m) = IF 1 > m THEN 0 ELSE m - 1 + 1
    BY <2>1, FS_Interval
  <2> QED BY <2>2, <1>1
<1>6. f \in Injection(1..m, S)
  BY <1>4 DEF Injection
<1>7. f \in Surjection(1..m, S)
  <2> HIDE DEF f
  <2> QED BY <1>5, <1>6, FS_Injection
<1> HIDE DEF m, f
<1>8. \A i, j \in 1..m : f[i] = f[j] => i = j
  BY <1>4 DEF IsInjective
<1>9. \A x \in S : \E i \in 1..m : f[i] = x
  BY <1>7 DEF Surjection
<1> QED BY <1>1, <1>4, <1>8, <1>9 DEF m, f

(* The tags that are added to items, in front of nothing. *)
NewTags(by, items) ==
  [i \in 1..Cardinality(items) |->
     LET at == SetToSeq(items)[i] IN [by |-> by, at |-> at, offset |-> at]]

(* They are listed, with the items. *)
LEMMA ListNew ==
  ASSUME NEW by \in Adders, NEW items \in SUBSET Nat, IsFiniteSet(items)
  PROVE  /\ Lists(NewTags(by, items), 1)
         /\ Entries(NewTags(by, items)) = {<<by, i>> : i \in items}
<1> DEFINE m == Cardinality(items)
           f == SetToSeq(items)
           q == NewTags(by, items)
<1>1. /\ m \in Nat /\ f \in [1..m -> items]
      /\ \A i, j \in 1..m : f[i] = f[j] => i = j
      /\ \A x \in items : \E i \in 1..m : f[i] = x
  BY SetToSeqIs
<1>2. q = [i \in 1..m |-> [by |-> by, at |-> f[i], offset |-> f[i]]]
  BY DEF NewTags
<1> HIDE DEF m, f, q
<1>3. \A i \in 1..m : f[i] \in Nat /\ f[i] \in items /\ [by |-> by, at |-> f[i], offset |-> f[i]] \in Tag
  BY <1>1 DEF Tag
<1>4. q \in Seq(Tag) /\ DOMAIN q = 1..m
  BY <1>1, <1>2, <1>3
<1>5. \A i \in 1..m : q[i].by = by /\ q[i].at = f[i] /\ q[i].offset = f[i]
  BY <1>2
<1>6. \A i \in 1..m : q[i].offset = q[i].at \div 1
  <2>1. \A k \in Nat : k \div 1 = k
    OBVIOUS
  <2> QED BY <2>1, <1>3, <1>5
<1>7. \A i \in 1..m : Key(q[i]) = <<by, f[i]>>
  BY <1>5 DEF Key
<1>8. \A i, j \in 1..m : Key(q[i]) = Key(q[j]) => i = j
  BY <1>1, <1>7
<1>9. Lists(q, 1)
  BY <1>4, <1>6, <1>8 DEF Lists
<1>10. Entries(q) = {<<by, i>> : i \in items}
  <2>1. \A a \in Entries(q) : a \in {<<by, i>> : i \in items}
    BY <1>3, <1>4, <1>7 DEF Entries
  <2>2. \A x \in items : <<by, x>> \in Entries(q)
    <3> TAKE x \in items
    <3>1. PICK i \in 1..m : f[i] = x
      BY <1>1
    <3>2. Key(q[i]) \in Entries(q)
      BY <1>4 DEF Entries
    <3> QED BY <3>1, <3>2, <1>7
  <2> QED BY <2>1, <2>2
<1> QED BY <1>9, <1>10 DEF q

(* add_tag: to items that had no tag of the adder. *)
LEMMA ListAdded ==
  ASSUME NEW b, NEW by \in Adders, NEW items \in SUBSET Nat, IsFiniteSet(items),
         Lists(tags[b], 1), \A i \in items : <<by, i>> \notin Entries(tags[b])
  PROVE  /\ Lists(Added(b, by, items), 1)
         /\ Entries(Added(b, by, items)) = Entries(tags[b]) \cup {<<by, i>> : i \in items}
<1>1. Added(b, by, items) = tags[b] \o NewTags(by, items)
  BY Zenon DEF Added, NewTags
<1>2. Lists(NewTags(by, items), 1) /\ Entries(NewTags(by, items)) = {<<by, i>> : i \in items}
  BY ListNew
<1>3. Entries(tags[b]) \cap Entries(NewTags(by, items)) = {}
  BY <1>2
<1>4. /\ Lists(tags[b] \o NewTags(by, items), 1)
      /\ Entries(tags[b] \o NewTags(by, items)) = Entries(tags[b]) \cup Entries(NewTags(by, items))
  <2> DEFINE v == tags[b]
             w == NewTags(by, items)
  <2>1. Lists(v, 1) /\ Lists(w, 1) /\ Entries(v) \cap Entries(w) = {}
    BY <1>2, <1>3
  <2> HIDE DEF v, w
  <2>2. Lists(v \o w, 1) /\ Joins(v \o w, v, w)
    BY <2>1, ListConcat
  <2> QED BY <2>2 DEF v, w, Joins
<1> QED BY <1>1, <1>2, <1>4

(* The tags with the offset that they have for a reader. *)
Own(v, rate) == [i \in DOMAIN v |-> [v[i] EXCEPT !.offset = @ \div rate]]

(* They are the same tags. *)
LEMMA ListOwn ==
  ASSUME NEW v, NEW rate \in Nat \ {0}, Lists(v, 1)
  PROVE  /\ Lists(Own(v, rate), rate) /\ DOMAIN Own(v, rate) = DOMAIN v
         /\ \A i \in DOMAIN v : /\ Key(Own(v, rate)[i]) = Key(v[i])
                                /\ Own(v, rate)[i].offset = v[i].at \div rate
<1> DEFINE q == Own(v, rate)
<1>1. /\ DOMAIN v = 1..Len(v) /\ Len(v) \in Nat
      /\ \A i \in DOMAIN v : v[i] \in Tag
  BY EntryOf
<1>2. \A i \in DOMAIN v : v[i].at \in Nat /\ v[i].offset = v[i].at
  BY <1>1, TagIs DEF Lists
<1>3. DOMAIN q = DOMAIN v /\ \A i \in DOMAIN v : q[i] = [v[i] EXCEPT !.offset = v[i].offset \div rate]
  BY DEF Own
<1>4. ASSUME NEW i \in DOMAIN v
      PROVE  /\ q[i].by = v[i].by /\ q[i].at = v[i].at /\ q[i].offset = v[i].at \div rate
             /\ q[i] \in Tag
  <2>1. v[i] = [by |-> v[i].by, at |-> v[i].at, offset |-> v[i].offset] /\ v[i].by \in Adders
    BY <1>1, TagIs
  <2>2. q[i] = [by |-> v[i].by, at |-> v[i].at, offset |-> v[i].at \div rate]
    BY <1>1, <1>2, <1>3, <2>1 DEF Tag
  <2>3. v[i].at \div rate \in Nat
    BY <1>2, DivFacts
  <2> HIDE DEF q
  <2> QED BY <1>2, <2>1, <2>2, <2>3 DEF Tag
<1> HIDE DEF q
<1>5. q \in Seq(Tag)
  <2>1. q = [i \in 1..Len(v) |-> q[i]]
    <3>1. q = [i \in DOMAIN v |-> q[i]]
      BY DEF q, Own
    <3> QED BY <3>1, <1>1
  <2> QED BY <2>1, <1>1, <1>4, IsASeqOf
<1>6. \A i \in DOMAIN v : Key(q[i]) = Key(v[i])
  BY <1>4 DEF Key
<1>7. Lists(q, rate)
  BY <1>3, <1>4, <1>5, <1>6 DEF Lists
<1> QED BY <1>3, <1>4, <1>6, <1>7 DEF q

(* q has those of the entries of v that are in the window. *)
InRange(q, v, rate, first, last) ==
  Entries(q) = {a \in Entries(v) : first <= a[2] \div rate /\ a[2] \div rate < last}

(* tags_in_window: the tags of the items in the window, with the offset that
   they have for the reader. *)
LEMMA ListWindow ==
  ASSUME NEW b, NEW rate \in Nat \ {0}, NEW first \in Nat, NEW last \in Nat,
         Lists(tags[b], 1)
  PROVE  /\ Lists(InWindow(b, rate, first, last), rate)
         /\ InRange(InWindow(b, rate, first, last), tags[b], rate, first, last)
<1> DEFINE v == tags[b]
           q == Own(v, rate)
           I == {i \in DOMAIN q : q[i].offset >= first /\ q[i].offset < last}
<1>1. InWindow(b, rate, first, last) = Selected(q, I)
  BY DEF InWindow, Own
<1>2. /\ Lists(q, rate) /\ DOMAIN q = DOMAIN v
      /\ \A i \in DOMAIN v : Key(q[i]) = Key(v[i]) /\ q[i].offset = v[i].at \div rate
  BY ListOwn
<1> HIDE DEF q
<1>3. Lists(Selected(q, I), rate) /\ Entries(Selected(q, I)) = {Key(q[i]) : i \in I}
  BY <1>2, ListSelect
<1>4. /\ \A i \in DOMAIN v : /\ Key(v[i]) \in Entries(v) /\ Key(v[i])[2] = v[i].at
                             /\ v[i].at \div rate \in Nat
      /\ \A a \in Entries(v) : \E i \in DOMAIN v : a = Key(v[i])
  BY EntryOf, TagIs, DivFacts
<1> HIDE DEF v
<1>5. I = {i \in DOMAIN v : first <= v[i].at \div rate /\ v[i].at \div rate < last}
  BY <1>2, <1>4
<1> HIDE DEF I
<1>6. {Key(q[i]) : i \in I} = {a \in Entries(v) : first <= a[2] \div rate /\ a[2] \div rate < last}
  BY <1>2, <1>4, <1>5
<1> QED BY <1>1, <1>3, <1>6 DEF v, InRange

(* prune_tags: the tags from an offset on. *)
LEMMA ListPrune ==
  ASSUME NEW v, NEW m \in Nat, Lists(v, 1)
  PROVE  LET q == Selected(v, {i \in DOMAIN v : v[i].offset >= m}) IN
         Lists(q, 1) /\ Entries(q) = {a \in Entries(v) : a[2] >= m}
<1> DEFINE I == {i \in DOMAIN v : v[i].offset >= m}
<1>1. Lists(Selected(v, I), 1) /\ Entries(Selected(v, I)) = {Key(v[i]) : i \in I}
  BY ListSelect
<1>2. /\ \A i \in DOMAIN v : /\ Key(v[i]) \in Entries(v) /\ Key(v[i])[2] = v[i].at
                             /\ v[i].at \in Nat /\ v[i].offset = v[i].at \div 1
      /\ \A a \in Entries(v) : \E i \in DOMAIN v : a = Key(v[i])
  BY EntryOf, TagIs DEF Lists
<1>3. \A i \in DOMAIN v : v[i].offset = Key(v[i])[2]
  BY <1>2
<1>4. {Key(v[i]) : i \in I} = {a \in Entries(v) : a[2] >= m}
  BY <1>2, <1>3
<1> QED BY <1>1, <1>4

-----------------------------------------------------------------------------
(* What the invariant says of the numbers. *)

(* The actors have names of their own. *)
LEMMA ActorFacts ==
  /\ "block" \in Readers /\ "block" \in Actors /\ "source" \in Actors
  /\ "source" \notin Readers /\ Sinks # {}
  /\ "in" \in Buffers /\ "out" \in Buffers /\ "source" \in Adders /\ "block" \in Adders
  /\ \A b \in Buffers : b = "in" \/ b = "out"
  /\ \A s \in Sinks : /\ s # "source" /\ s # "block" /\ s \in Readers /\ s \in Actors
                      /\ Rate[s] \in Nat \ {0}
  /\ \A a \in Actors : a = "source" \/ a = "block" \/ a \in Sinks
  /\ \A r \in Readers : r \in Actors /\ (r = "block" \/ r \in Sinks)
BY TagAssumption DEF Readers, Actors, Buffers, Adders

(* The numbers, and how they are ordered. *)
LEMMA Facts ==
  ASSUME IInv
  PROVE  /\ written["in"] \in Nat /\ written["out"] \in Nat
         /\ read["block"] \in Nat /\ n["source"] \in Nat /\ n["block"] \in Nat
         /\ BlockEnd \in Nat /\ written["out"] <= BlockEnd /\ BlockEnd <= written["in"]
         /\ written["out"] <= read["block"] /\ read["block"] <= BlockEnd
         /\ \A s \in Sinks : /\ read[s] \in Nat /\ n[s] \in Nat /\ Given(s) \in Nat
                             /\ read[s] <= Given(s) /\ Given(s) * Rate[s] <= written["out"]
         /\ \A a \in added : /\ a \in Adders \X Nat /\ a = <<a[1], a[2]>> /\ a[2] \in Nat
                             /\ a[1] = "source" \/ a[1] = "block"
<1>1. TypeOK /\ IndicesAgree
  BY DEF IInv
<1>2. /\ written["in"] \in Nat /\ written["out"] \in Nat
      /\ read["block"] \in Nat /\ n["source"] \in Nat /\ n["block"] \in Nat
  BY <1>1, ActorFacts DEF TypeOK
<1>3. BlockEnd \in Nat /\ written["out"] <= BlockEnd
  BY <1>2 DEF BlockEnd
<1>4. BlockEnd <= written["in"] /\ written["out"] <= read["block"] /\ read["block"] <= BlockEnd
  BY <1>1, <1>2, <1>3 DEF IndicesAgree
<1>5. ASSUME NEW s \in Sinks
      PROVE  /\ read[s] \in Nat /\ n[s] \in Nat /\ Given(s) \in Nat
             /\ read[s] <= Given(s) /\ Given(s) * Rate[s] <= written["out"]
  <2>1. read[s] \in Nat /\ n[s] \in Nat
    BY <1>1, ActorFacts DEF TypeOK
  <2>2. Given(s) \in Nat /\ read[s] <= Given(s)
    BY <2>1 DEF Given
  <2> QED BY <1>1, <2>1, <2>2 DEF IndicesAgree
<1>6. \A a \in added : /\ a \in Adders \X Nat /\ a = <<a[1], a[2]>> /\ a[2] \in Nat
                       /\ a[1] = "source" \/ a[1] = "block"
  BY <1>1 DEF TypeOK, Adders
<1> QED BY <1>2, <1>3, <1>4, <1>5, <1>6

(* An item that has not been posted to the output has been given to no sink. *)
LEMMA NotGiven ==
  ASSUME IInv, NEW s \in Sinks, NEW i \in Nat, written["out"] <= i
  PROVE  ~ (i \div Rate[s] < Given(s))
<1>1. /\ Given(s) \in Nat /\ Given(s) * Rate[s] <= written["out"] /\ Rate[s] \in Nat \ {0}
      /\ written["out"] \in Nat
  BY Facts, ActorFacts
<1>2. (i \div Rate[s] < Given(s)) <=> (i < Given(s) * Rate[s])
  BY <1>1, DivFacts
<1>3. Given(s) * Rate[s] \in Nat
  BY <1>1
<1> QED BY <1>1, <1>2, <1>3

(* Nothing is pruned that a reader has still to read. *)
LEMMA PruneFacts ==
  ASSUME IInv
  PROVE  /\ AllHaveRead("in") \in Nat /\ AllHaveRead("in") <= read["block"]
         /\ AllHaveRead("out") \in Nat /\ \A s \in Sinks : AllHaveRead("out") <= read[s]
<1> DEFINE S(b) == {written[b]} \cup {read[r] : r \in ReadersOf(b)}
<1>1. /\ S("in") \in SUBSET Nat /\ S("in") # {} /\ read["block"] \in S("in")
  BY Facts DEF ReadersOf
<1>2. /\ S("out") \in SUBSET Nat /\ S("out") # {} /\ \A s \in Sinks : read[s] \in S("out")
  BY Facts DEF ReadersOf
<1>3. AllHaveRead("in") = Lowest(S("in")) /\ AllHaveRead("out") = Lowest(S("out"))
  BY DEF AllHaveRead
<1> HIDE DEF S
<1>4. Lowest(S("in")) \in S("in") /\ \A y \in S("in") : Lowest(S("in")) <= y
  BY <1>1, LowestIs
<1>5. Lowest(S("out")) \in S("out") /\ \A y \in S("out") : Lowest(S("out")) <= y
  BY <1>2, LowestIs
<1> QED BY <1>1, <1>2, <1>3, <1>4, <1>5

(* Work adds tags to items of a window, a finite set. *)
LEMMA WindowFinite ==
  ASSUME NEW i \in Nat, NEW k \in Nat, NEW items \in SUBSET (i..(i + k - 1))
  PROVE  /\ IsFiniteSet(items) /\ items \in SUBSET Nat
         /\ \A x \in items : x \in Nat /\ i <= x /\ x < i + k
<1>1. i \in Int /\ i + k - 1 \in Int
  OBVIOUS
<1>2. IsFiniteSet(i..(i + k - 1))
  BY <1>1, FS_Interval
<1>3. IsFiniteSet(items)
  BY <1>2, FS_Subset
<1> QED BY <1>3

-----------------------------------------------------------------------------
(* Init, and each of the actions. *)

(* Initially all is empty. *)
LEMMA InitOK ==
  ASSUME Init
  PROVE  IInv
<1>1. TypeOK
  BY ActorFacts DEF Init, TypeOK, Places
<1>2. BlockEnd = 0 /\ SourceEnd = 0
  BY ActorFacts DEF Init, BlockEnd, SourceEnd
<1>3. \A s \in Sinks : Given(s) = 0 /\ Given(s) * Rate[s] = 0 /\ pc[s] = "idle"
  BY ActorFacts DEF Init, Given
<1>4. IndicesAgree
  BY <1>2, <1>3, ActorFacts DEF Init, IndicesAgree
<1>5. AddedInOrder
  BY DEF Init, AddedInOrder
<1>6. tags["in"] = <<>> /\ tags["out"] = <<>> /\ added = {} /\ pc["block"] = "idle"
  BY ActorFacts DEF Init
<1>7. InputListed
  BY <1>6, ListEmpty DEF InputListed, Walking
<1>8. OutputListed
  BY <1>6, ListEmpty DEF OutputListed, Moved
<1>9. \A s \in Sinks : seen[s] = <<>>
  BY DEF Init
<1>10. GivenListed
  BY <1>6, <1>9, ListEmpty DEF GivenListed
<1> QED BY <1>1, <1>4, <1>5, <1>7, <1>8, <1>10 DEF IInv

(* A work call that adds no tags leaves the vector as it is. *)
LEMMA AddedNone ==
  ASSUME NEW b \in Buffers, tags[b] \in Seq(Tag), NEW by
  PROVE  Added(b, by, {}) = tags[b]
<1> DEFINE none == [i \in 1..Cardinality({}) |->
              LET at == SetToSeq({})[i] IN [by |-> by, at |-> at, offset |-> at]]
<1>1. Cardinality({}) = 0
  BY FS_EmptySet
<1>2. none = <<>>
  BY <1>1
<1>3. Added(b, by, {}) = tags[b] \o none
  BY DEF Added
<1> HIDE DEF none
<1> QED BY <1>2, <1>3

(* The source adds tags to items that it has not written before. *)
LEMMA SourceWorkOK ==
  ASSUME IInv, ~ disturbed', NEW k \in 1..Capacity, NEW items \in SUBSET (0..(MaxItems - 1)),
         SourceWork(k, items)
  PROVE  IInv'
<1> DEFINE N == {<<"source", i>> : i \in items}
<1>1. TypeOK /\ IndicesAgree /\ AddedInOrder /\ InputListed /\ OutputListed /\ GivenListed
  BY DEF IInv
<1>2. pc["source"] = "idle" /\ k \in Nat /\ (Walking => items = {})
  <2>1. pc["source"] = "idle" /\ disturbed' = (disturbed \/ (Walking /\ items # {}))
    BY DEF SourceWork
  <2>2. k \in Nat
    BY TagAssumption
  <2> QED BY <2>1, <2>2
<1>3. /\ tags' = [tags EXCEPT !["in"] = Added("in", "source", items)]
      /\ added' = added \cup N
      /\ n' = [n EXCEPT !["source"] = k]
      /\ pc' = [pc EXCEPT !["source"] = "post_write"]
      /\ written' = written /\ read' = read /\ next' = next /\ seen' = seen
  BY DEF SourceWork
<1>4. /\ IsFiniteSet(items) /\ items \in SUBSET Nat
      /\ \A x \in items : x \in Nat /\ written["in"] <= x /\ x < written["in"] + k
  <2>1. items \in SUBSET (written["in"]..(written["in"] + k - 1))
    BY DEF SourceWork
  <2> QED BY <1>2, <2>1, Facts, WindowFinite
<1>5. SourceEnd = written["in"] /\ SourceEnd' = written["in"] + k
  BY <1>1, <1>2, <1>3, Facts, ActorFacts DEF SourceEnd, TypeOK
<1>6. BlockEnd' = BlockEnd /\ pc'["block"] = pc["block"]
  BY <1>1, <1>3, ActorFacts DEF BlockEnd, TypeOK
<1>7. \A s \in Sinks : Given(s)' = Given(s) /\ pc'[s] = pc[s]
  BY <1>1, <1>3, ActorFacts DEF Given, TypeOK
<1>8. tags'["in"] = Added("in", "source", items) /\ tags'["out"] = tags["out"]
  BY <1>1, <1>3, ActorFacts DEF TypeOK
<1>9. \A i \in items : <<"source", i>> \notin Entries(tags["in"])
  <2>1. \A i \in items : <<"source", i>> \notin added
    BY <1>1, <1>4, <1>5, Facts DEF AddedInOrder
  <2> QED BY <1>1, <2>1 DEF InputListed
<1>10. /\ Lists(tags["in"]', 1)
       /\ Entries(tags["in"]') = Entries(tags["in"]) \cup N
  BY <1>1, <1>4, <1>8, <1>9, ListAdded, ActorFacts DEF InputListed
<1>11. \A a \in N : /\ a[1] = "source" /\ a[2] \in Nat /\ a \in Adders \X Nat
                    /\ written["in"] <= a[2] /\ a[2] < written["in"] + k
  BY <1>4, ActorFacts
<1> HIDE DEF N
<1>19. (Walking' <=> Walking) /\ (Walking => tags'["in"] = tags["in"])
  BY <1>1, <1>2, <1>3, <1>6, <1>8, AddedNone, ActorFacts DEF Walking, InputListed, Lists
<1>12. TypeOK'
  <2>1. added' \subseteq Adders \X Nat
    BY <1>1, <1>3, <1>11 DEF TypeOK
  <2>2. tags' \in [Buffers -> Seq(Tag)]
    BY <1>1, <1>3, <1>8, <1>10 DEF TypeOK, Lists
  <2>3. n' \in [Actors -> Nat] /\ pc' \in [Actors -> Places]
    BY <1>1, <1>2, <1>3 DEF TypeOK, Places
  <2> QED BY <1>1, <1>3, <2>1, <2>2, <2>3 DEF TypeOK
<1>13. IndicesAgree'
  BY <1>1, <1>2, <1>3, <1>6, <1>7, ActorFacts DEF IndicesAgree, TypeOK
<1>14. AddedInOrder'
  BY <1>1, <1>3, <1>5, <1>6, <1>11, Facts DEF AddedInOrder
<1>15. InputListed'
  <2>1. \A a \in Entries(tags["in"]') : a \in added' /\ a[1] = "source"
    BY <1>1, <1>3, <1>10, <1>11 DEF InputListed
  <2>2. \A a \in added' : a[1] = "source" /\ a[2] >= read'["block"] => a \in Entries(tags["in"]')
    BY <1>1, <1>3, <1>10 DEF InputListed
  <2>3. pc'["block"] = "propagate" => next'.at \in 1..next'.end
    BY <1>1, <1>3, <1>6 DEF InputListed
  <2>4. Walking' => next'.end = EndOf("in")'
    BY <1>1, <1>3, <1>19 DEF InputListed, EndOf
  <2> QED BY <1>10, <2>1, <2>2, <2>3, <2>4 DEF InputListed
<1>16. Moved' = Moved
  <2>1. \A a \in N : a \notin Moved'
    BY <1>3, <1>6, <1>11, Facts DEF Moved
  <2>2. CASE Walking
    BY <1>3, <1>6, <1>19, <2>1, <2>2 DEF Moved
  <2>3. CASE ~ Walking
    <3>1. pc["block"] = "propagate" => next.at = next.end
      BY <1>1, <2>3 DEF Walking, InputListed, TypeOK
    <3> QED BY <1>3, <1>6, <2>1, <3>1 DEF Moved
  <2> QED BY <2>2, <2>3
<1>17. OutputListed'
  BY <1>1, <1>3, <1>8, <1>16 DEF OutputListed
<1>18. GivenListed'
  <2>1. \A s \in Sinks : \A a \in N : ~ (a[2] \div Rate[s] < Given(s))
    BY <1>11, NotGiven, Facts
  <2> QED BY <1>1, <1>3, <1>7, <2>1 DEF GivenListed
<1> QED BY <1>12, <1>13, <1>14, <1>15, <1>17, <1>18 DEF IInv

(* The block adds tags to items that it has not written before. *)
LEMMA BlockWorkOK ==
  ASSUME IInv, NEW k \in 1..Capacity, NEW items \in SUBSET (0..(MaxItems - 1)),
         BlockWork(k, items)
  PROVE  IInv'
<1> DEFINE N == {<<"block", i>> : i \in items}
<1>1. TypeOK /\ IndicesAgree /\ AddedInOrder /\ InputListed /\ OutputListed /\ GivenListed
  BY DEF IInv
<1>2. pc["block"] = "idle" /\ k \in Nat
  BY TagAssumption DEF BlockWork
<1>3. /\ tags' = [tags EXCEPT !["out"] = Added("out", "block", items)]
      /\ added' = added \cup N
      /\ n' = [n EXCEPT !["block"] = k]
      /\ next' = [at |-> 1, end |-> EndOf("in")]
      /\ pc' = [pc EXCEPT !["block"] = "propagate"]
      /\ written' = written /\ read' = read /\ seen' = seen
      /\ k <= written["in"] - read["block"]
  BY DEF BlockWork
<1>4. /\ IsFiniteSet(items) /\ items \in SUBSET Nat
      /\ \A x \in items : x \in Nat /\ written["out"] <= x /\ x < written["out"] + k
  <2>1. items \in SUBSET (written["out"]..(written["out"] + k - 1))
    BY DEF BlockWork
  <2> QED BY <1>2, <2>1, Facts, WindowFinite
<1>5. SourceEnd' = SourceEnd
  BY <1>1, <1>2, <1>3, Facts, ActorFacts DEF SourceEnd, TypeOK
<1>6. /\ BlockEnd = written["out"] /\ BlockEnd' = written["out"] + k
      /\ pc'["block"] = "propagate" /\ pc'["source"] = pc["source"]
      /\ read["block"] = written["out"]
  BY <1>1, <1>2, <1>3, Facts, ActorFacts DEF BlockEnd, TypeOK, IndicesAgree
<1>7. \A s \in Sinks : Given(s)' = Given(s) /\ pc'[s] = pc[s]
  BY <1>1, <1>3, ActorFacts DEF Given, TypeOK
<1>8. tags'["out"] = Added("out", "block", items) /\ tags'["in"] = tags["in"]
  BY <1>1, <1>3, ActorFacts DEF TypeOK
<1>9. \A i \in items : <<"block", i>> \notin Entries(tags["out"])
  <2>1. \A i \in items : <<"block", i>> \notin added
    BY <1>1, <1>4, <1>6, Facts DEF AddedInOrder
  <2> QED BY <1>1, <2>1 DEF OutputListed, Moved
<1>10. /\ Lists(tags["out"]', 1)
       /\ Entries(tags["out"]') = Entries(tags["out"]) \cup N
  BY <1>1, <1>4, <1>8, <1>9, ListAdded, ActorFacts DEF OutputListed
<1>11. \A a \in N : /\ a[1] = "block" /\ a[2] \in Nat /\ a \in Adders \X Nat
                    /\ written["out"] <= a[2] /\ a[2] < written["out"] + k
  <2> SUFFICES ASSUME NEW a \in N
               PROVE  /\ a[1] = "block" /\ a[2] \in Nat /\ a \in Adders \X Nat
                      /\ written["out"] <= a[2] /\ a[2] < written["out"] + k
    OBVIOUS
  <2>1. PICK i \in items : a = <<"block", i>>
    OBVIOUS
  <2> QED BY <1>4, <2>1, ActorFacts
<1>12. EndOf("in") \in Nat /\ EndOf("in") >= 1 /\ EndOf("in")' = EndOf("in")
       /\ next'.at = 1 /\ next'.end = EndOf("in")
  BY <1>1, <1>3, <1>8, EntryOf DEF InputListed, EndOf
<1> HIDE DEF N
<1>13. TypeOK'
  <2>1. added' \subseteq Adders \X Nat
    BY <1>1, <1>3, <1>11 DEF TypeOK
  <2>2. tags' \in [Buffers -> Seq(Tag)]
    BY <1>1, <1>3, <1>8, <1>10 DEF TypeOK, Lists
  <2>3. n' \in [Actors -> Nat] /\ pc' \in [Actors -> Places]
    BY <1>1, <1>2, <1>3 DEF TypeOK, Places
  <2>4. next' \in [at : Nat, end : Nat]
    BY <1>3, <1>12
  <2> QED BY <1>1, <1>3, <2>1, <2>2, <2>3, <2>4 DEF TypeOK
<1>14. IndicesAgree'
  <2>1. BlockEnd' <= written["in"]
    BY <1>2, <1>3, <1>6, Facts
  <2> QED BY <1>1, <1>2, <1>3, <1>6, <1>7, <2>1, ActorFacts DEF IndicesAgree
<1>15. AddedInOrder'
  BY <1>1, <1>2, <1>3, <1>5, <1>6, <1>11, Facts DEF AddedInOrder
<1>16. InputListed'
  <2>1. \A a \in Entries(tags["in"]') : a \in added' /\ a[1] = "source"
    BY <1>1, <1>3, <1>8 DEF InputListed
  <2>2. \A a \in added' : a[1] = "source" /\ a[2] >= read'["block"] => a \in Entries(tags["in"]')
    BY <1>1, <1>3, <1>8, <1>11 DEF InputListed
  <2>3. next'.at \in 1..next'.end /\ next'.end = EndOf("in")'
    BY <1>12
  <2> QED BY <1>1, <1>8, <2>1, <2>2, <2>3 DEF InputListed
<1>17. Moved' = Moved \cup N
  <2>1. \A j \in DOMAIN tags'["in"] : ~ (j < next'.at)
    BY <1>1, <1>8, <1>12, EntryOf DEF InputListed
  <2>2. ASSUME next'.at = next'.end, NEW a \in added, a[1] = "source"
        PROVE  a[2] < written["out"]
    <3>1. Entries(tags["in"]) = {}
      BY <1>1, <1>12, <2>2, EntryOf DEF InputListed, EndOf
    <3> QED BY <1>1, <1>6, <2>2, <3>1, Facts DEF InputListed
  <2>3. ASSUME NEW a \in added PROVE a \in Moved' <=> a \in Moved
    BY <1>2, <1>3, <1>6, <2>1, <2>2, Facts DEF Moved
  <2>4. ASSUME NEW a \in N PROVE a \in Moved'
    BY <1>3, <1>11 DEF Moved
  <2>5. Moved' \subseteq added' /\ Moved \subseteq added
    BY DEF Moved
  <2> QED BY <1>3, <2>3, <2>4, <2>5
<1>18. OutputListed'
  BY <1>1, <1>3, <1>10, <1>17 DEF OutputListed
<1>19. GivenListed'
  <2>1. \A s \in Sinks : \A a \in N : ~ (a[2] \div Rate[s] < Given(s))
    BY <1>11, NotGiven, Facts
  <2> QED BY <1>1, <1>3, <1>7, <2>1 DEF GivenListed
<1> QED BY <1>13, <1>14, <1>15, <1>16, <1>18, <1>19 DEF IInv

(* propagate_tags: a tag of the processed window that was not moved before. *)
LEMMA PropagateOneOK ==
  ASSUME IInv, PropagateOne
  PROVE  IInv'
<1> DEFINE t == tags["in"][next.at]
<1>1. TypeOK /\ IndicesAgree /\ AddedInOrder /\ InputListed /\ OutputListed /\ GivenListed
  BY DEF IInv
<1>2. /\ pc["block"] = "propagate" /\ next.at < next.end
      /\ next' = [next EXCEPT !.at = @ + 1]
      /\ written' = written /\ read' = read /\ pc' = pc /\ n' = n
      /\ added' = added /\ seen' = seen
  BY DEF PropagateOne
<1>3. /\ next.at \in DOMAIN tags["in"] /\ next.at \in Nat /\ next.at >= 1
      /\ next.end = EndOf("in") /\ next.end \in Nat
  BY <1>1, <1>2, EntryOf DEF InputListed, EndOf, Walking
<1>4. next' = [at |-> next.at + 1, end |-> next.end]
  BY <1>1, <1>2 DEF TypeOK
<1>5. next' \in [at : Nat, end : Nat]
  BY <1>3, <1>4
<1>6. /\ Lists(tags["in"], 1) /\ t \in Tag /\ Key(t) \in Entries(tags["in"])
      /\ Key(t)[1] = "source" /\ Key(t)[2] = t.at /\ Key(t) \in added
      /\ t.at \in Nat /\ t.offset = t.at \div 1 /\ t.offset = t.at
  <2>1. Lists(tags["in"], 1)
    BY <1>1 DEF InputListed
  <2>2. t \in Tag /\ Key(t) \in Entries(tags["in"]) /\ Key(t)[2] = t.at
    BY <1>3, <2>1, EntryOf
  <2>3. t.at \in Nat /\ t.offset = t.at \div 1
    BY <1>3, <2>1, <2>2, TagIs DEF Lists
  <2> QED BY <1>1, <2>1, <2>2, <2>3 DEF InputListed
<1>7. /\ BlockEnd' = BlockEnd /\ SourceEnd' = SourceEnd /\ \A s \in Sinks : Given(s)' = Given(s)
      /\ BlockEnd = written["out"] + n["block"]
  BY <1>2 DEF BlockEnd, SourceEnd, Given
<1>8. tags' = IF IsProcessed(t) THEN [tags EXCEPT !["out"] = Append(tags["out"], t)] ELSE tags
  BY <1>1, <1>3, ActorFacts DEF PropagateOne, TypeOK
<1>9. tags'["in"] = tags["in"]
  BY <1>1, <1>8, ActorFacts DEF TypeOK
<1>10. \A j \in DOMAIN tags["in"] : /\ j \in Nat
                                    /\ (j < next'.at) <=> (j < next.at \/ j = next.at)
                                    /\ Key(tags["in"][j]) = Key(t) => j = next.at
  BY <1>3, <1>4, <1>6, EntryOf DEF Lists
<1>11. (IsProcessed(t) <=> written["out"] <= Key(t)[2] /\ Key(t)[2] < BlockEnd)
  BY <1>6, <1>7, Facts DEF IsProcessed
<1> HIDE DEF t
<1>12. \A a \in added : a \in Moved' <=> a \in Moved \/ (a = Key(t) /\ a[2] < BlockEnd)
  <2>1. ASSUME next.at + 1 = next.end, NEW a \in added, a[1] = "source",
               ~ (a[2] < written["out"])
        PROVE  \E j \in DOMAIN tags["in"] : j < next.at + 1 /\ a = Key(tags["in"][j])
    <3>1. read["block"] = written["out"]
      BY <1>1, <1>2 DEF IndicesAgree
    <3>2. a \in Entries(tags["in"])
      BY <1>1, <2>1, <3>1, Facts DEF InputListed
    <3>3. PICK j \in DOMAIN tags["in"] : a = Key(tags["in"][j])
      BY <3>2 DEF Entries
    <3>4. j < next.at + 1
      BY <1>3, <1>6, <2>1, EntryOf DEF EndOf
    <3> QED BY <3>3, <3>4
  <2>2. ASSUME NEW a \in added
        PROVE  a \in Moved' <=>
                 \/ a[1] = "block" \/ a[2] < written["out"]
                 \/ /\ a[2] < BlockEnd
                    /\ \E j \in DOMAIN tags["in"] : j < next.at + 1 /\ a = Key(tags["in"][j])
    BY <1>2, <1>4, <1>7, <1>9, <2>1, Facts DEF Moved
  <2>3. ASSUME NEW a \in added
        PROVE  a \in Moved <=>
                 \/ a[1] = "block" \/ a[2] < written["out"]
                 \/ /\ a[2] < BlockEnd
                    /\ \E j \in DOMAIN tags["in"] : j < next.at /\ a = Key(tags["in"][j])
    BY <1>2, <1>3 DEF Moved
  <2> QED BY <1>3, <1>4, <1>10, <2>2, <2>3 DEF t
<1>13. Moved' \subseteq added /\ Moved \subseteq added
  BY <1>2 DEF Moved
<1>14. TypeOK' /\ OutputListed'
  <2>1. CASE IsProcessed(t)
    <3>1. tags'["out"] = Append(tags["out"], t)
      BY <1>1, <1>8, <2>1, ActorFacts DEF TypeOK
    <3>2. Key(t) \notin Moved
      BY <1>2, <1>3, <1>6, <1>10, <1>11, <2>1, Facts DEF Moved
    <3>3. Moved' = Moved \cup {Key(t)}
      BY <1>6, <1>11, <1>12, <1>13, <2>1
    <3>4. Lists(tags["out"]', 1) /\ Entries(tags["out"]') = Entries(tags["out"]) \cup {Key(t)}
      BY <1>1, <1>6, <3>1, <3>2, ListAppend DEF OutputListed
    <3>5. OutputListed'
      BY <1>1, <1>2, <3>3, <3>4 DEF OutputListed
    <3>6. tags' \in [Buffers -> Seq(Tag)]
      BY <1>1, <1>8, <2>1, <3>1, <3>4 DEF TypeOK, Lists
    <3> QED BY <1>1, <1>2, <1>5, <3>5, <3>6 DEF TypeOK
  <2>2. CASE ~ IsProcessed(t)
    <3>1. tags' = tags
      BY <1>8, <2>2
    <3>2. Moved' = Moved
      <4>1. Key(t)[2] < BlockEnd => Key(t) \in Moved
        BY <1>6, <1>11, <2>2, Facts DEF Moved
      <4> QED BY <1>12, <1>13, <4>1
    <3>3. OutputListed'
      BY <1>1, <1>2, <3>1, <3>2 DEF OutputListed
    <3> QED BY <1>1, <1>2, <1>5, <3>1, <3>3 DEF TypeOK
  <2> QED BY <2>1, <2>2
<1>15. IndicesAgree'
  BY <1>1, <1>2, <1>7 DEF IndicesAgree
<1>16. AddedInOrder'
  BY <1>1, <1>2, <1>7 DEF AddedInOrder
<1>17. InputListed'
  <2>1. next'.end = EndOf("in")' /\ next'.at \in 1..next'.end
    BY <1>2, <1>3, <1>4, <1>9 DEF EndOf
  <2> QED BY <1>1, <1>2, <1>9, <2>1 DEF InputListed, Walking
<1>18. GivenListed'
  BY <1>1, <1>2, <1>7 DEF GivenListed
<1> QED BY <1>14, <1>15, <1>16, <1>17, <1>18 DEF IInv

(* At the end of the loop all tags of the processed window are moved. *)
LEMMA PropagateEndOK ==
  ASSUME IInv, PropagateEnd
  PROVE  IInv'
<1>1. TypeOK /\ IndicesAgree /\ AddedInOrder /\ InputListed /\ OutputListed /\ GivenListed
  BY DEF IInv
<1>2. /\ pc["block"] = "propagate" /\ next.at = next.end
      /\ pc' = [pc EXCEPT !["block"] = "post_read"]
      /\ tags' = tags /\ written' = written /\ read' = read /\ next' = next /\ n' = n
      /\ added' = added /\ seen' = seen
  BY DEF PropagateEnd
<1>3. pc'["block"] = "post_read" /\ pc'["source"] = pc["source"] /\ \A s \in Sinks : pc'[s] = pc[s]
  BY <1>1, <1>2, ActorFacts DEF TypeOK
<1>4. /\ BlockEnd' = BlockEnd /\ SourceEnd' = SourceEnd /\ \A s \in Sinks : Given(s)' = Given(s)
      /\ read["block"] = written["out"]
  BY <1>1, <1>2, <1>3 DEF BlockEnd, SourceEnd, Given, IndicesAgree
<1>5. TypeOK'
  <2>1. pc' \in [Actors -> Places]
    BY <1>1, <1>2 DEF TypeOK, Places
  <2> QED BY <1>1, <1>2, <2>1 DEF TypeOK
<1>6. Moved' = Moved
  BY <1>2, <1>3, <1>4 DEF Moved
<1>7. IndicesAgree'
  BY <1>1, <1>2, <1>3, <1>4 DEF IndicesAgree
<1>8. AddedInOrder'
  BY <1>1, <1>2, <1>4 DEF AddedInOrder
<1>9. InputListed'
  BY <1>1, <1>2, <1>3 DEF InputListed, Walking
<1>10. OutputListed'
  BY <1>1, <1>2, <1>6 DEF OutputListed
<1>11. GivenListed'
  BY <1>1, <1>2, <1>4 DEF GivenListed
<1> QED BY <1>5, <1>7, <1>8, <1>9, <1>10, <1>11 DEF IInv

(* A sink is given the tags of its window, with the items of the window. *)
LEMMA SinkWorkOK ==
  ASSUME IInv, NEW s \in Sinks, NEW k \in 1..Capacity, SinkWork(s, k)
  PROVE  IInv'
<1>20. PICK R : R = Rate[s]
  OBVIOUS
<1>21. PICK W : W = InWindow("out", R, read[s], read[s] + k)
  OBVIOUS
<1>1. TypeOK /\ IndicesAgree /\ AddedInOrder /\ InputListed /\ OutputListed /\ GivenListed
  BY DEF IInv
<1>2. /\ pc[s] = "idle" /\ k \in Nat /\ R \in Nat \ {0} /\ s # "block" /\ s # "source"
      /\ read[s] \in Nat /\ written["out"] \in Nat
  <2>1. pc[s] = "idle" /\ k \in Nat
    BY TagAssumption DEF SinkWork
  <2>2. R \in Nat \ {0} /\ s # "block" /\ s # "source"
    BY <1>20, ActorFacts
  <2>3. read[s] \in Nat /\ written["out"] \in Nat
    BY Facts
  <2> QED BY <1>20, <2>1, <2>2, <2>3
<1>3. /\ seen' = [seen EXCEPT ![s] = seen[s] \o W]
      /\ n' = [n EXCEPT ![s] = k]
      /\ pc' = [pc EXCEPT ![s] = "post_read"]
      /\ tags' = tags /\ written' = written /\ read' = read /\ next' = next /\ added' = added
      /\ k <= written["out"] \div R - read[s]
  BY <1>1, <1>20, <1>21 DEF SinkWork, TypeOK
<1>4. /\ pc'["block"] = pc["block"] /\ pc'["source"] = pc["source"]
      /\ n'["block"] = n["block"] /\ n'["source"] = n["source"]
      /\ pc'[s] = "post_read" /\ n'[s] = k
      /\ \A z \in Sinks : z # s => pc'[z] = pc[z] /\ n'[z] = n[z]
  BY <1>1, <1>2, <1>3, ActorFacts DEF TypeOK
<1>5. BlockEnd' = BlockEnd /\ SourceEnd' = SourceEnd
  BY <1>3, <1>4 DEF BlockEnd, SourceEnd
<1>6. /\ Given(s) = read[s] /\ Given(s)' = read[s] + k
      /\ \A z \in Sinks : z # s => Given(z)' = Given(z)
  BY <1>2, <1>3, <1>4 DEF Given
<1>7. (read[s] + k) * R <= written["out"]
  <2>1. written["out"] \div R \in Nat
    BY <1>2, DivFacts
  <2>2. read[s] + k <= written["out"] \div R /\ read[s] + k \in Nat
    BY <1>2, <1>3, <2>1
  <2> QED BY <1>2, <2>2, DivFacts
<1>8. Moved' = Moved
  BY <1>3, <1>4, <1>5 DEF Moved
<1>9. /\ Lists(W, R)
      /\ Entries(W) = {a \in Entries(tags["out"]) :
                         read[s] <= a[2] \div R /\ a[2] \div R < read[s] + k}
  <2>3. PICK first : first = read[s]
    OBVIOUS
  <2>4. PICK last : last = read[s] + k
    OBVIOUS
  <2>1. first \in Nat /\ last \in Nat /\ Lists(tags["out"], 1)
    BY <1>1, <1>2, <2>3, <2>4 DEF OutputListed
  <2>2. /\ Lists(InWindow("out", R, first, last), R)
        /\ InRange(InWindow("out", R, first, last), tags["out"], R, first, last)
    BY <1>2, <2>1, ListWindow
  <2> QED BY <1>21, <2>2, <2>3, <2>4 DEF InRange
<1>10. Entries(W) = {a \in added : read[s] <= a[2] \div R /\ a[2] \div R < read[s] + k}
  <2>1. Entries(tags["out"]) \subseteq added
    BY <1>1 DEF OutputListed, Moved
  <2>2. ASSUME NEW a \in added, read[s] <= a[2] \div R, a[2] \div R < read[s] + k
        PROVE  a \in Entries(tags["out"])
    <3>1. a[2] \in Nat /\ read[s] + k \in Nat
      BY <1>2, Facts
    <3>2. a[2] < (read[s] + k) * R /\ read[s] * R <= a[2]
      BY <1>2, <2>2, <3>1, DivFacts
    <3>3. (read[s] + k) * R \in Nat /\ read[s] * R \in Nat /\ read[s] <= read[s] * R
      BY <1>2
    <3>4. a[2] < written["out"] /\ read[s] <= a[2]
      BY <1>2, <1>7, <3>1, <3>2, <3>3
    <3>5. a \in Moved
      BY <3>4 DEF Moved
    <3> QED BY <1>1, <3>4, <3>5 DEF OutputListed
  <2> QED BY <1>9, <2>1, <2>2
<1>11. TypeOK' /\ GivenListed'
  <2>1. /\ Lists(seen[s], R)
        /\ Entries(seen[s]) = {a \in added : a[2] \div R < read[s]}
    BY <1>1, <1>6, <1>20 DEF GivenListed
  <2>2. \A a \in added : a[2] \div R \in Nat
    BY <1>2, Facts, DivFacts
  <2>3. Entries(seen[s]) \cap Entries(W) = {}
    BY <1>2, <1>10, <2>1, <2>2
  <2>4. /\ Lists(seen[s] \o W, R)
        /\ Entries(seen[s] \o W) = Entries(seen[s]) \cup Entries(W)
    <3>3. PICK v : v = seen[s]
      OBVIOUS
    <3>1. Lists(v, R) /\ Entries(v) \cap Entries(W) = {}
      BY <2>1, <2>3, <3>3
    <3>2. Lists(v \o W, R) /\ Joins(v \o W, v, W)
      BY <1>9, <3>1, ListConcat
    <3> QED BY <3>2, <3>3 DEF Joins
  <2>5. Entries(seen[s] \o W) = {a \in added : a[2] \div R < read[s] + k}
    BY <1>2, <1>10, <2>1, <2>2, <2>4
  <2>6. seen'[s] = seen[s] \o W /\ \A z \in Sinks : z # s => seen'[z] = seen[z]
    BY <1>1, <1>3 DEF TypeOK
  <2>7. GivenListed'
    <3>1. ASSUME NEW z \in Sinks
          PROVE  /\ Lists(seen'[z], Rate[z])
                 /\ Entries(seen'[z]) = {a \in added : a[2] \div Rate[z] < Given(z)'}
      <4>1. CASE z = s
        BY <4>1, <1>6, <1>20, <2>4, <2>5, <2>6
      <4>2. CASE z # s
        BY <4>2, <1>1, <1>6, <2>6 DEF GivenListed
      <4> QED BY <4>1, <4>2
    <3> QED BY <1>3, <3>1 DEF GivenListed
  <2>8. seen' \in [Sinks -> Seq(Tag)]
    BY <1>1, <1>3, <2>4 DEF TypeOK, Lists
  <2>9. n' \in [Actors -> Nat] /\ pc' \in [Actors -> Places]
    BY <1>1, <1>2, <1>3 DEF TypeOK, Places
  <2> QED BY <1>1, <1>3, <2>7, <2>8, <2>9 DEF TypeOK
<1>12. IndicesAgree'
  <2>1. \A z \in Sinks : pc'[z] \in {"idle", "post_read"} /\ Given(z)' * Rate[z] <= written["out"]
    BY <1>1, <1>4, <1>6, <1>20, <1>7 DEF IndicesAgree
  <2> QED BY <1>1, <1>3, <1>4, <1>5, <2>1 DEF IndicesAgree
<1>13. AddedInOrder'
  BY <1>1, <1>3, <1>5 DEF AddedInOrder
<1>14. InputListed'
  BY <1>1, <1>3, <1>4 DEF InputListed, EndOf, Walking
<1>15. OutputListed'
  BY <1>1, <1>3, <1>8 DEF OutputListed
<1> QED BY <1>11, <1>12, <1>13, <1>14, <1>15 DEF IInv

(* post_read of the block: what it has read it has moved. *)
LEMMA BlockReadOK ==
  ASSUME IInv, PostRead("block")
  PROVE  IInv'
<1>1. TypeOK /\ IndicesAgree /\ AddedInOrder /\ InputListed /\ OutputListed /\ GivenListed
  BY DEF IInv
<1>2. /\ pc["block"] = "post_read"
      /\ read' = [read EXCEPT !["block"] = read["block"] + n["block"]]
      /\ pc' = [pc EXCEPT !["block"] = "post_write"]
      /\ tags' = tags /\ written' = written /\ next' = next /\ n' = n
      /\ added' = added /\ seen' = seen
  BY <1>1 DEF PostRead, TypeOK
<1>3. /\ pc'["block"] = "post_write" /\ pc'["source"] = pc["source"]
      /\ \A s \in Sinks : pc'[s] = pc[s] /\ read'[s] = read[s]
      /\ read'["block"] = read["block"] + n["block"]
  BY <1>1, <1>2, ActorFacts DEF TypeOK
<1>4. /\ BlockEnd' = BlockEnd /\ SourceEnd' = SourceEnd /\ \A s \in Sinks : Given(s)' = Given(s)
      /\ read["block"] = written["out"] /\ read'["block"] = BlockEnd
  BY <1>1, <1>2, <1>3 DEF BlockEnd, SourceEnd, Given, IndicesAgree
<1>5. TypeOK'
  <2>1. pc' \in [Actors -> Places] /\ read' \in [Readers -> Nat]
    <3>1. read["block"] + n["block"] \in Nat
      BY Facts
    <3> QED BY <1>1, <1>2, <3>1 DEF TypeOK, Places
  <2> QED BY <1>1, <1>2, <2>1 DEF TypeOK
<1>6. Moved' = Moved
  BY <1>2, <1>3, <1>4 DEF Moved
<1>7. IndicesAgree'
  BY <1>1, <1>2, <1>3, <1>4 DEF IndicesAgree
<1>8. AddedInOrder'
  BY <1>1, <1>2, <1>4 DEF AddedInOrder
<1>9. InputListed'
  <2>1. \A a \in added : a[2] >= read'["block"] => a[2] >= read["block"]
    BY <1>4, Facts
  <2> QED BY <1>1, <1>2, <1>3, <2>1 DEF InputListed, Walking
<1>10. OutputListed'
  BY <1>1, <1>2, <1>3, <1>6 DEF OutputListed
<1>11. GivenListed'
  BY <1>1, <1>2, <1>4 DEF GivenListed
<1> QED BY <1>5, <1>7, <1>8, <1>9, <1>10, <1>11 DEF IInv

(* post_read of a sink: it has been given what it has now read. *)
LEMMA SinkReadOK ==
  ASSUME IInv, NEW s \in Sinks, PostRead(s)
  PROVE  IInv'
<1>1. TypeOK /\ IndicesAgree /\ AddedInOrder /\ InputListed /\ OutputListed /\ GivenListed
  BY DEF IInv
<1>2. /\ pc[s] = "post_read"
      /\ read' = [read EXCEPT ![s] = read[s] + n[s]]
      /\ pc' = [pc EXCEPT ![s] = "idle"]
      /\ tags' = tags /\ written' = written /\ next' = next /\ n' = n
      /\ added' = added /\ seen' = seen
  BY <1>1, ActorFacts DEF PostRead, TypeOK
<1>3. /\ pc'["block"] = pc["block"] /\ pc'["source"] = pc["source"] /\ pc'[s] = "idle"
      /\ \A z \in Sinks : z # s => pc'[z] = pc[z] /\ read'[z] = read[z]
      /\ read'["block"] = read["block"] /\ read'[s] = read[s] + n[s]
      /\ \A z \in Sinks : pc'[z] \in {"idle", "post_read"}
  <2>1. pc \in [Actors -> Places] /\ read \in [Readers -> Nat]
    BY <1>1 DEF TypeOK
  <2>2. pc'["block"] = pc["block"] /\ pc'["source"] = pc["source"] /\ pc'[s] = "idle"
    BY <1>2, <2>1, ActorFacts
  <2>3. read'["block"] = read["block"] /\ read'[s] = read[s] + n[s]
    BY <1>2, <2>1, ActorFacts
  <2>4. \A z \in Sinks : z # s => pc'[z] = pc[z] /\ read'[z] = read[z]
    BY <1>2, <2>1, ActorFacts
  <2>5. \A z \in Sinks : pc'[z] \in {"idle", "post_read"}
    BY <1>1, <2>2, <2>4 DEF IndicesAgree
  <2> QED BY <2>2, <2>3, <2>4, <2>5
<1>4. BlockEnd' = BlockEnd /\ SourceEnd' = SourceEnd
  BY <1>2, <1>3 DEF BlockEnd, SourceEnd
<1>5. \A z \in Sinks : Given(z)' = Given(z)
  BY <1>2, <1>3, Facts DEF Given
<1>6. TypeOK'
  <2>1. pc' \in [Actors -> Places] /\ read' \in [Readers -> Nat]
    <3>1. read[s] + n[s] \in Nat
      BY Facts
    <3> QED BY <1>1, <1>2, <3>1 DEF TypeOK, Places
  <2> QED BY <1>1, <1>2, <2>1 DEF TypeOK
<1>7. Moved' = Moved
  BY <1>2, <1>3, <1>4 DEF Moved
<1>8. IndicesAgree'
  BY <1>1, <1>2, <1>3, <1>4, <1>5 DEF IndicesAgree
<1>9. AddedInOrder'
  BY <1>1, <1>2, <1>4 DEF AddedInOrder
<1>10. InputListed'
  BY <1>1, <1>2, <1>3 DEF InputListed, EndOf, Walking
<1>11. OutputListed'
  <2>1. \A z \in Sinks : \A i \in Nat : read'[z] <= i => read[z] <= i
    BY <1>3, Facts
  <2>2. \A a \in Moved : (\E z \in Sinks : read'[z] <= a[2]) => \E z \in Sinks : read[z] <= a[2]
    BY <2>1, Facts DEF Moved
  <2> QED BY <1>1, <1>2, <1>7, <2>2 DEF OutputListed
<1>12. GivenListed'
  BY <1>1, <1>2, <1>5 DEF GivenListed
<1> QED BY <1>6, <1>8, <1>9, <1>10, <1>11, <1>12 DEF IInv

(* post_write of the source: the items it has added tags to can be read. *)
LEMMA SourceWriteOK ==
  ASSUME IInv, PostWrite("source")
  PROVE  IInv'
<1>1. TypeOK /\ IndicesAgree /\ AddedInOrder /\ InputListed /\ OutputListed /\ GivenListed
  BY DEF IInv
<1>2. /\ pc["source"] = "post_write"
      /\ written' = [written EXCEPT !["in"] = written["in"] + n["source"]]
      /\ pc' = [pc EXCEPT !["source"] = "prune"]
      /\ tags' = tags /\ read' = read /\ next' = next /\ n' = n
      /\ added' = added /\ seen' = seen
  BY <1>1, ActorFacts DEF PostWrite, OutputOf, TypeOK
<1>3. /\ pc'["source"] = "prune" /\ pc'["block"] = pc["block"]
      /\ \A s \in Sinks : pc'[s] = pc[s]
      /\ written'["in"] = written["in"] + n["source"] /\ written'["out"] = written["out"]
  BY <1>1, <1>2, ActorFacts DEF TypeOK, IndicesAgree
<1>4. BlockEnd' = BlockEnd /\ SourceEnd' = SourceEnd /\ \A s \in Sinks : Given(s)' = Given(s)
  BY <1>2, <1>3, Facts DEF BlockEnd, SourceEnd, Given
<1>5. TypeOK'
  <2>1. pc' \in [Actors -> Places] /\ written' \in [Buffers -> Nat]
    <3>1. written["in"] + n["source"] \in Nat
      BY Facts
    <3> QED BY <1>1, <1>2, <3>1 DEF TypeOK, Places
  <2> QED BY <1>1, <1>2, <2>1 DEF TypeOK
<1>6. Moved' = Moved
  BY <1>2, <1>3, <1>4 DEF Moved
<1>7. IndicesAgree'
  <2>1. BlockEnd <= written'["in"]
    BY <1>3, Facts
  <2> QED BY <1>1, <1>2, <1>3, <1>4, <2>1 DEF IndicesAgree
<1>8. AddedInOrder'
  BY <1>1, <1>2, <1>4 DEF AddedInOrder
<1>9. InputListed'
  BY <1>1, <1>2, <1>3 DEF InputListed, EndOf, Walking
<1>10. OutputListed'
  BY <1>1, <1>2, <1>6 DEF OutputListed
<1>11. GivenListed'
  BY <1>1, <1>2, <1>4 DEF GivenListed
<1> QED BY <1>5, <1>7, <1>8, <1>9, <1>10, <1>11 DEF IInv

(* post_write of the block: what it has moved can be read. *)
LEMMA BlockWriteOK ==
  ASSUME IInv, PostWrite("block")
  PROVE  IInv'
<1>1. TypeOK /\ IndicesAgree /\ AddedInOrder /\ InputListed /\ OutputListed /\ GivenListed
  BY DEF IInv
<1>2. /\ pc["block"] = "post_write"
      /\ written' = [written EXCEPT !["out"] = written["out"] + n["block"]]
      /\ pc' = [pc EXCEPT !["block"] = "prune"]
      /\ tags' = tags /\ read' = read /\ next' = next /\ n' = n
      /\ added' = added /\ seen' = seen
  BY <1>1, ActorFacts DEF PostWrite, OutputOf, TypeOK
<1>3. /\ pc'["block"] = "prune" /\ pc'["source"] = pc["source"]
      /\ \A s \in Sinks : pc'[s] = pc[s]
      /\ written'["out"] = written["out"] + n["block"] /\ written'["in"] = written["in"]
  BY <1>1, <1>2, ActorFacts DEF TypeOK
<1>4. /\ BlockEnd' = written'["out"] /\ BlockEnd' = BlockEnd /\ SourceEnd' = SourceEnd
      /\ \A s \in Sinks : Given(s)' = Given(s)
      /\ read["block"] = BlockEnd
  <2>1. BlockEnd' = written'["out"] /\ BlockEnd' = BlockEnd
    BY <1>2, <1>3, Facts DEF BlockEnd
  <2>2. SourceEnd' = SourceEnd /\ \A s \in Sinks : Given(s)' = Given(s)
    BY <1>2, <1>3 DEF SourceEnd, Given
  <2> QED BY <1>1, <1>2, <2>1, <2>2 DEF IndicesAgree
<1>5. TypeOK'
  <2>1. pc' \in [Actors -> Places] /\ written' \in [Buffers -> Nat]
    <3>1. written["out"] + n["block"] \in Nat
      BY Facts
    <3> QED BY <1>1, <1>2, <3>1 DEF TypeOK, Places
  <2> QED BY <1>1, <1>2, <2>1 DEF TypeOK
<1>6. Moved' = Moved
  BY <1>2, <1>3, <1>4, Facts DEF Moved
<1>7. IndicesAgree'
  <2>1. ASSUME NEW s \in Sinks PROVE Given(s)' * Rate[s] <= written'["out"]
    <3>1. Given(s) * Rate[s] \in Nat /\ Given(s) * Rate[s] <= written["out"]
      BY Facts, ActorFacts
    <3> QED BY <1>3, <1>4, <3>1, Facts
  <2> QED BY <1>1, <1>2, <1>3, <1>4, <2>1 DEF IndicesAgree
<1>8. AddedInOrder'
  BY <1>1, <1>2, <1>4 DEF AddedInOrder
<1>9. InputListed'
  BY <1>1, <1>2, <1>3 DEF InputListed, Walking
<1>10. OutputListed'
  BY <1>1, <1>2, <1>6 DEF OutputListed
<1>11. GivenListed'
  BY <1>1, <1>2, <1>4 DEF GivenListed
<1> QED BY <1>5, <1>7, <1>8, <1>9, <1>10, <1>11 DEF IInv

(* prune_tags of the source: the block has read what is erased. *)
LEMMA SourcePruneOK ==
  ASSUME IInv, ~ disturbed', PruneTags("source")
  PROVE  IInv'
<1> DEFINE m == AllHaveRead("in")
           q == Selected(tags["in"], {i \in DOMAIN tags["in"] : tags["in"][i].offset >= m})
<1>1. TypeOK /\ IndicesAgree /\ AddedInOrder /\ InputListed /\ OutputListed /\ GivenListed
  BY DEF IInv
<1>2. /\ pc["source"] = "prune"
      /\ tags' = [tags EXCEPT !["in"] = q]
      /\ pc' = [pc EXCEPT !["source"] = "idle"]
      /\ written' = written /\ read' = read /\ next' = next /\ n' = n
      /\ added' = added /\ seen' = seen
      /\ Walking => tags' = tags
  BY <1>1, ActorFacts DEF PruneTags, OutputOf, TypeOK
<1>3. /\ pc'["source"] = "idle" /\ pc'["block"] = pc["block"]
      /\ \A s \in Sinks : pc'[s] = pc[s]
      /\ tags'["in"] = q /\ tags'["out"] = tags["out"]
  BY <1>1, <1>2, ActorFacts DEF TypeOK, IndicesAgree
<1>4. BlockEnd' = BlockEnd /\ SourceEnd' = SourceEnd /\ \A s \in Sinks : Given(s)' = Given(s)
  BY <1>2, <1>3 DEF BlockEnd, SourceEnd, Given
<1>5. m \in Nat /\ m <= read["block"] /\ read["block"] \in Nat
  BY PruneFacts, Facts
<1> HIDE DEF m
<1>6. Lists(q, 1) /\ Entries(q) = {a \in Entries(tags["in"]) : a[2] >= m}
  <2> DEFINE v == tags["in"]
  <2>1. Lists(v, 1)
    BY <1>1 DEF InputListed
  <2> HIDE DEF v
  <2>2. LET z == Selected(v, {i \in DOMAIN v : v[i].offset >= m}) IN
        Lists(z, 1) /\ Entries(z) = {a \in Entries(v) : a[2] >= m}
    BY <1>5, <2>1, ListPrune
  <2> QED BY <2>2 DEF v
<1> HIDE DEF q
<1>7. TypeOK'
  <2>1. pc' \in [Actors -> Places] /\ tags' \in [Buffers -> Seq(Tag)]
    BY <1>1, <1>2, <1>6 DEF TypeOK, Places, Lists
  <2> QED BY <1>1, <1>2, <2>1 DEF TypeOK
<1>14. Walking' <=> Walking
  BY <1>2, <1>3 DEF Walking
<1>8. Moved' = Moved
  <2>1. CASE Walking
    BY <1>2, <1>3, <1>4, <2>1 DEF Moved
  <2>2. CASE ~ Walking
    <3>1. pc["block"] = "propagate" => next.at = next.end
      BY <1>1, <2>2 DEF Walking, InputListed, TypeOK
    <3> QED BY <1>2, <1>3, <1>4, <3>1 DEF Moved
  <2> QED BY <2>1, <2>2
<1>9. IndicesAgree'
  BY <1>1, <1>2, <1>3, <1>4 DEF IndicesAgree
<1>10. AddedInOrder'
  BY <1>1, <1>2, <1>4 DEF AddedInOrder
<1>11. InputListed'
  <2>1. \A a \in Entries(q) : a \in added /\ a[1] = "source"
    BY <1>1, <1>6 DEF InputListed
  <2>2. \A a \in added : a[1] = "source" /\ a[2] >= read["block"] => a \in Entries(q)
    <3>1. \A a \in added : a[2] >= read["block"] => a[2] >= m
      BY <1>5, Facts
    <3> QED BY <1>1, <1>6, <3>1 DEF InputListed
  <2>3. pc'["block"] = "propagate" => next'.at \in 1..next'.end
    BY <1>1, <1>2, <1>3 DEF InputListed
  <2>4. Walking' => next'.end = EndOf("in")'
    BY <1>1, <1>2, <1>14 DEF InputListed, EndOf
  <2> QED BY <1>2, <1>3, <1>6, <2>1, <2>2, <2>3, <2>4 DEF InputListed
<1>12. OutputListed'
  BY <1>1, <1>2, <1>3, <1>8 DEF OutputListed
<1>13. GivenListed'
  BY <1>1, <1>2, <1>4 DEF GivenListed
<1> QED BY <1>7, <1>9, <1>10, <1>11, <1>12, <1>13 DEF IInv

(* prune_tags of the block: every sink has read what is erased. *)
LEMMA BlockPruneOK ==
  ASSUME IInv, PruneTags("block")
  PROVE  IInv'
<1> DEFINE m == AllHaveRead("out")
           q == Selected(tags["out"], {i \in DOMAIN tags["out"] : tags["out"][i].offset >= m})
<1>1. TypeOK /\ IndicesAgree /\ AddedInOrder /\ InputListed /\ OutputListed /\ GivenListed
  BY DEF IInv
<1>2. /\ pc["block"] = "prune"
      /\ tags' = [tags EXCEPT !["out"] = q]
      /\ pc' = [pc EXCEPT !["block"] = "idle"]
      /\ written' = written /\ read' = read /\ next' = next /\ n' = n
      /\ added' = added /\ seen' = seen
  BY <1>1, ActorFacts DEF PruneTags, OutputOf, TypeOK
<1>3. /\ pc'["block"] = "idle" /\ pc'["source"] = pc["source"]
      /\ \A s \in Sinks : pc'[s] = pc[s]
      /\ tags'["out"] = q /\ tags'["in"] = tags["in"]
  BY <1>1, <1>2, ActorFacts DEF TypeOK
<1>4. BlockEnd' = BlockEnd /\ SourceEnd' = SourceEnd /\ \A s \in Sinks : Given(s)' = Given(s)
  BY <1>2, <1>3 DEF BlockEnd, SourceEnd, Given
<1>5. m \in Nat /\ \A s \in Sinks : m <= read[s] /\ read[s] \in Nat
  BY PruneFacts, Facts
<1> HIDE DEF m
<1>6. Lists(q, 1) /\ Entries(q) = {a \in Entries(tags["out"]) : a[2] >= m}
  <2> DEFINE v == tags["out"]
  <2>1. Lists(v, 1)
    BY <1>1 DEF OutputListed
  <2> HIDE DEF v
  <2>2. LET z == Selected(v, {i \in DOMAIN v : v[i].offset >= m}) IN
        Lists(z, 1) /\ Entries(z) = {a \in Entries(v) : a[2] >= m}
    BY <1>5, <2>1, ListPrune
  <2> QED BY <2>2 DEF v
<1> HIDE DEF q
<1>7. TypeOK'
  <2>1. pc' \in [Actors -> Places] /\ tags' \in [Buffers -> Seq(Tag)]
    BY <1>1, <1>2, <1>6 DEF TypeOK, Places, Lists
  <2> QED BY <1>1, <1>2, <2>1 DEF TypeOK
<1>8. Moved' = Moved
  BY <1>2, <1>3, <1>4 DEF Moved
<1>9. IndicesAgree'
  BY <1>1, <1>2, <1>3, <1>4 DEF IndicesAgree
<1>10. AddedInOrder'
  BY <1>1, <1>2, <1>4 DEF AddedInOrder
<1>11. InputListed'
  BY <1>1, <1>2, <1>3 DEF InputListed, Walking
<1>12. OutputListed'
  <2>1. \A a \in added : \A s \in Sinks : read[s] <= a[2] => a[2] >= m
    BY <1>5, Facts
  <2>2. \A a \in Moved : (\E s \in Sinks : read[s] <= a[2]) => a \in Entries(q)
    BY <1>1, <1>6, <2>1 DEF OutputListed, Moved
  <2>3. Entries(q) \subseteq Moved
    BY <1>1, <1>6 DEF OutputListed
  <2> QED BY <1>2, <1>3, <1>6, <1>8, <2>2, <2>3 DEF OutputListed
<1>13. GivenListed'
  BY <1>1, <1>2, <1>4 DEF GivenListed
<1> QED BY <1>7, <1>9, <1>10, <1>11, <1>12, <1>13 DEF IInv

-----------------------------------------------------------------------------
(* The theorems. *)

(* A step that changes nothing keeps the invariant. *)
LEMMA StutterOK ==
  ASSUME IInv, UNCHANGED vars
  PROVE  IInv'
<1>1. TypeOK /\ IndicesAgree /\ AddedInOrder /\ InputListed /\ OutputListed /\ GivenListed
  BY DEF IInv
<1>2. /\ tags' = tags /\ written' = written /\ read' = read /\ pc' = pc /\ n' = n
      /\ next' = next /\ added' = added /\ seen' = seen
  BY DEF vars
<1>3. /\ BlockEnd' = BlockEnd /\ SourceEnd' = SourceEnd /\ \A s \in Sinks : Given(s)' = Given(s)
      /\ Moved' = Moved
  BY <1>2 DEF BlockEnd, SourceEnd, Given, Moved
<1>4. TypeOK'
  BY <1>1, <1>2 DEF TypeOK
<1>5. IndicesAgree' /\ AddedInOrder'
  BY <1>1, <1>2, <1>3 DEF IndicesAgree, AddedInOrder
<1>6. InputListed' /\ OutputListed' /\ GivenListed'
  BY <1>1, <1>2, <1>3 DEF InputListed, OutputListed, GivenListed, EndOf, Walking
<1> QED BY <1>4, <1>5, <1>6 DEF IInv

(* Every step keeps the invariant, unless it disturbs a walk. *)
LEMMA NextOK ==
  ASSUME IInv, ~ disturbed', [Next]_vars
  PROVE  IInv'
<1>1. ASSUME NEW k \in 1..Capacity, NEW items \in SUBSET (0..(MaxItems - 1)),
             SourceWork(k, items) \/ BlockWork(k, items)
      PROVE  IInv'
  BY <1>1, SourceWorkOK, BlockWorkOK
<1>2. CASE PropagateOne \/ PropagateEnd
  BY <1>2, PropagateOneOK, PropagateEndOK
<1>3. ASSUME NEW s \in Sinks, NEW k \in 1..Capacity, SinkWork(s, k)
      PROVE  IInv'
  BY <1>3, SinkWorkOK
<1>4. ASSUME NEW r \in Readers, PostRead(r)
      PROVE  IInv'
  BY <1>4, BlockReadOK, SinkReadOK, ActorFacts
<1>5. ASSUME NEW a \in {"source", "block"}, PostWrite(a) \/ PruneTags(a)
      PROVE  IInv'
  BY <1>5, SourceWriteOK, BlockWriteOK, SourcePruneOK, BlockPruneOK
<1>6. CASE UNCHANGED vars
  BY <1>6, StutterOK
<1> QED BY <1>1, <1>2, <1>3, <1>4, <1>5, <1>6 DEF Next

(* A walk that has been disturbed has been for ever. *)
LEMMA DisturbedStays ==
  ASSUME disturbed \in BOOLEAN, [Next]_vars
  PROVE  disturbed' \in BOOLEAN /\ (disturbed => disturbed')
<1>1. CASE Next
  BY <1>1 DEF Next, SourceWork, BlockWork, PropagateOne, PropagateEnd, SinkWork,
     PostRead, PostWrite, PruneTags
<1>2. CASE UNCHANGED vars
  BY <1>2 DEF vars
<1> QED BY <1>1, <1>2

(* The invariant holds in every state until a walk is disturbed. *)
THEOREM TagsInvariant == Spec => []Inv
<1>1. Init => Inv
  BY InitOK DEF Inv, Init
<1>2. Inv /\ [Next]_vars => Inv'
  BY NextOK, DisturbedStays DEF Inv
<1> QED
  BY <1>1, <1>2, PTL DEF Spec

(* What a sink has been given are the tags of the items it was given. *)
LEMMA ReachFrom ==
  ASSUME Inv
  PROVE  TagsReachTheirItems
<1> SUFFICES ASSUME IInv, NEW s \in Sinks
             PROVE  /\ IsInjective(seen[s])
                    /\ {<<t.by, t.at>> : t \in Range(seen[s])} =
                         {a \in added : a[2] \div Rate[s] < Given(s)}
                    /\ \A t \in Range(seen[s]) : t.offset = t.at \div Rate[s]
  BY DEF Inv, TagsReachTheirItems
<1>1. Lists(seen[s], Rate[s]) /\ Entries(seen[s]) = {a \in added : a[2] \div Rate[s] < Given(s)}
  BY DEF IInv, GivenListed
<1>2. IsInjective(seen[s])
  BY <1>1 DEF Lists, IsInjective
<1>3. {<<t.by, t.at>> : t \in Range(seen[s])} = Entries(seen[s])
  BY DEF Range, Entries, Key
<1>4. \A t \in Range(seen[s]) : t.offset = t.at \div Rate[s]
  BY <1>1 DEF Lists, Range
<1> QED BY <1>1, <1>2, <1>3, <1>4

(* A tag that a vector lists is there at one place, with its own offset. *)
LEMMA ListedOnce ==
  ASSUME NEW v, Lists(v, 1), NEW a \in Entries(v)
  PROVE  Cardinality({i \in DOMAIN v :
            v[i] = [by |-> a[1], at |-> a[2], offset |-> a[2]]}) = 1
<1> DEFINE t == [by |-> a[1], at |-> a[2], offset |-> a[2]]
<1>1. PICK j \in DOMAIN v : a = Key(v[j])
  BY EntryOf
<1>2. /\ v[j].by = a[1] /\ v[j].at = a[2] /\ a[2] \in Nat /\ v[j].offset = v[j].at \div 1
      /\ v[j] = [by |-> v[j].by, at |-> v[j].at, offset |-> v[j].offset]
  BY <1>1, EntryOf, TagIs DEF Lists
<1>3. v[j] = t
  <2>1. v[j].offset = a[2]
    BY <1>2
  <2> QED BY <1>2, <2>1
<1>4. \A i \in DOMAIN v : v[i] = t => i = j
  BY <1>3 DEF Lists
<1> HIDE DEF t
<1>5. {i \in DOMAIN v : v[i] = t} = {j}
  BY <1>3, <1>4
<1>6. Cardinality({j}) = 1
  BY FS_Singleton
<1>7. Cardinality({i \in DOMAIN v : v[i] = t}) = 1
  BY <1>5, <1>6
<1> QED BY <1>7 DEF t

(* The tag of an item that can be read and that not all have read is there. *)
LEMMA PrecedeFrom ==
  ASSUME Inv
  PROVE  TagsPrecedeItems
<1> DEFINE first(b) == Lowest({Position(r) : r \in ReadersOf(b)})
<1> SUFFICES ASSUME IInv, NEW b \in Buffers, NEW a \in added,
                    a[2] \in first(b)..(written[b] - 1), b = "in" => a[1] = "source"
             PROVE  Cardinality({i \in DOMAIN tags[b] :
                       tags[b][i] = [by |-> a[1], at |-> a[2], offset |-> a[2]]}) = 1
  BY DEF Inv, TagsPrecedeItems
<1>1. InputListed /\ OutputListed
  BY DEF IInv
<1>2. a[2] \in Nat /\ a[2] >= first(b) /\ a[2] < written[b]
  BY Facts, ActorFacts
<1>3. CASE b = "in"
  <2>1. {Position(r) : r \in ReadersOf(b)} = {read["block"]}
    BY <1>3, Facts DEF Position, RateOf, ReadersOf
  <2>2. first(b) = read["block"]
    BY <2>1, Facts DEF Lowest
  <2>3. a \in Entries(tags["in"]) /\ Lists(tags["in"], 1)
    BY <1>1, <1>2, <1>3, <2>2 DEF InputListed
  <2> QED BY <1>3, <2>3, ListedOnce
<1>4. CASE b = "out"
  <2> DEFINE S == {Position(r) : r \in ReadersOf(b)}
  <2>1. \A s \in Sinks : /\ Position(s) = read[s] * Rate[s] /\ Position(s) \in Nat
                         /\ read[s] <= Position(s) /\ read[s] \in Nat
    BY Facts, ActorFacts DEF Position, RateOf
  <2>2. S \in SUBSET Nat /\ S # {} /\ \A x \in S : \E s \in Sinks : x = Position(s)
    BY <1>4, <2>1, ActorFacts DEF ReadersOf
  <2>3. first(b) \in S
    <3> HIDE DEF S
    <3>1. Lowest(S) \in S
      BY <2>2, LowestIs
    <3> QED BY <3>1 DEF S
  <2>4. PICK s \in Sinks : first(b) = Position(s)
    BY <2>2, <2>3
  <2>5. read[s] <= a[2]
    BY <1>2, <2>1, <2>4
  <2>6. a \in Moved
    BY <1>2, <1>4 DEF Moved
  <2>7. a \in Entries(tags["out"]) /\ Lists(tags["out"], 1)
    BY <1>1, <2>5, <2>6 DEF OutputListed
  <2> QED BY <1>4, <2>7, ListedOnce
<1> QED BY <1>3, <1>4, ActorFacts

(* Every sink is given each tag once and with its item, however far the sinks
   are apart and whatever the items they read (propagate_tags, prune_tags,
   tags_in_window), until a walk is disturbed. *)
THEOREM TagsReach == Spec => []TagsReachTheirItems
<1>1. Inv => TagsReachTheirItems
  BY ReachFrom
<1> QED
  BY <1>1, TagsInvariant, PTL

(* The tag of an item is in the vector once while the item can be read and
   has not been read by all readers: an output is posted after propagation and
   pruned by the slowest reader; until a walk is disturbed. *)
THEOREM TagsPrecede == Spec => []TagsPrecedeItems
<1>1. Inv => TagsPrecedeItems
  BY PrecedeFrom
<1> QED
  BY <1>1, TagsInvariant, PTL
=============================================================================
