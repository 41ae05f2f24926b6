-------------------------------- MODULE Tags --------------------------------
(***************************************************************************)
(* Tags: metadata on items of a stream, kept in a vector beside each       *)
(* buffer.  A source writes buffer "in", a block whose work is one to one  *)
(* reads it and writes buffer "out", and sinks read that, each in a thread *)
(* of its own.  Work adds tags to the output and asks for those of its     *)
(* input; the executor then propagates tags, moves the indices and prunes  *)
(* what all readers have passed.  The vector of a buffer is locked by all  *)
(* of these but one: propagate_tags goes through the vector of the input   *)
(* that tags() returns by reference, and the source, in its own thread,    *)
(* may add to it or prune it meanwhile.  What the walk finds then is       *)
(* undefined: disturbed records that it has happened, for the properties,  *)
(* which say nothing of what follows (no step depends on it).              *)
(*                                                                         *)
(* A tag is the block that added it, the item it was added to and its      *)
(* offset.  A sink may read items that are several items of its buffer.    *)
(***************************************************************************)
EXTENDS Integers, Sequences, FiniteSets, SequencesExt

CONSTANTS
  Sinks,        (* the readers of buffer "out"                              *)
  Rate,         (* [Sinks -> items of "out" in one of the sink's items]     *)
  Capacity,     (* items a buffer holds                                     *)
  MaxItems,     (* bound: items in the stream                               *)
  MaxTags       (* bound: tags that the source and the block add            *)

Buffers == {"in", "out"}
Adders == {"source", "block"}
Tag == [by : Adders, at : Nat, offset : Nat]

ASSUME TagAssumption ==
  /\ Rate \in [Sinks -> Nat \ {0}]
  /\ Capacity \in Nat \ {0} /\ MaxItems \in Nat /\ MaxTags \in Nat
  /\ Sinks # {} /\ {"source", "block"} \cap Sinks = {}

VARIABLES
  tags,     (* [Buffers -> Seq(Tag)] _tags                                 *)
  written,  (* [Buffers -> Nat] _total_written                             *)
  read,     (* [Sinks \cup {"block"} -> Nat] _total_read                   *)
  pc,       (* what the executor is at for the block, the source, each sink *)
  n,        (* the items of the work call under way                        *)
  next,     (* the place propagate_tags looks at, and that of its end()    *)
  added,    (* {<<adder, item>>} tags added                                *)
  seen,     (* [Sinks -> Seq(Tag)] tags that work was given                *)
  disturbed (* history: a vector was changed in the middle of a walk       *)

vars == <<tags, written, read, pc, n, next, added, seen, disturbed>>

Readers == Sinks \cup {"block"}
Actors == Readers \cup {"source"}

Init ==
  /\ tags = [b \in Buffers |-> <<>>]
  /\ written = [b \in Buffers |-> 0]
  /\ read = [r \in Readers |-> 0]
  /\ pc = [a \in Actors |-> "idle"]
  /\ n = [a \in Actors |-> 0]
  /\ next = [at |-> 1, end |-> 1]
  /\ added = {}
  /\ seen = [s \in Sinks |-> <<>>]
  /\ disturbed = FALSE

Lowest(S) == CHOOSE x \in S : \A y \in S : x <= y

(* The readers of a buffer, and how far they are, in the items of the buffer. *)
ReadersOf(b) == IF b = "in" THEN {"block"} ELSE Sinks
RateOf(r) == IF r = "block" THEN 1 ELSE Rate[r]
Position(r) == read[r] * RateOf(r)
Space(b) == Capacity - (written[b] - Lowest({Position(r) : r \in ReadersOf(b)}))

(* The block is in the middle of its walk over the tags of "in". *)
Walking == pc["block"] = "propagate" /\ next.at < next.end

(* The entries of s at the places I, in their order. *)
Selected(s, I) ==
  LET upTo[i \in 0..Len(s)] ==
        IF i = 0 THEN <<>>
        ELSE IF i \in I THEN Append(upTo[i - 1], s[i]) ELSE upTo[i - 1]
  IN upTo[Len(s)]

(* add_tag, once for each of the items. *)
Added(b, by, items) ==
  tags[b] \o [i \in 1..Cardinality(items) |->
                LET at == SetToSeq(items)[i] IN [by |-> by, at |-> at, offset |-> at]]

(* tags_in_window: the tags whose offset, in the reader's items, is in the
   window, with that offset. *)
InWindow(b, rate, first, last) ==
  LET own == [i \in DOMAIN tags[b] |-> [tags[b][i] EXCEPT !.offset = @ \div rate]]
  IN Selected(own, {i \in DOMAIN own : own[i].offset >= first /\ own[i].offset < last})

-----------------------------------------------------------------------------
(* The source. *)

SourceWork(k, items) ==
  /\ pc["source"] = "idle"
  /\ k <= Space("in") /\ written["in"] + k <= MaxItems
  /\ items \subseteq written["in"]..(written["in"] + k - 1)
  /\ Cardinality(added) + Cardinality(items) <= MaxTags
  /\ tags' = [tags EXCEPT !["in"] = Added("in", "source", items)]
  /\ added' = added \cup {<<"source", i>> : i \in items}
  /\ n' = [n EXCEPT !["source"] = k]
  /\ pc' = [pc EXCEPT !["source"] = "post_write"]
  /\ disturbed' = (disturbed \/ (Walking /\ items # {}))
  /\ UNCHANGED <<written, read, next, seen>>

-----------------------------------------------------------------------------
(* The block. *)

(* end() of a buffer's vector. *)
EndOf(b) == Len(tags[b]) + 1

BlockWork(k, items) ==
  /\ pc["block"] = "idle"
  /\ k <= written["in"] - read["block"] /\ k <= Space("out")
  /\ items \subseteq written["out"]..(written["out"] + k - 1)
  /\ Cardinality(added) + Cardinality(items) <= MaxTags
  /\ tags' = [tags EXCEPT !["out"] = Added("out", "block", items)]
  /\ added' = added \cup {<<"block", i>> : i \in items}
  /\ n' = [n EXCEPT !["block"] = k]
  /\ next' = [at |-> 1, end |-> EndOf("in")]
  /\ pc' = [pc EXCEPT !["block"] = "propagate"]
  /\ UNCHANGED <<written, read, seen, disturbed>>

(* Mutant: propagates what is in the input's vector, whatever its window. *)
IsProcessedAll(t) == t.offset >= written["out"]

(* Propagate the tags that occurred in the processed window. *)
IsProcessed(t) == t.offset >= written["out"] /\ t.offset < written["out"] + n["block"]

(* One turn of the loop over the input's tags.  A place beyond the end of the
   vector, which a concurrent erase has shortened, is taken to hold no tag. *)
PropagateOne ==
  /\ pc["block"] = "propagate" /\ next.at < next.end
  /\ tags' = IF next.at \in DOMAIN tags["in"] /\ IsProcessed(tags["in"][next.at])
             THEN [tags EXCEPT !["out"] = Append(@, tags["in"][next.at])]
             ELSE tags
  /\ next' = [next EXCEPT !.at = @ + 1]
  /\ UNCHANGED <<written, read, pc, n, added, seen, disturbed>>

PropagateEnd ==
  /\ pc["block"] = "propagate" /\ next.at = next.end
  /\ pc' = [pc EXCEPT !["block"] = "post_read"]
  /\ UNCHANGED <<tags, written, read, n, next, added, seen, disturbed>>

-----------------------------------------------------------------------------
(* A sink. *)

SinkWork(s, k) ==
  /\ pc[s] = "idle"
  /\ k <= written["out"] \div Rate[s] - read[s]
  /\ seen' = [seen EXCEPT ![s] = @ \o InWindow("out", Rate[s], read[s], read[s] + k)]
  /\ n' = [n EXCEPT ![s] = k]
  /\ pc' = [pc EXCEPT ![s] = "post_read"]
  /\ UNCHANGED <<tags, written, read, next, added, disturbed>>

-----------------------------------------------------------------------------
(* The executor, after work: post_read of the inputs, then post_write and
   prune_tags of the outputs. *)

PostRead(r) ==
  /\ pc[r] = "post_read"
  /\ read' = [read EXCEPT ![r] = @ + n[r]]
  /\ pc' = [pc EXCEPT ![r] = IF r = "block" THEN "post_write" ELSE "idle"]
  /\ UNCHANGED <<tags, written, n, next, added, seen, disturbed>>

OutputOf(a) == IF a = "source" THEN "in" ELSE "out"

PostWrite(a) ==
  /\ pc[a] = "post_write"
  /\ written' = [written EXCEPT ![OutputOf(a)] = @ + n[a]]
  /\ pc' = [pc EXCEPT ![a] = "prune"]
  /\ UNCHANGED <<tags, read, n, next, added, seen, disturbed>>

(* Mutant: prunes what one of the readers has read. *)
AllHaveReadOne(b) ==
  Lowest({written[b]} \cup {read[r] : r \in ReadersOf(b) \ {CHOOSE s \in ReadersOf(b) : TRUE}})

(* The least number of items a reader has read, each in its own items. *)
AllHaveRead(b) == Lowest({written[b]} \cup {read[r] : r \in ReadersOf(b)})

PruneTags(a) ==
  LET b == OutputOf(a) IN
  /\ pc[a] = "prune"
  /\ tags' = [tags EXCEPT ![b] = Selected(@, {i \in DOMAIN @ : @[i].offset >= AllHaveRead(b)})]
  /\ pc' = [pc EXCEPT ![a] = "idle"]
  /\ disturbed' = (disturbed \/ (a = "source" /\ Walking /\ tags' # tags))
  /\ UNCHANGED <<written, read, n, next, added, seen>>

Next ==
  \/ \E k \in 1..Capacity, items \in SUBSET (0..(MaxItems - 1)) :
       SourceWork(k, items) \/ BlockWork(k, items)
  \/ PropagateOne \/ PropagateEnd
  \/ \E s \in Sinks, k \in 1..Capacity : SinkWork(s, k)
  \/ \E r \in Readers : PostRead(r)
  \/ \E a \in {"source", "block"} : PostWrite(a) \/ PruneTags(a)

Spec == Init /\ [][Next]_vars

-----------------------------------------------------------------------------
(* Properties. *)

(* How many items a sink's work has been given. *)
Given(s) == read[s] + (IF pc[s] = "post_read" THEN n[s] ELSE 0)

(* Every sink is given each tag with the item it was added to: no tag is
   lost, none comes twice or with another item, however far the block and the
   sinks are apart, until a walk is disturbed (propagate_tags, prune_tags,
   tags_in_window). *)
TagsReachTheirItems ==
  disturbed \/ \A s \in Sinks :
    /\ IsInjective(seen[s])
    /\ {<<t.by, t.at>> : t \in Range(seen[s])} =
         {a \in added : a[2] \div Rate[s] < Given(s)}
    /\ \A t \in Range(seen[s]) : t.offset = t.at \div Rate[s]

(* A tag is in the vector before its item can be read, and until every
   reader has read it: an output is posted after the tags are propagated to
   it, and pruned by the slowest reader; until a walk is disturbed. *)
TagsPrecedeItems ==
  disturbed \/ \A b \in Buffers : \A a \in added :
    LET first == Lowest({Position(r) : r \in ReadersOf(b)}) IN
    (a[2] \in first..(written[b] - 1) /\ (b = "in" => a[1] = "source")) =>
       Cardinality({i \in DOMAIN tags[b] :
          tags[b][i] = [by |-> a[1], at |-> a[2], offset |-> a[2]]}) = 1
=============================================================================
