--------------------------- MODULE MCNbtRuntime ---------------------------
(* Small flowgraphs for TLC. *)
EXTENDS NbtRuntime, TLC

(* source -> middle -> sink, a thread for each block; the source is a
   vector_source of one item. *)
Chain == <<"source", "middle", "sink">>
ChainEdges == {<<"source", "middle">>, <<"middle", "sink">>}
OneThreadEach == "tsource" :> <<"source">> @@ "tmiddle" :> <<"middle">> @@ "tsink" :> <<"sink">>
SourceStopsAtOnce == "source" :> 1 @@ "middle" :> 0 @@ "sink" :> 0

(* source -> middle -> copy -> sink. *)
LongChain == <<"source", "middle", "copy", "sink">>
LongChainEdges == {<<"source", "middle">>, <<"middle", "copy">>, <<"copy", "sink">>}

(* Two schedulers with two blocks each: the first has a thread for each of
   them, the second a group of both; the source is a vector_source of five
   items. *)
HalfInThreads == "tsource" :> <<"source">> @@ "tmiddle" :> <<"middle">> @@ "tsink" :> <<"copy", "sink">>
TwoSchedulers == "tsource" :> 1 @@ "tmiddle" :> 1 @@ "tsink" :> 2
SourceStopsAfterFive == "source" :> 5 @@ "middle" :> 0 @@ "copy" :> 0 @@ "sink" :> 0

(* All in a group that runs its blocks from the sink up, so that an item takes
   an iteration for each block it passes; the middle block is a head. *)
ReverseChain == <<"sink", "copy", "middle", "source">>
LongGroup == "t" :> ReverseChain
LongHeadStops == "source" :> 0 @@ "middle" :> 3 @@ "copy" :> 0 @@ "sink" :> 0

OneScheduler == [t \in DOMAIN Group |-> 1]

(* min_buffer_read: not set, or two items at the sink or the middle block. *)
NoMinimum == [e \in Edges |-> 0]
SinkMinimum == [e \in Edges |-> IF e[2] = "sink" THEN 2 ELSE 0]
MiddleMinimum == [e \in Edges |-> IF e[2] = "middle" THEN 2 ELSE 0]
=============================================================================
