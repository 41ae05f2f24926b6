---------------------------- MODULE MCGraphSetup ----------------------------
(* A small instance of GraphSetup for TLC: a null_source, a null_sink and a  *)
(* copy of no declared size, a block from float to complex, a vector_sink of *)
(* complex, and a hierarchical block around two copies of floats.            *)
EXTENDS GraphSetup, TLC

TheBlocks == {"source", "copy", "convert", "sink", "null"}
TheHiers == {"hier"}
TheInputs == "source" :> <<>> @@ "copy" :> <<"ci">> @@ "convert" :> <<"vi">>
             @@ "sink" :> <<"si">> @@ "null" :> <<"ni">> @@ "hier" :> <<"hin">>
             @@ "c1" :> <<"c1i">> @@ "c2" :> <<"c2i">>
TheOutputs == "source" :> <<"so">> @@ "copy" :> <<"co">> @@ "convert" :> <<"vo">>
              @@ "sink" :> <<>> @@ "null" :> <<>> @@ "hier" :> <<"hout">>
              @@ "c1" :> <<"c1o">> @@ "c2" :> <<"c2o">>
TheHierEdges == "hier" :> << <<"hin", "c1i">>, <<"c1o", "c2i">>, <<"c2o", "hout">> >>
Sizes == [p \in {"so", "ci", "co", "ni"} |-> 0] @@ [p \in {"vo", "si"} |-> 8]
         @@ [p \in {"vi", "hin", "hout", "c1i", "c1o", "c2i", "c2o"} |-> 4]
OneGroup == { {"source", "copy"} }
=============================================================================
