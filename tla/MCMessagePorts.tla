--------------------------- MODULE MCMessagePorts ---------------------------
(* Small flowgraphs of msg_forward blocks for TLC. *)
EXTENDS MessagePorts, TLC

Three == {"a", "b", "c"}

(* a -> c <- b: two producers, b and c in one thread. *)
FanIn == "a" :> <<"c">> @@ "b" :> <<"c">> @@ "c" :> <<>>
TwoThreads == "a" :> "t1" @@ "b" :> "t2" @@ "c" :> "t2"
FanInPosts == <<<<"a", <<"x", 1>>>>, <<"b", <<"y", 1>>>>, <<"a", <<"x", 2>>>>>>
SinkStops == "a" :> 0 @@ "b" :> 0 @@ "c" :> 2

(* a -> b and a -> c: one object for two ports. *)
FanOut == "a" :> <<"b", "c">> @@ "b" :> <<>> @@ "c" :> <<>>
ThreadEach == "a" :> "t1" @@ "b" :> "t2" @@ "c" :> "t3"
OnePost == <<<<"a", <<"x", 1>>>>>>
NoneStops == [b \in Three |-> 0]
=============================================================================
