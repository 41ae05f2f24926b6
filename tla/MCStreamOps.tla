----------------------------- MODULE MCStreamOps -----------------------------
(* Small instances of StreamOps for TLC. *)
EXTENDS StreamOps
EveryKind == Sources \cup {"delay", "keep_m_in_n", "interleave", "deinterleave",
                           "stream_to_streams", "head", "fir_filter", "moving_average",
                           "file_sink"}
(* No block sets a min_buffer_read; the application can give the inputs of the
   filters the one that they need. *)
DefaultAndNeeded == [k \in Kinds |-> CASE k = "fir_filter" -> {0, Taps - 1}
                                       [] k = "moving_average" -> {0, 2 * Length}
                                       [] OTHER -> {0}]
(* What follows when a block has gone astray is not explored: every property
   has settled by then, AllIsUsed too, as astray stays. *)
UntilAstray == ~astray
=============================================================================
