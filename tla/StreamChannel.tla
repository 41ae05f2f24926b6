--------------------------- MODULE StreamChannel ---------------------------
(***************************************************************************)
(* What a stream buffer promises to the two sides of an edge: every reader *)
(* is handed the bytes of one stream, in order, none lost and none twice,  *)
(* each reader at its own pace, and the writer is never more than Capacity *)
(* bytes ahead of the slowest reader.  Bytes are named by their position   *)
(* in the stream.  There is no memory, no index and no lock here.          *)
(***************************************************************************)
EXTENDS Integers, Sequences

CONSTANTS
  Readers,   (* the buffer readers attached to the output port             *)
  Capacity   (* the most bytes a reader may have waiting                   *)

VARIABLES
  sent,      (* bytes the writer has made visible                          *)
  taken,     (* [Readers -> Nat] bytes each reader has given back          *)
  seen       (* [Readers -> Seq(Nat)] bytes looked at since the last Take  *)

vars == <<sent, taken, seen>>

Init ==
  /\ sent = 0
  /\ taken = [r \in Readers |-> 0]
  /\ seen = [r \in Readers |-> <<>>]

(* The writer publishes n bytes that every reader has room for. *)
Send(n) ==
  /\ \A r \in Readers : sent + n - taken[r] <= Capacity
  /\ sent' = sent + n
  /\ UNCHANGED <<taken, seen>>

(* A reader looks at the next byte it has been sent. *)
See(r) ==
  LET next == taken[r] + Len(seen[r]) IN
  /\ next < sent
  /\ seen' = [seen EXCEPT ![r] = Append(@, next)]
  /\ UNCHANGED <<sent, taken>>

(* A reader gives n bytes back to the writer, whether it looked or not. *)
Take(r, n) ==
  /\ n <= sent - taken[r]
  /\ taken' = [taken EXCEPT ![r] = @ + n]
  /\ seen' = [seen EXCEPT ![r] = <<>>]
  /\ UNCHANGED sent

Next ==
  \/ \E n \in 0..Capacity : Send(n)
  \/ \E r \in Readers : See(r) \/ \E n \in 0..Capacity : Take(r, n)

Spec == Init /\ [][Next]_vars
=============================================================================
