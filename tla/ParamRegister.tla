--------------------------- MODULE ParamRegister ---------------------------
(***************************************************************************)
(* What a block's parameter promises to those who set and get it: it is a  *)
(* register.  A call takes effect at one moment between its invocation and *)
(* its return; a change that nobody waits for (a post) takes effect at one *)
(* moment after it was made, or never.  What one client submits takes      *)
(* effect in the order in which it was submitted.                          *)
(***************************************************************************)
EXTENDS Integers, Sequences

CONSTANTS Clients, Values, InitialValue

VARIABLES
  reg,      (* the parameter                                               *)
  state,    (* [Clients -> state] of the client's call: "idle", "called",  *)
            (* "submitted", "taken"                                        *)
  call,     (* [Clients -> operation] the call under way                   *)
  answer,   (* [Clients -> value] what the call answers                    *)
  pending   (* [Clients -> Seq(operation)] submitted, not yet in effect    *)

vars == <<reg, state, call, answer, pending>>

Operation == [kind : {"set", "get", "post"}, value : Values]

(* The call of a client that makes none. *)
NoCall == [kind |-> "get", value |-> InitialValue]

Init ==
  /\ reg = InitialValue
  /\ state = [c \in Clients |-> "idle"]
  /\ call = [c \in Clients |-> NoCall]
  /\ answer = [c \in Clients |-> InitialValue]
  /\ pending = [c \in Clients |-> <<>>]

(* The parameter after operation o. *)
Applied(o) == IF o.kind = "get" THEN reg ELSE o.value

Call(c, o) ==
  /\ state[c] = "idle" /\ o.kind # "post"
  /\ state' = [state EXCEPT ![c] = "called"]
  /\ call' = [call EXCEPT ![c] = o]
  /\ UNCHANGED <<reg, answer, pending>>

Effect(c) ==
  /\ state[c] = "called"
  /\ reg' = Applied(call[c])
  /\ answer' = [answer EXCEPT ![c] = reg']
  /\ state' = [state EXCEPT ![c] = "taken"]
  /\ UNCHANGED <<call, pending>>

Submit(c) ==
  /\ state[c] = "called"
  /\ state' = [state EXCEPT ![c] = "submitted"]
  /\ pending' = [pending EXCEPT ![c] = Append(@, call[c])]
  /\ UNCHANGED <<reg, call, answer>>

Post(c, o) ==
  /\ state[c] = "idle" /\ o.kind = "post"
  /\ \/ /\ pending' = [pending EXCEPT ![c] = Append(@, o)]
        /\ UNCHANGED reg
     \/ /\ reg' = Applied(o)
        /\ UNCHANGED pending
  /\ UNCHANGED <<state, call, answer>>

Serve(c) ==
  /\ pending[c] # <<>>
  /\ LET o == Head(pending[c]) IN
     /\ reg' = Applied(o)
     /\ pending' = [pending EXCEPT ![c] = Tail(@)]
     /\ IF o.kind = "post" THEN UNCHANGED <<state, answer>>
        ELSE /\ state[c] = "submitted"
             /\ state' = [state EXCEPT ![c] = "taken"]
             /\ answer' = [answer EXCEPT ![c] = reg']
  /\ UNCHANGED call

Return(c) ==
  /\ state[c] = "taken"
  /\ state' = [state EXCEPT ![c] = "idle"]
  /\ call' = [call EXCEPT ![c] = NoCall]
  /\ UNCHANGED <<reg, answer, pending>>

Next ==
  \E c \in Clients :
    \/ \E o \in Operation : Call(c, o) \/ Post(c, o)
    \/ Effect(c) \/ Submit(c) \/ Serve(c) \/ Return(c)

Spec == Init /\ [][Next]_vars
=============================================================================
