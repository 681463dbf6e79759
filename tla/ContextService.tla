--------------------------- MODULE ContextService --------------------------
(* What an invoker pool promises to the contexts that it serves (the class  *)
(* comments of sb/Context.h and sb/InvokerPool.h): the messages of a context*)
(* are processed one at a time, in the order in which they arrived, those   *)
(* of immediate priority before the others.  Work queues, invoker threads   *)
(* and their scheduling are not visible here.                               *)
EXTENDS Sequences, SequencesExt, Integers

CONSTANTS Contexts, Msgs

VARIABLES
    immediate,  \* each context's messages of immediate priority
    standard,   \* each context's other messages
    current,    \* the queue whose first message is being processed, or "none"
    unsent      \* the messages that have yet to arrive

vars == <<immediate, standard, current, unsent>>

Init ==
    /\ immediate = [c \in Contexts |-> <<>>]
    /\ standard = [c \in Contexts |-> <<>>]
    /\ current = [c \in Contexts |-> "none"]
    /\ unsent = Msgs

Arrive(c, m) ==
    /\ m \in unsent
    /\ unsent' = unsent \ {m}
    /\ \/ /\ immediate' = [immediate EXCEPT ![c] = Append(@, m)]
          /\ UNCHANGED standard
       \/ /\ standard' = [standard EXCEPT ![c] = Append(@, m)]
          /\ UNCHANGED immediate
    /\ UNCHANGED current

Begin(c) ==
    /\ current[c] = "none"
    /\ \/ immediate[c] # <<>> /\ current' = [current EXCEPT ![c] = "immediate"]
       \/ /\ immediate[c] = <<>> /\ standard[c] # <<>>
          /\ current' = [current EXCEPT ![c] = "standard"]
    /\ UNCHANGED <<immediate, standard, unsent>>

End(c) ==
    /\ \/ /\ current[c] = "immediate"
          /\ immediate' = [immediate EXCEPT ![c] = Tail(@)]
          /\ UNCHANGED standard
       \/ /\ current[c] = "standard"
          /\ standard' = [standard EXCEPT ![c] = Tail(@)]
          /\ UNCHANGED immediate
    /\ current' = [current EXCEPT ![c] = "none"]
    /\ UNCHANGED unsent

\* While it is processing a message, a context may withdraw a later timeout
Withdraw(c) ==
    /\ current[c] # "none"
    /\ \E k \in 1 .. Len(standard[c]) :
        /\ current[c] = "standard" => k > 1
        /\ standard' = [standard EXCEPT ![c] = RemoveAt(@, k)]
    /\ UNCHANGED <<immediate, current, unsent>>

\* A context is deleted, with its messages: because it has become idle, because
\* its transaction trapped, or because its invoker exited
Discard(c) ==
    /\ immediate' = [immediate EXCEPT ![c] = <<>>]
    /\ standard' = [standard EXCEPT ![c] = <<>>]
    /\ current' = [current EXCEPT ![c] = "none"]
    /\ UNCHANGED unsent

Next ==
    \E c \in Contexts :
        \/ \E m \in Msgs : Arrive(c, m)
        \/ Begin(c)
        \/ End(c)
        \/ Withdraw(c)
        \/ Discard(c)

Spec == Init /\ [][Next]_vars
=============================================================================
