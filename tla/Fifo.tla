-------------------------------- MODULE Fifo --------------------------------
(***************************************************************************)
(* What an unbounded channel promises to its users: every element that a   *)
(* producer puts is accepted at once and handed to the single consumer,    *)
(* exactly once and in the order of acceptance.                            *)
(***************************************************************************)
EXTENDS Naturals, Sequences

CONSTANT Item            \* the elements that travel through the channel

VARIABLES pending,       \* accepted and not yet handed to the consumer
          delivered      \* everything the consumer was given, oldest first

vars == <<pending, delivered>>

Init == pending = <<>> /\ delivered = <<>>

Accept(i) == /\ pending' = Append(pending, i)
             /\ UNCHANGED delivered

\* The consumer is given all that is pending.
Deliver == /\ pending # <<>>
           /\ delivered' = delivered \o pending
           /\ pending' = <<>>

Next == (\E i \in Item : Accept(i)) \/ Deliver

Safety == Init /\ [][Next]_vars

Spec == Safety /\ WF_vars(Deliver)
=============================================================================
