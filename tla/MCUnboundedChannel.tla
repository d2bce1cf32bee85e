------------------------- MODULE MCUnboundedChannel -------------------------
(* Three producers that put twice each: enough for a Put to find the queue
   empty, non-empty, or emptied under it, with the token present or not. *)
EXTENDS UnboundedChannel
=============================================================================
