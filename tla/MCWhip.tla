------------------------------- MODULE MCWhip -------------------------------
(* A publisher comes to a group with another one and a web client, which is
   recorded as well. *)
EXTENDS Whip

CONSTANTS w1, w2, v, r
=============================================================================
