----------------------------- MODULE MCWebClient -----------------------------
(* An operator c1 and users with identifiers of their own, in a group that
   kicks its users when it has no operator. *)
EXTENDS WebClient, TLC

CONSTANTS c1, c2, c3, i1, i2, i3

MCIds == {i1, i2, i3}
MCIdOf == [c \in Clients |-> CASE c = c1 -> i1 [] c = c2 -> i2 [] c = c3 -> i3]
MCDescs == {[autolock |-> FALSE, autokick |-> TRUE, public |-> FALSE,
             redirect |-> FALSE, max |-> 2]}
=============================================================================
