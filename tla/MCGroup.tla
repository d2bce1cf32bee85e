------------------------------- MODULE MCGroup -------------------------------
(* An operator and two ordinary users; the second user announces the same
   identifier as the operator.  Two group objects, so that a group can be
   deleted and created again while a client still holds the old one. *)
EXTENDS Group, TLC

CONSTANTS c1, c2, c3, i1, i2

MCClients == {c1, c2, c3}
MCIds == {i1, i2}
MCIdOf == (c1 :> i1) @@ (c2 :> i2) @@ (c3 :> i1)
MCLoginOp == {c1}

Plain == [autolock |-> FALSE, autokick |-> FALSE, public |-> FALSE,
          redirect |-> FALSE, max |-> 1]

\* A group that needs an operator, and one that anybody may join.
MCDescs == {[Plain EXCEPT !.autolock = TRUE, !.autokick = TRUE],
            [Plain EXCEPT !.public = TRUE]}

\* With these instead, NoGhost does not hold: see the README.
MCRedirectDescs == {Plain, [Plain EXCEPT !.redirect = TRUE]}
=============================================================================
