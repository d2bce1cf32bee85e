------------------------------ MODULE MCStreams ------------------------------
(* A publisher p and a receiver s that wants audio and video.  Tracks differ
   only by their names, and so do streams, which all belong to p. *)
EXTENDS Streams, TLC

CONSTANTS p, s, u1, u2

MCOwner == [u \in Streams |-> p]
MCChoices == SUBSET Tracks
MCSymmetry == Permutations(Streams) \cup Permutations(Tracks)
=============================================================================
