---------------------------- MODULE MCForwarding ----------------------------
(* A keyframe of one packet, then frames of two packets, every other one in
   the upper layer.  Numbers wrap. *)
EXTENDS Forwarding

MCPackets == 1..MaxPacket
MCFlags(p) == [tid |-> IF p % 4 \in {2, 3} THEN 1 ELSE 0,
               start |-> p = 1 \/ p % 2 = 0, keyframe |-> p = 1,
               sync |-> p % 4 = 2, marker |-> p % 2 = 1]

\* Frames of one packet, the second of which alone is in the upper layer.
MCFlagsOnce(p) == [tid |-> IF p = 2 THEN 1 ELSE 0, start |-> TRUE,
                   keyframe |-> p = 1, sync |-> FALSE, marker |-> TRUE]
=============================================================================
