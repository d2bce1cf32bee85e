----------------------------- MODULE PacketCache -----------------------------
(***************************************************************************)
(* packetcache/packetcache.go: the last packets of a track in a ring that  *)
(* is resized while it is used, the last keyframe, and the bitmap of the   *)
(* packets received, from which those to ask for again are read.           *)
(*                                                                         *)
(* A packet is what the publisher has sent, whatever it contains; the      *)
(* entry that holds it has its number too.  The counts for the receiver    *)
(* reports are left out.                                                   *)
(***************************************************************************)
EXTENDS PacketMap

CONSTANTS Packets,
          NoPacket,
          BitmapSize,   \* 32
          NackSize,     \* 17: what fits into one NACK
          TooOld        \* 0x100: what is further in the past is a new stream

ASSUME PacketCacheAssumption ==
    /\ NoPacket \notin Packets
    /\ BitmapSize \in Nat \ {0} /\ NackSize \in 1..BitmapSize
    /\ TooOld \in Nat

Entry == [seqno : Seqno, packet : Packets \cup {NoPacket}]

Bitmap == [valid : BOOLEAN, first : Seqno, bits : SUBSET (0..(BitmapSize - 1))]

\* Memory is zeroed.
Empty == [seqno |-> 0, packet |-> NoPacket]

NoBitmap == [valid |-> FALSE, first |-> 0, bits |-> {}]

Nowhere == [valid |-> FALSE, at |-> 0]

New(capacity) == [last |-> Nowhere, keyframe |-> Nowhere, bitmap |-> NoBitmap,
                  tail |-> 0, entries |-> [i \in 1..capacity |-> Empty]]

\* seqnoInvalid.
Invalid(s, reference) ==
    /\ AtOrAfter(reference, s)
    /\ Minus(reference, s) > TooOld
-----------------------------------------------------------------------------
(* The bitmap. *)

\* Shift right: the bits that fall out are forgotten.
Shift(b, n) == [b EXCEPT !.first = Plus(@, n),
                         !.bits = {i - n : i \in {j \in b.bits : j >= n}}]

TrailingOnes(b) == CHOOSE n \in 0..BitmapSize :
                       0..(n - 1) \subseteq b.bits /\ n \notin b.bits

\* Room for s, then the packets that are known to have come are shifted out.
Slide(b, s) ==
    LET b1 == IF Minus(s, b.first) >= BitmapSize
              THEN Shift(b, Minus(s, b.first) - (BitmapSize - 1)) ELSE b
    IN IF 0 \in b1.bits THEN Shift(b1, TrailingOnes(b1)) ELSE b1

\* Mutation: the bit is counted from where the bitmap began before it slid.
SetBitUnslid(b, s) ==
    CASE ~b.valid \/ Invalid(s, b.first) ->
            [valid |-> TRUE, first |-> s, bits |-> {0}]
      [] b.valid /\ ~Invalid(s, b.first) /\ b.first # s /\ AtOrAfter(b.first, s) -> b
      [] OTHER -> [Slide(b, s) EXCEPT !.bits = @ \cup
                       ({Minus(s, b.first)} \cap 0..(BitmapSize - 1))]

\* bitmap.set.
SetBit(b, s) ==
    LET b2 == Slide(b, s)
    IN CASE ~b.valid \/ Invalid(s, b.first) ->
              [valid |-> TRUE, first |-> s, bits |-> {0}]
         [] b.valid /\ ~Invalid(s, b.first) /\ b.first # s /\ AtOrAfter(b.first, s) -> b
         [] OTHER -> [b2 EXCEPT !.bits = @ \cup
                         ({Minus(s, b2.first)} \cap 0..(BitmapSize - 1))]

\* bitmap.get: how many packets are looked at, those that have not come ...
NackCount(b, next) ==
    IF AtOrAfter(b.first, next) THEN 0
    ELSE IF Minus(next, b.first) > NackSize THEN NackSize
    ELSE Minus(next, b.first)

Nacked(b, next) ==
    {Plus(b.first, i) : i \in 0..(NackCount(b, next) - 1) \ b.bits}

\* ... and what is left.
AfterNack(b, next) == Shift(b, NackCount(b, next))
-----------------------------------------------------------------------------
(* The ring. *)

Capacity(c) == Len(c.entries)

\* Mutation: the end of the ring is not noticed.
StoreStraight(c, s, packet, keyframe) ==
    [c EXCEPT !.last = [valid |-> TRUE, at |-> s],
              !.bitmap = SetBit(@, s),
              !.tail = @ + 1,
              !.entries[c.tail + 1] = [seqno |-> s, packet |-> packet]]

\* Store, at the index c.tail.
Store(c, s, packet, keyframe) ==
    LET invalid == ~c.last.valid \/ Invalid(s, c.last.at)
        newer == invalid \/ (c.last.at # s /\ AtOrBefore(c.last.at, s))
        overtaken == /\ newer /\ ~invalid
                     /\ c.keyframe.at # s /\ AtOrAfter(c.keyframe.at, s)
    IN [last |-> IF newer THEN [valid |-> TRUE, at |-> s] ELSE c.last,
        keyframe |-> CASE keyframe -> [valid |-> TRUE, at |-> s]
                       [] ~keyframe /\ overtaken -> [c.keyframe EXCEPT !.valid = FALSE]
                       [] OTHER -> c.keyframe,
        bitmap |-> SetBit(c.bitmap, s),
        tail |-> (c.tail + 1) % Capacity(c),
        entries |-> [c.entries EXCEPT
                        ![c.tail + 1] = [seqno |-> s, packet |-> packet]]]

\* Get: the first entry with that number.
Get(c, s) ==
    LET found == {i \in 1..Capacity(c) :
                    c.entries[i].packet # NoPacket /\ c.entries[i].seqno = s}
    IN IF found = {} THEN NoPacket
       ELSE c.entries[CHOOSE i \in found : \A j \in found : i <= j].packet

\* GetAt: the entry at that index, if it has that number.
GetAt(c, s, index) ==
    IF index >= Capacity(c) \/ c.entries[index + 1].seqno # s THEN NoPacket
    ELSE c.entries[index + 1].packet

\* Mutation: what is copied begins at the wrong end.
ResizeOldest(c, capacity) ==
    LET n == Capacity(c)
        old == c.entries
        empty == [i \in 1..(capacity - n) |-> Empty]
    IN CASE capacity = n -> c
         [] capacity > n ->
              [c EXCEPT !.entries = SubSeq(old, 1, c.tail) \o empty
                                    \o SubSeq(old, c.tail + 1, n)]
         [] capacity < n /\ capacity > c.tail ->
              [c EXCEPT !.entries = SubSeq(old, 1, c.tail)
                                    \o SubSeq(old, c.tail + 1, capacity)]
         [] OTHER ->
              [c EXCEPT !.entries = SubSeq(old, 1, capacity), !.tail = 0]

\* resize: the room is made, or the oldest packets are left out, just after
\* the tail.
Resize(c, capacity) ==
    LET n == Capacity(c)
        old == c.entries
        empty == [i \in 1..(capacity - n) |-> Empty]
    IN CASE capacity = n -> c
         [] capacity > n ->
              [c EXCEPT !.entries = SubSeq(old, 1, c.tail) \o empty
                                    \o SubSeq(old, c.tail + 1, n)]
         [] capacity < n /\ capacity > c.tail ->
              [c EXCEPT !.entries = SubSeq(old, 1, c.tail)
                                    \o SubSeq(old, c.tail + n - capacity + 1, n)]
         [] OTHER ->
              [c EXCEPT !.entries = SubSeq(old, c.tail - capacity + 1, c.tail),
                        !.tail = 0]

\* ResizeCond: only by a lot, and not below the tail.
ResizeCond(c, capacity) ==
    LET n == Capacity(c)
    IN IF \/ n >= (capacity * 3) \div 4 /\ n < capacity * 2
          \/ capacity < n /\ c.tail > capacity
       THEN c ELSE Resize(c, capacity)
=============================================================================
