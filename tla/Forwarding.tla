----------------------------- MODULE Forwarding -----------------------------
(***************************************************************************)
(* From a publisher's track to a receiver: the loop of rtpreader.go, which *)
(* stores packets in the cache (module PacketCache) and hands their place  *)
(* in it to the loop of rtpwriter.go; the goroutine that sends a new       *)
(* receiver what it has missed since the last keyframe; the receiver's     *)
(* requests for lost packets (rtpconn.go); and rtpDownTrack.Write, which   *)
(* all of these call, and which leaves out the layers that the receiver    *)
(* cannot take and numbers the others (module PacketMap).                  *)
(*                                                                         *)
(* Packets may be lost, or late, before they are read; none comes twice.   *)
(* Layers are temporal ones; the choice of a layer, which depends on bit   *)
(* rates, is free.  The pool has one writer, and the writer one receiver.  *)
(*                                                                         *)
(* Definitions marked "Mutation" are mistakes that the properties must     *)
(* notice, and not part of the model.                                      *)
(***************************************************************************)
EXTENDS PacketCache

CONSTANTS Start,        \* the number before that of the first packet
          MaxPacket,    \* bound: how many packets the publisher sends
          Flags(_),     \* what a packet is, see PacketFlags
          MaxTid,       \* bound: the layers
          Capacities,   \* the sizes the cache may have
          QueueSize,    \* 32: the capacity of writer.ch
          Unnacked,     \* 4: the newest packets are not asked for
          Late,         \* when a packet is late
          Reorder       \* bound: how late packets come, how many are lost

ASSUME ForwardingAssumption ==
    /\ Packets = 1..MaxPacket
    /\ \A p \in Packets :
         Flags(p) \in [tid : 0..MaxTid, start : BOOLEAN, keyframe : BOOLEAN,
                       sync : BOOLEAN, marker : BOOLEAN]
    /\ Start \in Seqno /\ MaxPacket \in Nat /\ MaxTid \in Nat
    /\ Capacities \subseteq Nat \ {0} /\ Capacities # {}
    /\ QueueSize \in Nat \ {0} /\ Unnacked \in Nat /\ Late \in Nat
    /\ Reorder \in Nat

\* The goroutines that write to the receiver.
Threads == {"writer", "sequence", "nack"}

VARIABLES cache,        \* track.cache
          queue, drop,  \* writer.ch and writer.drop
          joined,       \* the writer has the receiver in its list
          adding,       \* what the writer does next about it
          sequence,     \* what sendSequence has left to send
          hand,         \* the packet that each goroutine is about to send
          layer, map,   \* of the receiver's track
          nacks,        \* track.bufferedNACKs
          nackWriters,  \* the goroutines that wait to send them
          received,     \* what has been read,
          stored,       \* the last packets that have been,
          delivered,    \* what has been sent, under which numbers,
          dropped       \* and what has been dropped on purpose

readerVars == <<cache, queue, drop, received, stored>>
trackVars == <<layer, map, delivered, dropped>>
nackVars == <<nacks, nackWriters>>
vars == <<readerVars, joined, adding, sequence, hand, trackVars, nackVars>>

Number(p) == Plus(Start, p)

NoSequence == [active |-> FALSE, at |-> 0, last |-> 0]

MinCapacity == CHOOSE n \in Capacities : \A m \in Capacities : n <= m

Init == /\ cache = New(MinCapacity)
        /\ queue = <<>> /\ drop = 0
        /\ joined = FALSE /\ adding = "nothing"
        /\ sequence = NoSequence
        /\ hand = [t \in Threads |-> NoPacket]
        /\ layer = [tid |-> 0, wanted |-> 0, max |-> 0]
        /\ map = NewMap
        /\ nacks = {} /\ nackWriters = 0
        /\ received = {} /\ stored = <<>>
        /\ delivered = {} /\ dropped = {}
-----------------------------------------------------------------------------
(* The publisher's side. *)

\* How far the packet is ahead of the first one in the bitmap.
Ahead(c, p) == LET d == Minus(Number(p), c.bitmap.first)
               IN IF d >= Mod \div 2 THEN 0 ELSE d

\* rtpWriterPool.write: the queue takes the packet, or if it is full, then
\* all of the frame is dropped.
Enqueue(p, index) ==
    LET marker == Flags(p).marker
    IN IF ~joined THEN UNCHANGED <<queue, drop>>
       ELSE IF drop > 0
       THEN drop' = (IF marker THEN 0 ELSE drop - 1) /\ UNCHANGED queue
       ELSE IF Len(queue) < QueueSize
       THEN queue' = Append(queue, [seqno |-> Number(p), index |-> index])
            /\ UNCHANGED drop
       ELSE drop' = (IF marker THEN 0 ELSE 7) /\ UNCHANGED queue

\* What the publisher may send next: packets are late or lost.  (A goroutine
\* that writes a packet is not delayed for thousands of others.)
Arriving == {p \in Packets \ received :
               /\ \A q \in received : q - p <= Reorder
               /\ \E q \in received \cup {0} : p - q <= 1 + Reorder
               /\ \A t \in Threads : hand[t] # NoPacket => p - hand[t] < Window}

\* The packets late by too much before p, which are asked for again.
After(p) == Store(cache, Number(p), p, Flags(p).keyframe)
Limit(p) == Minus(Number(p), Unnacked)
IsLate(p) == Ahead(After(p), p) > Late
Asked(p) == IF IsLate(p) THEN Nacked(After(p).bitmap, Limit(p)) ELSE {}

\* readLoop: a packet is stored; those before it that are late are asked for
\* again; the packet goes to the writer.
Read(p) ==
    /\ p \in Arriving
    /\ cache' = IF IsLate(p)
                THEN [After(p) EXCEPT !.bitmap = AfterNack(@, Limit(p))]
                ELSE After(p)
    /\ received' = received \cup {p}
    /\ stored' = LET all == Append(stored, p)
                 IN IF Len(all) <= MinCapacity THEN all ELSE Tail(all)
    /\ Enqueue(p, cache.tail)
    /\ UNCHANGED <<joined, adding, sequence, hand, trackVars, nackVars>>

\* updateUpTrack: the size of the cache follows delays and bit rate.
UpdateUpTrack ==
    /\ \E n \in Capacities : cache' = ResizeCond(cache, n)
    /\ cache' # cache
    /\ UNCHANGED <<queue, drop, received, stored, joined, adding, sequence,
                   hand, trackVars, nackVars>>
-----------------------------------------------------------------------------
(* The first half of rtpDownTrack.Write: the layer. *)

\* adjustLayer, whatever the bit rates: a step up or down is wanted, or none.
\* It is called at any time; only the next packet makes a difference.
Adjusted(l) == {l} \cup {[l EXCEPT !.wanted = w] :
                          w \in {l.tid - 1, l.tid + 1} \cap 0..l.max}

\* A layer that was never seen before is taken at once.
Seen(l, f) ==
    IF f.tid <= l.max THEN {l}
    ELSE Adjusted(IF l.tid = l.max
                  THEN [tid |-> f.tid, wanted |-> f.tid, max |-> f.tid]
                  ELSE [l EXCEPT !.max = f.tid])

\* The layer changes at the beginning of a frame: at once at a keyframe and
\* downwards, upwards when the new layer can be decoded from there.
Switched(l, f) ==
    CASE ~f.start \/ l.tid = l.wanted -> l
      [] f.start /\ l.tid # l.wanted /\ (f.keyframe \/ l.wanted < l.tid) ->
            [l EXCEPT !.tid = l.wanted]
      [] f.start /\ l.tid < l.wanted /\ ~f.keyframe ->
            IF f.sync /\ f.tid <= l.wanted THEN [l EXCEPT !.tid = f.tid] ELSE l

Hold(t, p) == hand' = [hand EXCEPT ![t] = p]

\* Mutation: a packet may be dropped although another one is missing before.
CheckLayerAlways(t, p) ==
    \E l \in Adjusted(layer) :
        /\ layer' \in {Switched(m, Flags(p)) : m \in Seen(l, Flags(p))}
        /\ IF Flags(p).tid > layer'.tid
           THEN /\ map' = Dropped(map, Number(p))
                /\ dropped' = dropped \cup {p}
                /\ UNCHANGED hand
           ELSE Hold(t, p) /\ UNCHANGED <<map, dropped>>

\* A packet of a layer that the receiver does not get is dropped, if it is
\* the next one.
CheckLayer(t, p) ==
    \E l \in Adjusted(layer) :
        /\ layer' \in {Switched(m, Flags(p)) : m \in Seen(l, Flags(p))}
        /\ IF Flags(p).tid > layer'.tid /\ MayDrop(map, Number(p))
           THEN /\ map' = Dropped(map, Number(p))
                /\ dropped' = dropped \cup {p}
                /\ UNCHANGED hand
           ELSE Hold(t, p) /\ UNCHANGED <<map, dropped>>

\* A goroutine takes a packet, if it has found it, and begins to write it.
Take(t, p) ==
    /\ hand[t] = NoPacket
    /\ IF p = NoPacket THEN UNCHANGED <<hand, layer, map, dropped>>
       ELSE CheckLayer(t, p)
    /\ UNCHANGED delivered
-----------------------------------------------------------------------------
(* The goroutines that fetch packets for the receiver. *)

\* rtpWriterLoop adds a receiver to its list, and lets the reader go on.
AddTrack ==
    /\ ~joined
    /\ joined' = TRUE
    /\ adding' = "last"
    /\ UNCHANGED <<readerVars, sequence, hand, trackVars, nackVars>>

\* It looks for the last packet, if there is any,
FindLast ==
    /\ adding = "last"
    /\ adding' = IF cache.last.valid THEN "keyframe" ELSE "nothing"
    /\ sequence' = [NoSequence EXCEPT !.last = cache.last.at]
    /\ UNCHANGED <<readerVars, joined, hand, trackVars, nackVars>>

\* and for the last keyframe: if that is recent, then all since then is sent
\* by a goroutine of its own.
StartSequence ==
    LET kf == cache.keyframe
    IN /\ adding = "keyframe"
       /\ adding' = "nothing"
       /\ sequence' = IF kf.valid /\ Minus(sequence.last, kf.at) < 40
                      THEN [active |-> TRUE, at |-> kf.at, last |-> sequence.last]
                      ELSE NoSequence
       /\ UNCHANGED <<readerVars, joined, hand, trackVars, nackVars>>

\* rtpWriterLoop gets a packet from the cache, where the reader has put it.
\* It may not be there any more.
WriterTakes ==
    /\ queue # <<>> /\ adding = "nothing"
    /\ queue' = Tail(queue)
    /\ Take("writer", GetAt(cache, Head(queue).seqno, Head(queue).index))
    /\ UNCHANGED <<cache, drop, received, stored, joined, adding, sequence, nackVars>>

\* sendSequence, until a packet is missing.
SequenceTakes ==
    LET p == Get(cache, sequence.at)
    IN /\ sequence.active
       /\ Take("sequence", p)
       /\ sequence' = IF p = NoPacket \/ sequence.at = sequence.last
                      THEN NoSequence
                      ELSE [sequence EXCEPT !.at = Plus(@, 1)]
       /\ UNCHANGED <<readerVars, joined, adding, nackVars>>

\* Mutation: whether somebody waits already is looked at too late.
BufferNackLate(s) ==
    /\ nacks' = nacks \cup {s}
    /\ nackWriters' = IF nacks' = {} THEN nackWriters + 1 ELSE nackWriters

\* GetPacket, when the packet is not in the cache: the publisher will be
\* asked for it.
BufferNack(s) ==
    /\ nacks' = nacks \cup {s}
    /\ nackWriters' = IF nacks = {} THEN nackWriters + 1 ELSE nackWriters

\* gotNACK: the receiver asks for what it has not got.
GotNACK(t) ==
    LET r == Reverse(map, t)
        p == Get(cache, r.seqno)
    IN /\ r.ok
       /\ Take("nack", p)
       /\ IF p = NoPacket THEN BufferNack(r.seqno) ELSE UNCHANGED nackVars
       /\ UNCHANGED <<readerVars, joined, adding, sequence>>

\* The numbers that the receiver knows to exist: up to the greatest that it
\* got.
Known == {Minus(d[1], k) : d \in delivered, k \in 0..Reorder}

\* nackWriter wakes up, and takes all that is to be asked for.
NackWriter ==
    /\ nackWriters > 0
    /\ nackWriters' = nackWriters - 1
    /\ nacks' = {}
    /\ UNCHANGED <<readerVars, joined, adding, sequence, hand, trackVars>>

\* The second half of Write: another goroutine may have written in between.
Write(t) ==
    LET p == hand[t]
        r == Map(map, Number(p))
    IN /\ p # NoPacket
       /\ map' = Mapped(map, Number(p))
       /\ delivered' = IF r.ok THEN delivered \cup {<<r.seqno, p>>} ELSE delivered
       /\ Hold(t, NoPacket)
       /\ UNCHANGED <<readerVars, joined, adding, sequence, layer, dropped, nackVars>>

Next == \/ \E p \in Packets : Read(p)
        \/ UpdateUpTrack
        \/ AddTrack
        \/ FindLast
        \/ StartSequence
        \/ WriterTakes
        \/ SequenceTakes
        \/ \E t \in Known : GotNACK(t)
        \/ NackWriter
        \/ \E t \in Threads : Write(t)

Spec == Init /\ [][Next]_vars
-----------------------------------------------------------------------------
Layers == {l \in [tid : 0..MaxTid, wanted : 0..MaxTid, max : 0..MaxTid] :
             l.tid <= l.max /\ l.wanted <= l.max}

Position == [valid : BOOLEAN, at : Seqno]

TypeOK ==
    /\ cache.last \in Position /\ cache.keyframe \in Position
    /\ cache.bitmap \in Bitmap
    /\ Capacity(cache) \in Capacities
    /\ cache.tail \in 0..(Capacity(cache) - 1)
    /\ \A i \in DOMAIN cache.entries : cache.entries[i] \in Entry
    /\ Len(queue) <= QueueSize
    /\ \A i \in DOMAIN queue : queue[i].seqno \in Seqno
    /\ drop \in 0..7
    /\ joined \in BOOLEAN /\ adding \in {"nothing", "last", "keyframe"}
    /\ sequence \in [active : BOOLEAN, at : Seqno, last : Seqno]
    /\ hand \in [Threads -> Packets \cup {NoPacket}]
    /\ layer \in Layers
    /\ IsMap(map)
    /\ nacks \subseteq Seqno /\ nackWriters \in Nat
    /\ received \subseteq Packets /\ dropped \subseteq Packets
    /\ delivered \subseteq Seqno \X Packets

(* The numbers that the receiver sees are those of the publisher, less the
   packets that were dropped on purpose before: no number is used twice,
   whether a packet comes in order, late, in the initial sequence or again
   on request, and the only holes are packets that were lost. *)
NumberingExact ==
    \A d \in delivered :
        d[1] = Minus(Number(d[2]), Cardinality({q \in dropped : q < d[2]}))

(* What the receiver asks for by a number, among the last packets, is what was
   sent under it: packetmap.Reverse undoes packetmap.Map, whatever has been
   dropped since. *)
RetransmissionExact ==
    \A d \in delivered :
        LET r == Reverse(map, d[1])
        IN r.ok /\ (\A q \in received : q <= d[2] + Window) => r.seqno = Number(d[2])

(* The publisher is not asked again, by the reader, for what it has sent in the
   last half turn of the numbers. *)
NacksMissing ==
    \A p \in Arriving :
        LET recent == {q \in received \cup {p} : p - q < Mod \div 2}
        IN Asked(p) \cap {Number(q) : q \in recent} = {}

(* The cache holds the packets that were stored last, as many as it is sure
   to have room for, however it is resized. *)
CacheRecent ==
    \A i \in DOMAIN stored : Get(cache, Number(stored[i])) = stored[i]

(* As long as packets are to be asked for, somebody is about to. *)
NacksScheduled == nacks # {} => nackWriters > 0
=============================================================================
