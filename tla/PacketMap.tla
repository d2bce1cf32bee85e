------------------------------ MODULE PacketMap ------------------------------
(***************************************************************************)
(* packetmap/packetmap.go: the numbers under which a receiver gets the     *)
(* packets of a track.  Numbers of packets are taken modulo 2^16, here     *)
(* Mod; when a packet is dropped on purpose, the numbers of those that     *)
(* follow are shifted, so that the receiver sees no hole.  The map         *)
(* remembers the shifts of the past, for packets that come late and for    *)
(* those that the receiver asks for again.                                 *)
(*                                                                         *)
(* The numbers of pictures, which are shifted alongside, are left out.     *)
(***************************************************************************)
EXTENDS Integers, Sequences, FiniteSets

CONSTANTS Window,       \* 8 * 1024: what is further away is another stream
          MaxEntries    \* how many shifts are remembered: 128

ASSUME PacketMapAssumption == /\ Window \in Nat \ {0}
                              /\ MaxEntries \in Nat \ {0}

Mod == 8 * Window

Seqno == 0..(Mod - 1)

Plus(a, b) == (a + b) % Mod
Minus(a, b) == (a - b) % Mod

\* compare(a, b) <= 0, and compare(a, b) >= 0.  Both hold of equal numbers
\* only; of two numbers half a turn apart, each is after the other.
AtOrBefore(a, b) == Minus(b, a) < Mod \div 2
AtOrAfter(a, b) == a = b \/ Minus(b, a) >= Mod \div 2

\* An interval of numbers, and what is added to them.
Interval == [first : Seqno, count : Seqno, delta : Seqno]

IsMap(m) == /\ m.next \in Seqno /\ m.delta \in Seqno
            /\ Len(m.entries) <= MaxEntries /\ m.last \in 1..MaxEntries
            /\ m.entries # <<>> => m.last <= Len(m.entries)
            /\ \A i \in DOMAIN m.entries : m.entries[i] \in Interval

NewMap == [next |-> 0, delta |-> 0, last |-> 1, entries |-> <<>>]

\* Nothing has ever been dropped.
Fresh(m) == m.delta = 0 /\ m.entries = <<>>

\* reset, and the packet that causes it.
ResetAt(s) == [NewMap EXCEPT !.next = Plus(s, 1)]

\* Mutation: the new interval begins where the last one ends, so that the
\* numbers that they are mapped to overlap.
AddMappingOverlap(m, s) ==
    LET e == m.entries[m.last]
        after == Plus(e.first, e.count)
        new == [first |-> after, count |-> Plus(Minus(s, after), 1),
                delta |-> m.delta]
        j == (m.last % MaxEntries) + 1
    IN IF m.delta = e.delta
       THEN [m EXCEPT !.entries[m.last].count = Plus(Minus(s, e.first), 1)]
       ELSE IF Len(m.entries) < MaxEntries
            THEN [m EXCEPT !.entries = Append(m.entries, new),
                           !.last = Len(m.entries) + 1]
            ELSE [m EXCEPT !.entries[j] = new, !.last = j]

\* addMapping: the last interval is extended, or a new one begins with the
\* packets that are missing since the last one was dropped.
AddMapping(m, s) ==
    LET e == m.entries[m.last]
        d == Minus(e.delta, m.delta)
        after == Plus(e.first, e.count + d)
        f == IF d < Window /\ after # s /\ AtOrBefore(after, s) THEN after ELSE s
        new == [first |-> f, count |-> Plus(Minus(s, f), 1), delta |-> m.delta]
        j == (m.last % MaxEntries) + 1
    IN IF m.delta = e.delta
       THEN [m EXCEPT !.entries[m.last].count = Plus(Minus(s, e.first), 1)]
       ELSE IF Len(m.entries) < MaxEntries
            THEN [m EXCEPT !.entries = Append(m.entries, new),
                           !.last = Len(m.entries) + 1]
            ELSE [m EXCEPT !.entries[j] = new, !.last = j]

(* The search of direct and Reverse: from the last interval backwards, the
   first one that does not begin after s, where interval i begins at first[i].
   Its number, or 0 if there is none or if it ends before s. *)
Find(m, s, first) ==
    LET n == Len(m.entries)
        back(k) == ((m.last - 1 - k) % n) + 1
        candidates == {k \in 0..(n - 1) : AtOrAfter(s, first[back(k)])}
        nearest == CHOOSE k \in candidates : \A l \in candidates : k <= l
        i == back(nearest)
    IN IF n = 0 \/ candidates = {} THEN 0
       ELSE IF AtOrAfter(s, Plus(first[i], m.entries[i].count)) THEN 0
       ELSE i

Failed == [ok |-> FALSE, seqno |-> 0]

Direct(m, s) ==
    LET first == [k \in DOMAIN m.entries |-> m.entries[k].first]
        i == Find(m, s, first)
    IN IF i = 0 THEN Failed
       ELSE [ok |-> TRUE, seqno |-> Plus(s, m.entries[i].delta)]

\* Reverse: the packet that was sent under a number.
Reverse(m, t) ==
    LET target == [k \in DOMAIN m.entries |->
                       Plus(m.entries[k].first, m.entries[k].delta)]
        i == Find(m, t, target)
    IN IF Fresh(m) THEN [ok |-> TRUE, seqno |-> t]
       ELSE IF i = 0 THEN Failed
       ELSE [ok |-> TRUE, seqno |-> Minus(t, m.entries[i].delta)]

\* Map: the number under which a packet is sent, if any ...
Map(m, s) ==
    CASE Fresh(m) -> [ok |-> TRUE, seqno |-> s]
      [] ~Fresh(m) /\ AtOrBefore(m.next, s) ->
            [ok |-> TRUE,
             seqno |-> IF Minus(s, m.next) > Window THEN s
                       ELSE Plus(s, m.delta)]
      [] ~Fresh(m) /\ ~AtOrBefore(m.next, s) ->
            IF Minus(m.next, s) > Window THEN [ok |-> TRUE, seqno |-> s]
            ELSE Direct(m, s)

\* ... and what the map remembers of it.
Mapped(m, s) ==
    CASE Fresh(m) ->
            IF AtOrBefore(m.next, s) \/ Minus(m.next, s) > Window
            THEN [m EXCEPT !.next = Plus(s, 1)] ELSE m
      [] ~Fresh(m) /\ AtOrBefore(m.next, s) ->
            IF Minus(s, m.next) > Window THEN ResetAt(s)
            ELSE [AddMapping(m, s) EXCEPT !.next = Plus(s, 1)]
      [] ~Fresh(m) /\ ~AtOrBefore(m.next, s) ->
            IF Minus(m.next, s) > Window THEN ResetAt(s) ELSE m

\* Drop succeeds for the packet that follows the last one only.
MayDrop(m, s) == s = m.next

Dropped(m, s) ==
    [m EXCEPT !.next = Plus(s, 1),
              !.delta = Minus(m.delta, 1),
              !.entries = IF m.entries # <<>> THEN m.entries
                          ELSE <<[first |-> Minus(s, Window), count |-> Window,
                                  delta |-> 0]>>]
=============================================================================
