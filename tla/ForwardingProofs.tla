--------------------------- MODULE ForwardingProofs ---------------------------
(***************************************************************************)
(* Proofs about module Forwarding, for streams of any length, any sizes of *)
(* the window, the bitmap and the cache, and any packets lost or late.     *)
(*                                                                         *)
(* The theorems on the numbering, in the last section, are about streams   *)
(* that are steady (Steady), as those that are not too long are (Short).   *)
(*                                                                         *)
(* The numbers of packets come round.  What the code computes from them is *)
(* first related to places in the stream, which do not: Number(a) is the   *)
(* number of place a, and differences of numbers are those of places, as   *)
(* long as these are close to each other.                                  *)
(***************************************************************************)
EXTENDS Forwarding, SequenceTheorems, FiniteSetTheorems, WellFoundedInduction,
        TLAPS

-----------------------------------------------------------------------------
(* Numbers of packets, modulo 2^16. *)

(* Division with a remainder, and what the remainder is. *)
LEMMA Division ==
    ASSUME NEW m \in Int, m > 0, NEW a \in Int
    PROVE  a \div m \in Int /\ a % m \in 0..(m - 1) /\ a = m * (a \div m) + (a % m)
  BY SMTT(60)

(* ... of a number that is given as a multiple and a rest. *)
LEMMA Remainder ==
    ASSUME NEW m \in Int, m > 0, NEW k \in Int, NEW r \in 0..(m - 1)
    PROVE  (m * k + r) % m = r
  OBVIOUS

(* The remainder does not change by whole turns. *)
LEMMA Turns ==
    ASSUME NEW m \in Int, m > 0, NEW a \in Int, NEW k \in Int
    PROVE  (a + m * k) % m = a % m
<1> DEFINE q == a \div m
           r == a % m
<1>1. q \in Int /\ r \in 0..(m - 1) /\ a = m * q + r BY Division
<1> HIDE DEF q, r
<1>2. m * (q + k) = m * q + m * k BY <1>1
<1>2a. m * k \in Int /\ m * q \in Int /\ r \in Int BY <1>1
<1>3. a + m * k = m * (q + k) + r BY <1>1, <1>2, <1>2a
<1>4. (m * (q + k) + r) % m = r BY <1>1, Remainder
<1> QED BY <1>3, <1>4 DEF r

(* The size of the number space, of half of it, and of the window. *)
LEMMA Modulus == /\ Mod \in Nat /\ Mod > 0 /\ Mod = 8 * Window
                 /\ Mod \div 2 = 4 * Window
                 /\ Seqno = 0..(Mod - 1) /\ Window \in Nat /\ Window > 0
  BY PacketMapAssumption DEF Mod, Seqno

(* Numbers of packets are integers. *)
LEMMA SeqnoInt == 0 \in Seqno /\ \A s \in Seqno : s \in Int
  BY Modulus

(* What Plus and Minus compute are numbers. *)
LEMMA Numbers ==
    ASSUME NEW a \in Int, NEW b \in Int
    PROVE  /\ Plus(a, b) \in Seqno /\ Minus(a, b) \in Seqno
           /\ Plus(a, b) \in Int /\ Minus(a, b) \in Int
<1>1. a + b \in Int /\ a - b \in Int /\ Mod \in Int /\ Mod > 0 BY Modulus
<1>2. (a + b) % Mod \in 0..(Mod - 1) /\ (a - b) % Mod \in 0..(Mod - 1)
  <2> HIDE DEF Mod
  <2> QED BY <1>1, Division
<1> QED BY <1>2 DEF Plus, Minus, Seqno

(* The number of a packet, wherever it is in the stream. *)
LEMMA NumberPlus ==
    ASSUME NEW a \in Int, NEW k \in Int
    PROVE  Number(a) \in Seqno /\ Plus(Number(a), k) = Number(a + k)
<1> DEFINE s == Start + a
           q == s \div Mod
           r == s % Mod
<1>0. Mod \in Int /\ Mod > 0 /\ Start \in Int BY Modulus, ForwardingAssumption
<1>1. q \in Int /\ r \in 0..(Mod - 1) /\ s = Mod * q + r
  BY <1>0, Division DEF Mod
<1>2. r \in Int /\ -q \in Int /\ s \in Int /\ r + k \in Int /\ s + k \in Int
  BY <1>0, <1>1
<1>3. Mod * (-q) = -(Mod * q) BY <1>0, <1>1 
<1> HIDE DEF r, q, s, Mod
<1>4. r + k = (s + k) + Mod * (-q) BY <1>0, <1>1, <1>2, <1>3
<1>5. (r + k) % Mod = (s + k) % Mod BY <1>0, <1>2, <1>4, Turns
<1>6. Number(a) = r BY DEF Number, Plus, r, s
<1>7. s + k = Start + (a + k) BY <1>0 DEF s
<1> QED BY <1>0, <1>1, <1>5, <1>6, <1>7 DEF Number, Plus, Seqno

(* How far two packets are apart, as their numbers tell. *)
LEMMA NumberMinus ==
    ASSUME NEW a \in Int, NEW b \in Int
    PROVE  /\ Minus(Number(a), b) = Number(a - b)
           /\ a - b \in 0..(Mod - 1) => Minus(Number(a), Number(b)) = a - b
           /\ b - a \in 1..Mod => Minus(Number(a), Number(b)) = Mod - (b - a)
<1>0. Mod \in Int /\ Mod > 0 /\ Start \in Int BY Modulus, ForwardingAssumption
<1>1. Minus(Number(a), b) = Number(a - b)
  <2>1. Number(a) \in Int BY NumberPlus, Modulus
  <2>2. Plus(Number(a), -b) = Minus(Number(a), b)
    <3>1. Number(a) + (-b) = Number(a) - b BY <2>1
    <3> QED BY <3>1 DEF Plus, Minus
  <2>3. a + (-b) = a - b OBVIOUS
  <2> QED BY <2>2, <2>3, NumberPlus
<1> DEFINE s == Start + a
           t == Start + b
           q == s \div Mod
           p == t \div Mod
           r == s % Mod
           u == t % Mod
<1>2a. q \in Int /\ r \in 0..(Mod - 1) /\ s = Mod * q + r
  BY <1>0, Division DEF Mod
<1>2b. p \in Int /\ u \in 0..(Mod - 1) /\ t = Mod * p + u
  BY <1>0, Division DEF Mod
<1>2. /\ q \in Int /\ r \in 0..(Mod - 1) /\ s = Mod * q + r
      /\ p \in Int /\ u \in 0..(Mod - 1) /\ t = Mod * p + u BY <1>2a, <1>2b
<1>3. Number(a) = r /\ Number(b) = u BY DEF Number, Plus
<1> HIDE DEF r, q, s, p, t, u, Mod
<1>4. Minus(Number(a), Number(b)) = (a - b) % Mod
  <2>1. s - t = a - b BY <1>0 DEF s, t
  <2>2. Mod * (p - q) = Mod * p - Mod * q BY <1>0, <1>2
  <2>3. Mod * p \in Int /\ Mod * q \in Int /\ r \in Int /\ u \in Int
    BY <1>0, <1>2
  <2>4. r - u = (a - b) + Mod * (p - q) BY <1>2, <2>1, <2>2, <2>3
  <2>5. p - q \in Int /\ a - b \in Int BY <1>2
  <2>6. ((a - b) + Mod * (p - q)) % Mod = (a - b) % Mod BY <1>0, <2>5, Turns
  <2> QED BY <1>3, <2>4, <2>6 DEF Minus
<1>5. ASSUME a - b \in 0..(Mod - 1) PROVE (a - b) % Mod = a - b
  <2>1. (Mod * 0 + (a - b)) % Mod = a - b BY <1>0, <1>5, Remainder
  <2>2. Mod * 0 + (a - b) = a - b BY <1>0
  <2> QED BY <2>1, <2>2
<1>6. ASSUME b - a \in 1..Mod PROVE (a - b) % Mod = Mod - (b - a)
  <2>1. Mod - (b - a) \in 0..(Mod - 1) BY <1>0, <1>6
  <2>2. (Mod * (-1) + (Mod - (b - a))) % Mod = Mod - (b - a)
    BY <1>0, <2>1, Remainder
  <2>3. Mod * (-1) + (Mod - (b - a)) = a - b BY <1>0
  <2> QED BY <2>2, <2>3
<1> QED BY <1>1, <1>4, <1>5, <1>6

(* Packets less than a turn apart have different numbers. *)
LEMMA SameNumber ==
    ASSUME NEW a \in Int, NEW b \in Int, a - b < Mod, b - a < Mod, Number(a) = Number(b)
    PROVE  a = b
<1>0. Mod \in Int /\ Mod > 0 BY Modulus
<1> HIDE DEF Mod
<1>1. Minus(Number(a), Number(b)) = 0
  <2>1. 0 \in 0..(Mod - 1) /\ a - a = 0 BY <1>0
  <2>2. Minus(Number(a), Number(a)) = 0 BY <2>1, NumberMinus
  <2> QED BY <2>2
<1>2. CASE a - b >= 0
  <2>1. a - b \in 0..(Mod - 1) BY <1>0, <1>2
  <2>2. a - b = 0 BY <1>1, <2>1, NumberMinus
  <2> QED BY <2>2
<1>3. CASE a - b < 0
  <2>1. b - a \in 1..Mod BY <1>0, <1>3
  <2>2. Mod - (b - a) = 0 BY <1>1, <2>1, NumberMinus
  <2> QED BY <1>0, <2>2
<1> QED BY <1>2, <1>3

(* Of two packets less than half a turn apart, which one comes first. *)
LEMMA InOrder ==
    ASSUME NEW a \in Int, NEW b \in Int, a - b < Mod \div 2, b - a <= Mod \div 2
    PROVE  AtOrAfter(Number(b), Number(a)) <=> b >= a
<1>0. Mod \in Nat /\ Mod > 0 /\ Mod \div 2 \in Nat /\ Mod = 2 * (Mod \div 2)
  BY Modulus
<1> DEFINE h == Mod \div 2
<1>1. Mod \in Nat /\ h \in Nat /\ Mod = 2 * h /\ h > 0 /\ a - b < h /\ b - a <= h
  BY <1>0
<1>2. CASE a = b BY <1>2 DEF AtOrAfter
<1>3. CASE a > b
  <2>0. a - b \in 0..(Mod - 1)
    <3> HIDE DEF Mod, h
    <3> QED BY <1>1, <1>3
  <2>1. Minus(Number(a), Number(b)) = a - b BY <2>0, NumberMinus
  <2>2. Number(b) # Number(a)
    <3>1. a - b < Mod /\ b - a < Mod /\ a # b
      <4> HIDE DEF Mod, h
      <4> QED BY <1>1, <1>3
    <3> QED BY <3>1, SameNumber
  <2>3. ~(b >= a) BY <1>3
  <2>4. ~(Minus(Number(a), Number(b)) >= h)
    <3> HIDE DEF Mod, h
    <3> QED BY <1>1, <1>3, <2>1
  <2> QED BY <2>2, <2>3, <2>4 DEF AtOrAfter
<1>4. CASE a < b
  <2>0. b - a \in 1..Mod
    <3> HIDE DEF Mod, h
    <3> QED BY <1>1, <1>4
  <2>1. Minus(Number(a), Number(b)) = Mod - (b - a) BY <2>0, NumberMinus
  <2>2. Minus(Number(a), Number(b)) >= h
    <3> HIDE DEF Mod, h
    <3> QED BY <1>1, <1>4, <2>1
  <2> QED BY <1>4, <2>2 DEF AtOrAfter
<1> QED BY <1>2, <1>3, <1>4

(* Numbers plus and minus the shifts, which are negative. *)
LEMMA Offsets ==
    ASSUME NEW a \in Int, NEW b \in Int
    PROVE  /\ Plus(Number(a), Minus(0, b)) = Number(a - b)
           /\ Minus(Number(a), Minus(0, b)) = Number(a + b)
           /\ Minus(Minus(0, a), b) = Minus(0, a + b)
           /\ b - a \in 0..(Mod - 1) => Minus(Minus(0, a), Minus(0, b)) = b - a
<1>0. Mod \in Int /\ Mod > 0 /\ Start \in Int BY Modulus, ForwardingAssumption
<1>1. \A x \in Int, k \in Int : Number(x + Mod * k) = Number(x)
  <2> SUFFICES ASSUME NEW x \in Int, NEW k \in Int
               PROVE  Number(x + Mod * k) = Number(x)
    OBVIOUS
  <2> HIDE DEF Mod
  <2>1. Mod * k \in Int /\ Start + x \in Int BY <1>0
  <2>2. Start + (x + Mod * k) = (Start + x) + Mod * k BY <1>0, <2>1
  <2>3. ((Start + x) + Mod * k) % Mod = (Start + x) % Mod BY <1>0, <2>1, Turns
  <2> QED BY <2>2, <2>3 DEF Number, Plus
<1>2. \A x \in Int : \E k \in Int : Minus(0, x) = -x + Mod * k /\ Mod * k \in Int
  <2> SUFFICES ASSUME NEW x \in Int
               PROVE  \E k \in Int : Minus(0, x) = -x + Mod * k /\ Mod * k \in Int
    OBVIOUS
  <2> HIDE DEF Mod
  <2> DEFINE q == (0 - x) \div Mod
  <2>1. 0 - x \in Int BY <1>0
  <2>2. q \in Int /\ (0 - x) % Mod \in 0..(Mod - 1)
        /\ 0 - x = Mod * q + ((0 - x) % Mod)
    BY <1>0, <2>1, Division
  <2> HIDE DEF q
  <2>3. Mod * q \in Int /\ Mod * (-q) = -(Mod * q) /\ -q \in Int BY <1>0, <2>2
  <2>4. (0 - x) % Mod = -x + Mod * (-q) BY <1>0, <2>2, <2>3
  <2> QED BY <2>3, <2>4 DEF Minus
<1> HIDE DEF Mod
<1>3. PICK k \in Int : Minus(0, b) = -b + Mod * k /\ Mod * k \in Int BY <1>2
<1>4. PICK l \in Int : Minus(0, a) = -a + Mod * l /\ Mod * l \in Int BY <1>2
<1>5. Plus(Number(a), Minus(0, b)) = Number(a - b)
  <2>1. Minus(0, b) \in Int BY <1>3
  <2>2. Plus(Number(a), Minus(0, b)) = Number(a + Minus(0, b))
    BY <2>1, NumberPlus
  <2>3. a + Minus(0, b) = (a - b) + Mod * k BY <1>3
  <2>4. a - b \in Int OBVIOUS
  <2>5. Number((a - b) + Mod * k) = Number(a - b) BY <1>1, <2>4
  <2> QED BY <2>2, <2>3, <2>5
<1>6. Minus(Number(a), Minus(0, b)) = Number(a + b)
  <2>1. Minus(0, b) \in Int BY <1>3
  <2>2. Minus(Number(a), Minus(0, b)) = Number(a - Minus(0, b))
    BY <2>1, NumberMinus
  <2>2a. Mod * (-k) = -(Mod * k) /\ -k \in Int BY <1>0
  <2>3. a - Minus(0, b) = (a + b) + Mod * (-k) BY <1>3, <2>2a
  <2>4. a + b \in Int OBVIOUS
  <2>5. Number((a + b) + Mod * (-k)) = Number(a + b) BY <1>1, <2>2a, <2>4
  <2> QED BY <2>2, <2>3, <2>5
<1>7. Minus(Minus(0, a), b) = Minus(0, a + b)
  <2>1. Minus(0, a) - b = (0 - (a + b)) + Mod * l BY <1>4
  <2>2. 0 - (a + b) \in Int OBVIOUS
  <2>3. ((0 - (a + b)) + Mod * l) % Mod = (0 - (a + b)) % Mod
    BY <1>0, <2>2, Turns
  <2> QED BY <2>1, <2>3 DEF Minus
<1>8. ASSUME b - a \in 0..(Mod - 1)
      PROVE  Minus(Minus(0, a), Minus(0, b)) = b - a
  <2>1. l - k \in Int /\ Mod * (l - k) = Mod * l - Mod * k BY <1>0
  <2>2. Minus(0, a) - Minus(0, b) = Mod * (l - k) + (b - a)
    BY <1>3, <1>4, <2>1
  <2>3. (Mod * (l - k) + (b - a)) % Mod = b - a
    BY <1>0, <1>8, <2>1, Remainder
  <2>4. (Minus(0, a) - Minus(0, b)) % Mod = b - a BY <2>2, <2>3
  <2> QED BY <2>4 DEF Minus
<1> QED BY <1>5, <1>6, <1>7, <1>8

(* Of two packets less than half a turn apart, what the code computes. *)
LEMMA NextTo ==
    ASSUME NEW n \in Int, NEW p \in Int, p - n < Mod \div 2, n - p <= Mod \div 2
    PROVE  /\ AtOrBefore(Number(n), Number(p)) <=> p >= n
           /\ p >= n => Minus(Number(p), Number(n)) = p - n
           /\ n >= p => Minus(Number(n), Number(p)) = n - p
<1>0. Mod \in Nat /\ Mod > 0 /\ Mod \div 2 \in Nat /\ Mod = 2 * (Mod \div 2)
  BY Modulus
<1> DEFINE h == Mod \div 2
<1>1. Mod \in Nat /\ h \in Nat /\ Mod = 2 * h /\ h > 0 /\ p - n < h /\ n - p <= h
  BY <1>0
<1>2. ASSUME p >= n PROVE Minus(Number(p), Number(n)) = p - n
  <2>1. p - n \in 0..(Mod - 1)
    <3> HIDE DEF Mod, h
    <3> QED BY <1>1, <1>2
  <2> QED BY <2>1, NumberMinus
<1>3. ASSUME n >= p PROVE Minus(Number(n), Number(p)) = n - p
  <2>1. n - p \in 0..(Mod - 1)
    <3> HIDE DEF Mod, h
    <3> QED BY <1>1, <1>3
  <2> QED BY <2>1, NumberMinus
<1>4. ASSUME n > p PROVE Minus(Number(p), Number(n)) >= h
  <2>1. n - p \in 1..Mod
    <3> HIDE DEF Mod, h
    <3> QED BY <1>1, <1>4
  <2>2. Minus(Number(p), Number(n)) = Mod - (n - p) BY <2>1, NumberMinus
  <2> HIDE DEF Mod, h
  <2> QED BY <1>1, <2>2
<1>5. p >= n => Minus(Number(p), Number(n)) < h
  <2> HIDE DEF Mod, h
  <2> QED BY <1>1, <1>2
<1>6. n > p => ~(Minus(Number(p), Number(n)) < h)
  <2>1. Minus(Number(p), Number(n)) \in Int
    <3>1. Number(p) \in Int /\ Number(n) \in Int BY NumberPlus, SeqnoInt
    <3> QED BY <3>1, Numbers
  <2> HIDE DEF Mod, h
  <2> QED BY <1>1, <1>4, <2>1
<1>7. p >= n \/ n > p OBVIOUS
<1> QED BY <1>2, <1>3, <1>5, <1>6, <1>7 DEF AtOrBefore

(* What Plus computes of small numbers. *)
LEMMA PlusSmall ==
    ASSUME NEW a \in Int, NEW b \in Int, a + b \in 0..(Mod - 1)
    PROVE  Plus(a, b) = a + b
<1>0. Mod \in Int /\ Mod > 0 BY Modulus
<1> HIDE DEF Mod
<1>1. (Mod * 0 + (a + b)) % Mod = a + b BY <1>0, Remainder
<1>2. Mod * 0 + (a + b) = a + b BY <1>0
<1> QED BY <1>1, <1>2 DEF Plus

(* A number is as far from another one as their difference says. *)
LEMMA GapClosed ==
    ASSUME NEW a \in Seqno, NEW s \in Seqno
    PROVE  Plus(s, Minus(a, s)) = a
<1>0. Mod \in Int /\ Mod > 0 /\ a \in Int /\ s \in Int /\ a \in 0..(Mod - 1)
  BY Modulus
<1> DEFINE q == (a - s) \div Mod
           r == (a - s) % Mod
<1> HIDE DEF Mod
<1>1. q \in Int /\ r \in 0..(Mod - 1) /\ a - s = Mod * q + r
  <2>1. a - s \in Int BY <1>0
  <2> QED BY <1>0, <2>1, Division
<1>2. Minus(a, s) = r BY DEF Minus
<1> HIDE DEF q, r
<1>3. Mod * q \in Int /\ Mod * (-q) = -(Mod * q) /\ -q \in Int /\ r \in Int
  BY <1>0, <1>1
<1>4. s + r = Mod * (-q) + a BY <1>0, <1>1, <1>3
<1>5. (Mod * (-q) + a) % Mod = a BY <1>0, <1>3, Remainder
<1> QED BY <1>2, <1>4, <1>5 DEF Plus

(* A set of numbers that is not empty has a least element. *)
LEMMA Least ==
    ASSUME NEW T \in SUBSET Nat, T # {}
    PROVE  \E n \in T : \A m \in T : n <= m
<1> DEFINE R == {p \in Nat \X Nat : p[1] < p[2]}
<1>0. IsWellFoundedOn(R, Nat) BY NatLessThanWellFounded DEF OpToRel
<1>1. \E n \in T : \A m \in T : <<m, n>> \notin R
  <2> HIDE DEF R
  <2> QED BY <1>0, WFMin
<1>2. PICK n \in T : \A m \in T : <<m, n>> \notin R BY <1>1
<1>3. ASSUME NEW m \in T PROVE n <= m
  <2>1. <<m, n>> \notin R /\ m \in Nat /\ n \in Nat BY <1>2, <1>3
  <2>2. <<m, n>> \in Nat \X Nat /\ <<m, n>>[1] = m /\ <<m, n>>[2] = n BY <2>1
  <2>3. ~(m < n) BY <2>1, <2>2
  <2> QED BY <2>1, <2>3
<1> QED BY <1>2, <1>3

(* The constants. *)
LEMMA Constants ==
    /\ Packets = 1..MaxPacket /\ MaxPacket \in Nat /\ MaxTid \in Nat
    /\ Start \in Int /\ Reorder \in Nat /\ Unnacked \in Nat
    /\ MinCapacity \in Capacities /\ \A n \in Capacities : MinCapacity <= n
    /\ \A n \in Capacities : n \in Nat /\ n > 0
    /\ \A p \in Packets : /\ Number(p) \in Seqno /\ Number(p) \in Int
                          /\ p \in Nat /\ p > 0
                          /\ Flags(p).tid \in 0..MaxTid /\ Flags(p).keyframe \in BOOLEAN
<1>1. Packets = 1..MaxPacket /\ MaxPacket \in Nat BY ForwardingAssumption
<1>2. \A p \in Packets : Number(p) \in Seqno /\ Number(p) \in Int
  <2>1. \A p \in Packets : p \in Int BY <1>1
  <2> QED BY <2>1, NumberPlus, SeqnoInt
<1>3. MinCapacity \in Capacities /\ \A n \in Capacities : MinCapacity <= n
  <2>1. Capacities \in SUBSET Nat /\ Capacities # {} BY ForwardingAssumption
  <2>2. \E n \in Capacities : \A m \in Capacities : n <= m BY <2>1, Least
  <2> QED BY <2>2 DEF MinCapacity
<1>4. Start \in Int BY ForwardingAssumption, SeqnoInt
<1> QED BY <1>1, <1>2, <1>3, <1>4, ForwardingAssumption

-----------------------------------------------------------------------------
(* The map. *)

(* Types of the map *)
Maps == {m \in [next : Seqno, delta : Seqno, last : 1..MaxEntries,
                entries : Seq(Interval)] :
           /\ Len(m.entries) <= MaxEntries
           /\ m.entries # <<>> => m.last <= Len(m.entries)
           /\ m.entries = <<>> => m.delta = 0 /\ m.last = 1}

(* A map that has just been made is one. *)
LEMMA NewMapTyped == NewMap \in Maps
<1>1. <<>> \in Seq(Interval) /\ Len(<<>>) = 0 OBVIOUS
<1>2. 0 \in Seqno /\ MaxEntries \in Nat /\ MaxEntries > 0
  BY Modulus, PacketMapAssumption
<1> QED BY <1>1, <1>2 DEF NewMap, Maps

(* ... and so is one that has been reset. *)
LEMMA ResetTyped == ASSUME NEW s \in Seqno PROVE ResetAt(s) \in Maps
<1>1. Plus(s, 1) \in Seqno BY Numbers, SeqnoInt
<1> QED BY <1>1, NewMapTyped DEF ResetAt, Maps, NewMap

(* The search finds an interval, or none. *)
LEMMA FindTyped ==
    ASSUME NEW m \in Maps, NEW s, NEW first
    PROVE  Find(m, s, first) \in {0} \cup DOMAIN m.entries
<1> DEFINE n == Len(m.entries)
           back(k) == ((m.last - 1 - k) % n) + 1
           candidates == {k \in 0..(n - 1) : AtOrAfter(s, first[back(k)])}
           nearest == CHOOSE k \in candidates : \A l \in candidates : k <= l
<1>1. n \in Nat /\ DOMAIN m.entries = 1..n /\ m.last \in Int
  BY DEF Maps
<1>2. CASE n = 0 \/ candidates = {}
  BY <1>2 DEF Find
<1>3. CASE ~(n = 0 \/ candidates = {})
  <2>1. \E k \in candidates : \A l \in candidates : k <= l
    <3>1. candidates \subseteq Nat BY <1>1
    <3> HIDE DEF candidates
    <3> QED BY <1>3, <3>1, Least
  <2>2. nearest \in candidates
    <3> HIDE DEF candidates
    <3> QED BY <2>1
  <2> HIDE DEF nearest
  <2>3. nearest \in Int BY <1>1, <2>2
  <2>4. m.last - 1 - nearest \in Int /\ n \in Int /\ n > 0 BY <1>1, <1>3, <2>3
  <2>5. (m.last - 1 - nearest) % n \in 0..(n - 1) BY <2>4, Division
  <2>6. back(nearest) \in 1..n BY <1>1, <2>5
  <2>7. Find(m, s, first) \in {0, back(nearest)}
    BY <1>3 DEF Find, nearest
  <2> QED BY <1>1, <2>6, <2>7
<1> QED BY <1>2, <1>3

(* What an interval consists of. *)
LEMMA IntervalTyped ==
    ASSUME NEW m \in Maps, NEW i \in DOMAIN m.entries
    PROVE  /\ m.entries[i] \in Interval
           /\ m.entries[i].delta \in Int /\ m.entries[i].first \in Int
           /\ m.entries[i].count \in Int
<1>1. m.entries \in Seq(Interval) BY DEF Maps
<1>2. m.entries[i] \in Interval BY <1>1
<1> QED BY <1>2, SeqnoInt DEF Interval

(* Map and Reverse return numbers. *)
LEMMA MapTyped ==
    ASSUME NEW m \in Maps, NEW s \in Seqno
    PROVE  /\ Map(m, s).ok \in BOOLEAN /\ Map(m, s).seqno \in Seqno
           /\ Reverse(m, s).ok \in BOOLEAN /\ Reverse(m, s).seqno \in Seqno
<1>0. 0 \in Seqno /\ s \in Int /\ m.delta \in Int BY Modulus DEF Maps
<1>1. Direct(m, s).ok \in BOOLEAN /\ Direct(m, s).seqno \in Seqno
  <2> DEFINE first == [k \in DOMAIN m.entries |-> m.entries[k].first]
             i == Find(m, s, first)
  <2>1. i \in {0} \cup DOMAIN m.entries BY FindTyped
  <2>2. i # 0 => Plus(s, m.entries[i].delta) \in Seqno
    <3> HIDE DEF i
    <3> QED BY <1>0, <2>1, IntervalTyped, Numbers
  <2> HIDE DEF first
  <2>3. Direct(m, s) = IF i = 0 THEN Failed
                       ELSE [ok |-> TRUE, seqno |-> Plus(s, m.entries[i].delta)]
    BY DEF Direct, first
  <2> HIDE DEF i
  <2> QED BY <1>0, <2>2, <2>3 DEF Failed
<1>2. Reverse(m, s).ok \in BOOLEAN /\ Reverse(m, s).seqno \in Seqno
  <2> DEFINE target == [k \in DOMAIN m.entries |->
                            Plus(m.entries[k].first, m.entries[k].delta)]
             i == Find(m, s, target)
  <2>1. i \in {0} \cup DOMAIN m.entries BY FindTyped
  <2>2. i # 0 => Minus(s, m.entries[i].delta) \in Seqno
    <3> HIDE DEF i
    <3> QED BY <1>0, <2>1, IntervalTyped, Numbers
  <2> HIDE DEF target
  <2>3. Reverse(m, s) = IF Fresh(m) THEN [ok |-> TRUE, seqno |-> s]
                        ELSE IF i = 0 THEN Failed
                        ELSE [ok |-> TRUE, seqno |-> Minus(s, m.entries[i].delta)]
    BY DEF Reverse, target
  <2> HIDE DEF i
  <2> QED BY <1>0, <2>2, <2>3 DEF Failed
<1>3. Plus(s, m.delta) \in Seqno BY <1>0, Numbers
<1>4. Map(m, s) \in {[ok |-> TRUE, seqno |-> s],
                     [ok |-> TRUE, seqno |-> Plus(s, m.delta)], Direct(m, s)}
  BY DEF Map
<1>5. \A k \in Seqno : /\ [ok |-> TRUE, seqno |-> k].ok \in BOOLEAN
                        /\ [ok |-> TRUE, seqno |-> k].seqno = k
  OBVIOUS
<1>6. Map(m, s).ok \in BOOLEAN /\ Map(m, s).seqno \in Seqno
  BY <1>1, <1>3, <1>4, <1>5
<1> QED BY <1>2, <1>6

(* An element of a sequence may be replaced. *)
LEMMA ReplaceTyped ==
    ASSUME NEW S, NEW t \in Seq(S), NEW i \in DOMAIN t, NEW x \in S
    PROVE  /\ [t EXCEPT ![i] = x] \in Seq(S) /\ Len([t EXCEPT ![i] = x]) = Len(t)
           /\ t # <<>> /\ [t EXCEPT ![i] = x] # <<>>
  OBVIOUS

(* addMapping leaves a map with at least one interval. *)
LEMMA AddMappingTyped ==
    ASSUME NEW m \in Maps, m.entries # <<>>, NEW s \in Seqno
    PROVE  AddMapping(m, s) \in Maps /\ AddMapping(m, s).entries # <<>>
<1> DEFINE e == m.entries[m.last]
           d == Minus(e.delta, m.delta)
           after == Plus(e.first, e.count + d)
           f == IF d < Window /\ after # s /\ AtOrBefore(after, s) THEN after ELSE s
           new == [first |-> f, count |-> Plus(Minus(s, f), 1), delta |-> m.delta]
           longer == [e EXCEPT !.count = Plus(Minus(s, e.first), 1)]
           j == (m.last % MaxEntries) + 1
           n == Len(m.entries)
<1>1. /\ m.entries \in Seq(Interval) /\ n \in Nat /\ n <= MaxEntries
      /\ m.last \in 1..n /\ DOMAIN m.entries = 1..n /\ n > 0 /\ MaxEntries \in Nat
      /\ s \in Int /\ m.delta \in Seqno /\ m.delta \in Int
  BY Modulus, PacketMapAssumption DEF Maps
<1>2. e \in Interval /\ e.delta \in Int /\ e.first \in Int /\ e.count \in Int
  BY <1>1, IntervalTyped
<1>3. d \in Seqno /\ d \in Int
  <2> HIDE DEF e
  <2> QED BY <1>1, <1>2, Numbers
<1> HIDE DEF d
<1>4. after \in Seqno
  <2>1. e.count + d \in Int BY <1>2, <1>3
  <2> QED BY <1>2, <2>1, Numbers
<1> HIDE DEF after
<1>5. f \in Seqno /\ f \in Int BY <1>4, Modulus
<1> HIDE DEF f
<1>6. new \in Interval
  <2>1. Minus(s, f) \in Seqno /\ Minus(s, f) \in Int BY <1>1, <1>5, Numbers
  <2>2. Plus(Minus(s, f), 1) \in Seqno BY <2>1, Numbers
  <2> QED BY <1>1, <1>5, <2>2 DEF Interval
<1>7. longer \in Interval
  <2> HIDE DEF e
  <2>1. Minus(s, e.first) \in Int BY <1>1, <1>2, Numbers
  <2>2. Plus(Minus(s, e.first), 1) \in Seqno BY <2>1, Numbers
  <2> QED BY <1>2, <2>2 DEF Interval
<1>8. j \in 1..MaxEntries
  <2>1. m.last % MaxEntries \in 0..(MaxEntries - 1) BY <1>1, Division
  <2> QED BY <1>1, <2>1
<1>9. AddMapping(m, s) = 
        IF m.delta = e.delta THEN [m EXCEPT !.entries[m.last] = longer]
        ELSE IF n < MaxEntries
             THEN [m EXCEPT !.entries = Append(m.entries, new), !.last = n + 1]
             ELSE [m EXCEPT !.entries[j] = new, !.last = j]
  BY DEF AddMapping, f, after, d
<1> HIDE DEF new, longer, j, e
<1>10. ASSUME NEW t \in Seq(Interval), t # <<>>, Len(t) <= MaxEntries,
              NEW i \in 1..MaxEntries, i <= Len(t),
              AddMapping(m, s) = [m EXCEPT !.entries = t, !.last = i]
       PROVE  AddMapping(m, s) \in Maps /\ AddMapping(m, s).entries # <<>>
  BY <1>10 DEF Maps
<1>11. CASE m.delta = e.delta
  <2> DEFINE t == [m.entries EXCEPT ![m.last] = longer]
  <2>1. AddMapping(m, s) = [m EXCEPT !.entries[m.last] = longer] BY <1>9, <1>11
  <2>2. AddMapping(m, s) = [m EXCEPT !.entries = t, !.last = m.last]
    BY <2>1 DEF Maps
  <2>3. t \in Seq(Interval) /\ t # <<>> /\ Len(t) = n
    BY <1>1, <1>7, ReplaceTyped
  <2> HIDE DEF t, n
  <2>4. m.last \in 1..MaxEntries /\ m.last <= Len(t) /\ Len(t) <= MaxEntries
    BY <1>1, <2>3
  <2> QED BY <1>10, <2>2, <2>3, <2>4
<1>12. CASE m.delta # e.delta /\ n < MaxEntries
  <2> DEFINE t == Append(m.entries, new)
  <2>1. AddMapping(m, s) = [m EXCEPT !.entries = t, !.last = n + 1]
    BY <1>9, <1>12
  <2>2. t \in Seq(Interval) /\ t # <<>> /\ Len(t) = n + 1 BY <1>1, <1>6
  <2> HIDE DEF t, n
  <2>3. n + 1 \in 1..MaxEntries /\ n + 1 <= Len(t) /\ Len(t) <= MaxEntries
    BY <1>1, <1>12, <2>2
  <2> QED BY <1>10, <2>1, <2>2, <2>3
<1>13. CASE m.delta # e.delta /\ ~(n < MaxEntries)
  <2> DEFINE t == [m.entries EXCEPT ![j] = new]
  <2>1. AddMapping(m, s) = [m EXCEPT !.entries[j] = new, !.last = j]
    BY <1>9, <1>13
  <2>2. AddMapping(m, s) = [m EXCEPT !.entries = t, !.last = j]
    BY <2>1 DEF Maps
  <2>3. n = MaxEntries /\ j \in 1..n BY <1>1, <1>8, <1>13
  <2>4. t \in Seq(Interval) /\ t # <<>> /\ Len(t) = n
    BY <1>1, <1>6, <2>3, ReplaceTyped
  <2> HIDE DEF t, n
  <2>5. j <= Len(t) /\ Len(t) <= MaxEntries BY <1>1, <2>3, <2>4
  <2> QED BY <1>8, <1>10, <2>2, <2>4, <2>5
<1> QED BY <1>11, <1>12, <1>13

(* ... and so does all that Map does to it. *)
LEMMA MappedTyped ==
    ASSUME NEW m \in Maps, NEW s \in Seqno
    PROVE  Mapped(m, s) \in Maps
<1>1. Plus(s, 1) \in Seqno BY Numbers, SeqnoInt
<1>2. ~Fresh(m) => m.entries # <<>> BY DEF Fresh, Maps
<1>3. ASSUME NEW k \in Maps PROVE [k EXCEPT !.next = Plus(s, 1)] \in Maps
  BY <1>1 DEF Maps
<1>4. \/ Mapped(m, s) = m \/ Mapped(m, s) = ResetAt(s)
      \/ Mapped(m, s) = [m EXCEPT !.next = Plus(s, 1)]
      \/ ~Fresh(m) /\ Mapped(m, s) = [AddMapping(m, s) EXCEPT !.next = Plus(s, 1)]
  BY DEF Mapped
<1> QED BY <1>2, <1>3, <1>4, AddMappingTyped, ResetTyped

(* A drop leaves a map. *)
LEMMA DroppedTyped ==
    ASSUME NEW m \in Maps, NEW s \in Seqno
    PROVE  Dropped(m, s) \in Maps
<1> DEFINE i == [first |-> Minus(s, Window), count |-> Window, delta |-> 0]
           es == IF m.entries # <<>> THEN m.entries ELSE <<i>>
<1>0. s \in Int /\ m.delta \in Int /\ Window \in Int /\ 0 \in Seqno
  BY Modulus DEF Maps
<1>1. Plus(s, 1) \in Seqno /\ Minus(m.delta, 1) \in Seqno /\ Minus(s, Window) \in Seqno
  <2>1. Plus(s, 1) \in Seqno BY <1>0, Numbers
  <2>2. \A k \in Int : Minus(k, 1) \in Seqno BY Numbers
  <2>3. Minus(s, Window) \in Seqno BY <1>0, Numbers
  <2> QED BY <1>0, <2>1, <2>2, <2>3
<1>2. i \in Interval BY <1>0, <1>1, Modulus DEF Interval
<1> HIDE DEF i
<1>3. es \in Seq(Interval) /\ es # <<>> /\ Len(es) <= MaxEntries /\ m.last <= Len(es)
  <2>1. CASE m.entries # <<>> BY <2>1 DEF Maps
  <2>2. CASE m.entries = <<>>
    <3>1. es = <<i>> /\ m.last = 1 BY <2>2 DEF Maps
    <3>2. <<i>> \in Seq(Interval) /\ Len(<<i>>) = 1 /\ <<i>> # <<>> BY <1>2
    <3>3. 1 <= MaxEntries BY PacketMapAssumption
    <3> HIDE DEF es
    <3> QED BY <3>1, <3>2, <3>3
  <2> QED BY <2>1, <2>2
<1>4. Dropped(m, s) = [m EXCEPT !.next = Plus(s, 1), !.delta = Minus(m.delta, 1),
                                !.entries = es]
  BY DEF Dropped, i
<1> HIDE DEF es
<1> QED BY <1>1, <1>3, <1>4 DEF Maps

-----------------------------------------------------------------------------
(* The bitmap. *)

(* What a bitmap consists of. *)
LEMMA BitmapFacts ==
    /\ BitmapSize \in Nat /\ BitmapSize > 0 /\ NackSize \in 1..BitmapSize
    /\ NoBitmap \in Bitmap
    /\ \A b \in Bitmap : /\ b.first \in Seqno /\ b.first \in Int
                         /\ b.bits \subseteq 0..(BitmapSize - 1)
<1>1. 0 \in Seqno /\ \A s \in Seqno : s \in Int BY SeqnoInt
<1> QED BY <1>1, PacketCacheAssumption DEF Bitmap, NoBitmap

(* What is left of a bitmap that has been shifted. *)
LEMMA Shifted ==
    ASSUME NEW b \in Bitmap, NEW n \in Nat
    PROVE  /\ Shift(b, n) \in Bitmap
           /\ Shift(b, n).first = Plus(b.first, n) /\ Shift(b, n).valid = b.valid
           /\ \A i \in Int : i \in Shift(b, n).bits <=> i >= 0 /\ i + n \in b.bits
<1> DEFINE bits == {i - n : i \in {j \in b.bits : j >= n}}
<1>1. Plus(b.first, n) \in Seqno
  <2>1. b.first \in Int /\ n \in Int BY BitmapFacts
  <2> QED BY <2>1, Numbers
<1>2. \A i \in bits : \E j \in b.bits : j >= n /\ i = j - n OBVIOUS
<1>3. b.bits \subseteq 0..(BitmapSize - 1) /\ BitmapSize \in Nat BY BitmapFacts
<1>4. \A i \in Int : i \in bits <=> i >= 0 /\ i + n \in b.bits
  <2>1. ASSUME NEW i \in Int, i >= 0, i + n \in b.bits PROVE i \in bits
    <3>1. i + n >= n /\ (i + n) - n = i BY <2>1
    <3> QED BY <2>1, <3>1
  <2>2. ASSUME NEW i \in Int, i \in bits PROVE i >= 0 /\ i + n \in b.bits
    <3>1. PICK j \in b.bits : j >= n /\ i = j - n BY <2>2, <1>2
    <3>2. j \in Int BY <1>3
    <3>3. i >= 0 /\ i + n = j BY <3>1, <3>2
    <3> QED BY <3>3
  <2> QED BY <2>1, <2>2
<1>5. bits \subseteq 0..(BitmapSize - 1)
  <2>1. ASSUME NEW i \in bits PROVE i \in 0..(BitmapSize - 1)
    <3>1. PICK j \in b.bits : j >= n /\ i = j - n BY <1>2
    <3>2. j \in 0..(BitmapSize - 1) BY <1>3
    <3> QED BY <1>3, <3>1, <3>2
  <2> QED BY <2>1
<1> HIDE DEF bits
<1>6. Shift(b, n) = [b EXCEPT !.first = Plus(b.first, n), !.bits = bits]
  BY DEF Shift, bits
<1> QED BY <1>1, <1>4, <1>5, <1>6 DEF Bitmap

(* The packets that are counted have come. *)
LEMMA TrailingOnesFacts ==
    ASSUME NEW b \in Bitmap
    PROVE  /\ TrailingOnes(b) \in 0..BitmapSize
           /\ 0..(TrailingOnes(b) - 1) \subseteq b.bits
<1> DEFINE T == {n \in 0..BitmapSize : n \notin b.bits}
<1>1. BitmapSize \in Nat /\ b.bits \subseteq 0..(BitmapSize - 1) BY BitmapFacts
<1>2. T \in SUBSET Nat /\ BitmapSize \in T BY <1>1
<1>3. PICK n \in T : \A m \in T : n <= m
  <2> HIDE DEF T
  <2> QED BY <1>2, Least
<1>4. 0..(n - 1) \subseteq b.bits /\ n \notin b.bits /\ n \in 0..BitmapSize
  <2>1. ASSUME NEW i \in 0..(n - 1) PROVE i \in b.bits
    <3>1. i \in 0..BitmapSize /\ ~(n <= i) BY <1>1
    <3> QED BY <1>3, <3>1
  <2> QED BY <2>1
<1> QED BY <1>4 DEF TrailingOnes

(* The bitmap makes room by n, and then leaves out k packets that have come. *)
LEMMA Slid ==
    ASSUME NEW b \in Bitmap, NEW s \in Seqno
    PROVE  \E n \in Nat, k \in Nat :
              LET d == Minus(s, b.first)
              IN  /\ n = IF d >= BitmapSize THEN d - (BitmapSize - 1) ELSE 0
                  /\ Slide(b, s) \in Bitmap /\ Slide(b, s).valid = b.valid
                  /\ Slide(b, s).first = Plus(Plus(b.first, n), k)
                  /\ \A i \in n..(n + k - 1) : i \in b.bits
                  /\ \A i \in Int : i \in Slide(b, s).bits
                                    <=> i >= 0 /\ i + n + k \in b.bits
<1> DEFINE d == Minus(s, b.first)
           n == IF d >= BitmapSize THEN d - (BitmapSize - 1) ELSE 0
           b1 == IF d >= BitmapSize THEN Shift(b, d - (BitmapSize - 1)) ELSE b
           k == IF 0 \in b1.bits THEN TrailingOnes(b1) ELSE 0
<1>1. d \in Seqno /\ d \in Int /\ BitmapSize \in Nat /\ b.first \in Seqno /\ b.first \in Int
      /\ b.bits \subseteq 0..(BitmapSize - 1)
  BY BitmapFacts, Numbers, SeqnoInt
<1>2. n \in Nat
  <2> HIDE DEF d
  <2> QED BY <1>1
<1>3. Slide(b, s) = IF 0 \in b1.bits THEN Shift(b1, TrailingOnes(b1)) ELSE b1
  BY DEF Slide
<1> HIDE DEF d
<1>3a. \A x \in Seqno : Plus(x, 0) = x
  <2> SUFFICES ASSUME NEW x \in Seqno PROVE Plus(x, 0) = x OBVIOUS
  <2>1. Mod \in Int /\ Mod > 0 /\ x \in 0..(Mod - 1) /\ x \in Int BY Modulus
  <2>2. (Mod * 0 + x) % Mod = x
    <3> HIDE DEF Mod
    <3> QED BY <2>1, Remainder
  <2>3. Mod * 0 + x = x + 0
    <3> HIDE DEF Mod
    <3> QED BY <2>1
  <2> QED BY <2>2, <2>3 DEF Plus
<1>4. /\ b1 \in Bitmap /\ b1.valid = b.valid /\ b1.first = Plus(b.first, n)
      /\ \A i \in Int : i \in b1.bits <=> i >= 0 /\ i + n \in b.bits
  <2>1. CASE d >= BitmapSize
    <3>1. b1 = Shift(b, n) BY <2>1
    <3> HIDE DEF b1, n
    <3> QED BY <1>2, <3>1, Shifted
  <2>2. CASE ~(d >= BitmapSize)
    <3>1. b1 = b /\ n = 0 BY <2>2
    <3> HIDE DEF b1, n
    <3>2. b1.first = Plus(b.first, n) BY <1>1, <1>3a, <3>1
    <3>3. \A i \in Int : i \in b1.bits <=> i >= 0 /\ i + n \in b.bits
      BY <1>1, <3>1
    <3> QED BY <3>1, <3>2, <3>3
  <2> QED BY <2>1, <2>2
<1> HIDE DEF b1, n
<1>5. b1.first \in Seqno /\ b1.bits \subseteq 0..(BitmapSize - 1)
  BY <1>4, BitmapFacts
<1>6. /\ Slide(b, s) \in Bitmap /\ Slide(b, s).valid = b1.valid
      /\ k \in Nat /\ Slide(b, s).first = Plus(b1.first, k)
      /\ \A i \in 0..(k - 1) : i \in b1.bits
      /\ \A i \in Int : i \in Slide(b, s).bits <=> i >= 0 /\ i + k \in b1.bits
  <2>1. CASE 0 \in b1.bits
    <3>1. k \in Nat /\ 0..(k - 1) \subseteq b1.bits
      BY <1>1, <1>4, <2>1, TrailingOnesFacts
    <3>2. Slide(b, s) = Shift(b1, k) BY <1>3, <2>1
    <3> HIDE DEF k
    <3> QED BY <1>4, <3>1, <3>2, Shifted
  <2>2. CASE 0 \notin b1.bits
    <3>1. k = 0 /\ Slide(b, s) = b1 BY <1>3, <2>2
    <3> HIDE DEF k
    <3>2. Slide(b, s).first = Plus(b1.first, k) BY <1>3a, <1>5, <3>1
    <3>3. \A i \in Int : i \in b1.bits <=> i >= 0 /\ i + 0 \in b1.bits
      BY <1>1, <1>5
    <3>4. \A i \in 0..(k - 1) : i \in b1.bits BY <3>1
    <3> QED BY <1>4, <3>1, <3>2, <3>3, <3>4
  <2> QED BY <2>1, <2>2
<1> HIDE DEF k
<1>7. ASSUME NEW i \in n..(n + k - 1) PROVE i \in b.bits
  <2>1. i - n \in 0..(k - 1) /\ i - n \in Int /\ (i - n) + n = i
    BY <1>2, <1>6, <1>7
  <2> QED BY <1>4, <1>6, <2>1
<1>8. ASSUME NEW i \in Int
      PROVE  i \in Slide(b, s).bits <=> i >= 0 /\ i + n + k \in b.bits
  <2>1. i \in Slide(b, s).bits <=> i >= 0 /\ i + k \in b1.bits BY <1>6
  <2>2. i + k \in b1.bits <=> i + k >= 0 /\ (i + k) + n \in b.bits
    BY <1>4, <1>6
  <2>3. (i + k) + n = i + n + k /\ (i >= 0 => i + k >= 0) BY <1>2, <1>6
  <2> QED BY <2>1, <2>2, <2>3
<1> QED BY <1>2, <1>4, <1>6, <1>7, <1>8 DEF n, d

(* No more packets are looked at than there are before the limit. *)
LEMMA NackCountTyped ==
    ASSUME NEW b \in Bitmap, NEW s \in Seqno
    PROVE  /\ NackCount(b, s) \in Nat
           /\ NackCount(b, s) > 0 => /\ ~AtOrAfter(b.first, s)
                                     /\ NackCount(b, s) <= Minus(s, b.first)
<1>1. Minus(s, b.first) \in Nat /\ NackSize \in Nat
  <2>1. s \in Int /\ b.first \in Int BY SeqnoInt, BitmapFacts
  <2>2. Minus(s, b.first) \in Seqno BY <2>1, Numbers
  <2>3. NackSize \in Nat BY BitmapFacts
  <2> QED BY <2>2, <2>3, Modulus
<1> QED BY <1>1 DEF NackCount

(* bitmap.set leaves a bitmap. *)
LEMMA SetBitTyped ==
    ASSUME NEW b \in Bitmap, NEW s \in Seqno
    PROVE  SetBit(b, s) \in Bitmap
<1> DEFINE b2 == Slide(b, s)
           new == {Minus(s, b2.first)} \cap 0..(BitmapSize - 1)
<1>1. b2 \in Bitmap BY Slid
<1>2. [valid |-> TRUE, first |-> s, bits |-> {0}] \in Bitmap
  BY BitmapFacts DEF Bitmap
<1>3. SetBit(b, s) \in {[valid |-> TRUE, first |-> s, bits |-> {0}], b,
                        [b2 EXCEPT !.bits = @ \cup new]}
  BY DEF SetBit
<1>4. new \subseteq 0..(BitmapSize - 1) OBVIOUS
<1> HIDE DEF b2, new
<1>5. [b2 EXCEPT !.bits = @ \cup new] \in Bitmap
  BY <1>1, <1>4 DEF Bitmap
<1> QED BY <1>2, <1>3, <1>5

-----------------------------------------------------------------------------
(* The ring. *)

\* A cache whose tail is in its ring.
Rings == {c \in [last : Position, keyframe : Position, bitmap : Bitmap,
                 tail : Nat, entries : Seq(Entry)] : c.tail < Len(c.entries)}

\* Where the k-th packet from the newest is.
Slot(c, k) == IF k <= c.tail THEN c.tail - k + 1 ELSE c.tail - k + 1 + Capacity(c)
Back(c, k) == c.entries[Slot(c, k)]

(* Every entry of a ring is the k-th newest for some k. *)
LEMMA RingFacts ==
    ASSUME NEW c \in Rings
    PROVE  /\ Capacity(c) \in Nat /\ Capacity(c) > 0 /\ c.tail \in 0..(Capacity(c) - 1)
           /\ DOMAIN c.entries = 1..Capacity(c) /\ c.entries \in Seq(Entry)
           /\ \A k \in 1..Capacity(c) : /\ Slot(c, k) \in 1..Capacity(c)
                                        /\ Back(c, k) \in Entry
           /\ \A i \in 1..Capacity(c) : \E k \in 1..Capacity(c) : i = Slot(c, k)
<1>1. /\ Capacity(c) \in Nat /\ Capacity(c) > 0 /\ c.tail \in 0..(Capacity(c) - 1)
      /\ DOMAIN c.entries = 1..Capacity(c) /\ c.entries \in Seq(Entry)
  BY DEF Rings, Capacity
<1>2. \A k \in 1..Capacity(c) : Slot(c, k) \in 1..Capacity(c)
  BY <1>1 DEF Slot
<1>3. \A k \in 1..Capacity(c) : Back(c, k) \in Entry
  BY <1>1, <1>2 DEF Back
<1>4. ASSUME NEW i \in 1..Capacity(c)
      PROVE  \E k \in 1..Capacity(c) : i = Slot(c, k)
  <2> DEFINE k == IF i <= c.tail THEN c.tail - i + 1 ELSE c.tail - i + 1 + Capacity(c)
  <2>1. k \in 1..Capacity(c) /\ Slot(c, k) = i BY <1>1, SMTT(30) DEF Slot
  <2> QED BY <2>1
<1> QED BY <1>1, <1>2, <1>3, <1>4

(* Memory that is zeroed is an entry. *)
LEMMA EmptyTyped == Empty \in Entry /\ Nowhere \in Position
  BY SeqnoInt DEF Empty, Entry, Nowhere, Position

(* A new ring is empty. *)
LEMMA NewTyped ==
    ASSUME NEW n \in Nat, n > 0
    PROVE  New(n) \in Rings /\ Capacity(New(n)) = n
           /\ \A k \in 1..n : Back(New(n), k) = Empty
<1> DEFINE es == [i \in 1..n |-> Empty]
<1>1. es \in Seq(Entry) /\ Len(es) = n BY EmptyTyped
<1>2. New(n) \in Rings /\ Capacity(New(n)) = n
  <2> HIDE DEF es
  <2>1. New(n) = [last |-> Nowhere, keyframe |-> Nowhere, bitmap |-> NoBitmap,
                  tail |-> 0, entries |-> es] BY DEF New, es
  <2> QED BY <1>1, <2>1, EmptyTyped, BitmapFacts DEF Rings, Capacity
<1>3. New(n).entries = es BY DEF New
<1>4. ASSUME NEW k \in 1..n PROVE Back(New(n), k) = Empty
  <2>1. Slot(New(n), k) \in 1..n BY <1>2, RingFacts
  <2> QED BY <1>3, <2>1 DEF Back
<1> QED BY <1>2, <1>4

(* What is stored is the newest, and the others move back by one. *)
LEMMA Stored ==
    ASSUME NEW c \in Rings, NEW s \in Seqno, NEW p \in Packets, NEW kf \in BOOLEAN
    PROVE  LET d == Store(c, s, p, kf)
           IN /\ d \in Rings /\ Capacity(d) = Capacity(c) /\ d.bitmap = SetBit(c.bitmap, s)
              /\ Back(d, 1) = [seqno |-> s, packet |-> p]
              /\ \A k \in 1..(Capacity(c) - 1) : Back(d, k + 1) = Back(c, k)
<1> DEFINE n == Capacity(c)
           new == [seqno |-> s, packet |-> p]
           t == (c.tail + 1) % n
           es == [c.entries EXCEPT ![c.tail + 1] = new]
           d == Store(c, s, p, kf)
<1>1. n \in Nat /\ n > 0 /\ c.tail \in 0..(n - 1) /\ DOMAIN c.entries = 1..n
      /\ c.entries \in Seq(Entry)
  BY RingFacts
<1>2. new \in Entry BY DEF Entry
<1>3. t = IF c.tail + 1 = n THEN 0 ELSE c.tail + 1
  <2> HIDE DEF n
  <2>1. CASE c.tail + 1 = n
    <3>1. (n * 1 + 0) % n = 0 BY <1>1, Remainder
    <3>2. n * 1 + 0 = c.tail + 1 BY <1>1, <2>1
    <3> QED BY <2>1, <3>1, <3>2
  <2>2. CASE c.tail + 1 # n
    <3>0. c.tail + 1 \in 0..(n - 1) BY <1>1, <2>2
    <3>1. (n * 0 + (c.tail + 1)) % n = c.tail + 1 BY <1>1, <3>0, Remainder
    <3>2. n * 0 + (c.tail + 1) = c.tail + 1 BY <1>1
    <3> QED BY <2>2, <3>1, <3>2
  <2> QED BY <2>1, <2>2
<1>4. es \in Seq(Entry) /\ Len(es) = n /\ DOMAIN es = 1..n
  <2>1. c.tail + 1 \in DOMAIN c.entries BY <1>1
  <2>2. es \in Seq(Entry) /\ Len(es) = Len(c.entries)
    BY <1>1, <1>2, <2>1, ReplaceTyped
  <2> QED BY <2>2 DEF Capacity
<1>5. /\ d.tail = t /\ d.entries = es /\ d.bitmap = SetBit(c.bitmap, s)
      /\ d.last \in Position /\ d.keyframe \in Position /\ d.bitmap \in Bitmap
  <2>1. d.tail = t /\ d.entries = es /\ d.bitmap = SetBit(c.bitmap, s)
    BY DEF Store
  <2>2. c.last \in Position /\ c.keyframe \in Position /\ c.bitmap \in Bitmap
    BY DEF Rings
  <2>3. d.last \in {c.last, [valid |-> TRUE, at |-> s]} BY DEF Store
  <2>4. d.keyframe \in {c.keyframe, [valid |-> TRUE, at |-> s],
                        [c.keyframe EXCEPT !.valid = FALSE]} BY DEF Store
  <2>5. d.last \in Position /\ d.keyframe \in Position
    <3> HIDE DEF d
    <3>1. [valid |-> TRUE, at |-> s] \in Position BY DEF Position
    <3>2. [c.keyframe EXCEPT !.valid = FALSE] \in Position BY <2>2 DEF Position
    <3> QED BY <2>2, <2>3, <2>4, <3>1, <3>2
  <2>6. SetBit(c.bitmap, s) \in Bitmap BY <2>2, SetBitTyped
  <2> QED BY <2>1, <2>5, <2>6
<1>6. d = [last |-> d.last, keyframe |-> d.keyframe, bitmap |-> d.bitmap,
           tail |-> d.tail, entries |-> d.entries]
  BY DEF Store
<1> HIDE DEF t, es, d
<1>7. d \in Rings /\ Capacity(d) = n
  <2> HIDE DEF n
  <2>1. Capacity(d) = n BY <1>4, <1>5 DEF Capacity
  <2>2. d.tail \in Nat /\ d.tail < Len(d.entries) BY <1>1, <1>3, <1>4, <1>5
  <2> QED BY <1>4, <1>5, <1>6, <2>1, <2>2 DEF Rings
<1>8. Slot(d, 1) = c.tail + 1 BY <1>1, <1>3, <1>5, <1>7 DEF Slot
<1>9. Back(d, 1) = new BY <1>1, <1>5, <1>8 DEF Back, es
<1>10. ASSUME NEW k \in 1..(n - 1) PROVE Back(d, k + 1) = Back(c, k)
  <2>1. Slot(d, k + 1) = Slot(c, k) BY <1>1, <1>3, <1>5, <1>7, SMTT(30) DEF Slot
  <2>2. Slot(c, k) \in 1..n /\ Slot(c, k) # c.tail + 1 BY <1>1 DEF Slot
  <2> QED BY <1>1, <1>5, <2>1, <2>2 DEF Back, es
<1> QED BY <1>5, <1>7, <1>9, <1>10 DEF d

(* Resizing keeps the newest packets, as many as there is room for. *)
LEMMA Resized ==
    ASSUME NEW c \in Rings, NEW n \in Nat, n > 0
    PROVE  LET d == ResizeCond(c, n)
           IN /\ d \in Rings /\ Capacity(d) \in {n, Capacity(c)} /\ d.bitmap = c.bitmap
              /\ \A k \in 1..Capacity(d) :
                    Back(d, k) = IF k <= Capacity(c) THEN Back(c, k) ELSE Empty
<1> DEFINE m == Capacity(c)
           t == c.tail
           old == c.entries
<1>1. m \in Nat /\ m > 0 /\ t \in 0..(m - 1) /\ DOMAIN old = 1..m
      /\ old \in Seq(Entry) /\ Len(old) = m
  BY RingFacts DEF Capacity
<1>2. ASSUME NEW es \in Seq(Entry), NEW u \in {t, 0}, u < Len(es), Len(es) = n,
             NEW d, d = [c EXCEPT !.entries = es, !.tail = u],
             \A k \in 1..n : es[IF k <= u THEN u - k + 1 ELSE u - k + 1 + n]
                             = IF k <= m THEN Back(c, k) ELSE Empty
      PROVE  /\ d \in Rings /\ Capacity(d) = n /\ d.bitmap = c.bitmap
             /\ \A k \in 1..n : Back(d, k) = IF k <= m THEN Back(c, k) ELSE Empty
  <2>0. u \in Nat BY <1>1
  <2> HIDE DEF m, t, old
  <2>1. d \in Rings /\ d.entries = es /\ d.tail = u /\ d.bitmap = c.bitmap
    <3>1. c \in [last : Position, keyframe : Position, bitmap : Bitmap,
                 tail : Nat, entries : Seq(Entry)] BY DEF Rings
    <3>2. /\ d \in [last : Position, keyframe : Position, bitmap : Bitmap,
                    tail : Nat, entries : Seq(Entry)]
          /\ d.entries = es /\ d.tail = u /\ d.bitmap = c.bitmap
      BY <1>2, <2>0, <3>1
    <3> QED BY <1>2, <3>2 DEF Rings
  <2>2. Capacity(d) = n BY <1>2, <2>1 DEF Capacity
  <2> QED BY <1>2, <2>1, <2>2 DEF Back, Slot
<1>3. CASE ResizeCond(c, n) = c
  <2>1. \A k \in 1..m : k <= m BY <1>1
  <2> QED BY <1>3, <2>1
<1>4. CASE ResizeCond(c, n) # c
  <2>0. ResizeCond(c, n) = Resize(c, n) /\ n # m /\ (n < m => t <= n)
    BY <1>1, <1>4 DEF ResizeCond, Resize
  <2> DEFINE d == ResizeCond(c, n)
  <2>1. CASE n > m
    <3> DEFINE empty == [i \in 1..(n - m) |-> Empty]
               a == SubSeq(old, 1, t)
               b == SubSeq(old, t + 1, m)
               es == a \o empty \o b
    <3>1. d = [c EXCEPT !.entries = es, !.tail = t]
      <4>1. d = [c EXCEPT !.entries = es] BY <1>1, <2>0, <2>1 DEF Resize
      <4>2. c.tail = t OBVIOUS
      <4> HIDE DEF es, d
      <4> QED BY <4>1 DEF Rings
    <3>2. empty \in Seq(Entry) /\ Len(empty) = n - m BY <1>1, <2>1, EmptyTyped
    <3>3. a \in Seq(Entry) /\ Len(a) = t /\ \A i \in 1..t : a[i] = old[i]
      BY <1>1
    <3>4. b \in Seq(Entry) /\ Len(b) = m - t /\ \A i \in 1..(m - t) : b[i] = old[t + i]
      BY <1>1, SMTT(30)
    <3>5. \A i \in 1..(n - m) : empty[i] = Empty OBVIOUS
    <3> HIDE DEF a, b, empty, m, t, old
    <3>6. es \in Seq(Entry) /\ Len(es) = n
      <4> DEFINE ae == a \o empty
      <4>1. ae \in Seq(Entry) /\ Len(ae) = Len(a) + Len(empty)
        BY <3>2, <3>3
      <4> HIDE DEF ae
      <4>2. ae \o b \in Seq(Entry) /\ Len(ae \o b) = Len(ae) + Len(b)
        BY <3>4, <4>1
      <4>3. Len(ae) + Len(b) = n BY <1>1, <2>1, <3>2, <3>3, <3>4, <4>1
      <4> QED BY <4>2, <4>3 DEF ae
    <3>7. \A i \in 1..n : es[i] = IF i <= t THEN old[i]
                                  ELSE IF i <= t + (n - m) THEN Empty
                                  ELSE old[i - (n - m)]
      <4> SUFFICES ASSUME NEW i \in 1..n
                   PROVE  es[i] = IF i <= t THEN old[i]
                                  ELSE IF i <= t + (n - m) THEN Empty
                                  ELSE old[i - (n - m)]
        OBVIOUS
      <4>1. CASE i <= t BY <1>1, <2>1, <3>2, <3>3, <3>4, <4>1
      <4>2. CASE i > t /\ i <= t + (n - m)
        <5>1. i - t \in 1..(n - m) BY <1>1, <2>1, <4>2
        <5>2. es[i] = empty[i - t] BY <1>1, <2>1, <3>2, <3>3, <3>4, <4>2
        <5> HIDE DEF es
        <5> QED BY <1>1, <3>5, <4>2, <5>1, <5>2
      <4>3. CASE i > t + (n - m)
        <5>1. i - (t + (n - m)) \in 1..(m - t) BY <1>1, <2>1, <4>3
        <5>2. es[i] = b[i - (t + (n - m))]
          <6> DEFINE ae == a \o empty
                     l == i - (t + (n - m))
          <6>1. ae \in Seq(Entry) /\ Len(ae) = Len(a) + Len(empty) BY <3>2, <3>3
          <6>2. Len(ae) = t + (n - m) BY <1>1, <3>2, <3>3, <6>1
          <6>3. l \in 1..Len(b) /\ Len(ae) + l = i BY <1>1, <3>4, <5>1, <6>2
          <6> HIDE DEF ae, l
          <6>4. (ae \o b)[Len(ae) + l] = b[l] BY <3>4, <6>1, <6>3
          <6>5. es = ae \o b BY DEF ae
          <6> HIDE DEF es
          <6> QED BY <6>3, <6>4, <6>5 DEF l
        <5>3. t + (i - (t + (n - m))) = i - (n - m) BY <1>1
        <5> QED BY <1>1, <2>1, <3>4, <4>3, <5>1, <5>2, <5>3
      <4> HIDE DEF es
      <4> QED BY <1>1, <4>1, <4>2, <4>3
    <3> HIDE DEF es, d
    <3>8. ASSUME NEW k \in 1..n
          PROVE  es[IF k <= t THEN t - k + 1 ELSE t - k + 1 + n]
                 = IF k <= m THEN Back(c, k) ELSE Empty
      <4>1. CASE k <= t
        <5>1. t - k + 1 \in 1..t BY <1>1, <4>1
        <5>2. PICK i \in 1..n : i = t - k + 1 /\ i <= t BY <1>1, <2>1, <5>1
        <5>3. es[i] = old[i] BY <3>7, <5>2
        <5>4. Back(c, k) = old[t - k + 1] BY <4>1 DEF Back, Slot, t, old
        <5>5. k <= m BY <1>1, <4>1
        <5> QED BY <4>1, <5>2, <5>3, <5>4, <5>5
      <4>2. CASE k > t /\ k <= m
        <5>1. PICK i \in 1..n : /\ i = t - k + 1 + n /\ ~(i <= t)
                                /\ ~(i <= t + (n - m))
          <6>1. t - k + 1 + n > t + (n - m) /\ t - k + 1 + n \in 1..n
            BY <1>1, <2>1, <4>2
          <6> QED BY <1>1, <2>1, <6>1
        <5>2. es[i] = old[i - (n - m)] BY <3>7, <5>1
        <5>3. i - (n - m) = t - k + 1 + m BY <1>1, <5>1
        <5>4. Back(c, k) = old[t - k + 1 + m]
          BY <1>1, <4>2 DEF Back, Slot, t, m, old
        <5> QED BY <1>1, <4>2, <5>1, <5>2, <5>3, <5>4
      <4>3. CASE k > m
        <5>1. PICK i \in 1..n : i = t - k + 1 + n /\ ~(i <= t) /\ i <= t + (n - m)
          <6>1. /\ t - k + 1 + n > t /\ t - k + 1 + n <= t + (n - m)
                /\ t - k + 1 + n \in 1..n
            BY <1>1, <2>1, <4>3
          <6> QED BY <1>1, <2>1, <6>1
        <5>2. es[t - k + 1 + n] = Empty BY <3>7, <5>1
        <5> QED BY <1>1, <4>3, <5>2
      <4> QED BY <1>1, <4>1, <4>2, <4>3
    <3>9. t < Len(es) BY <1>1, <2>1, <3>6
    <3>10. /\ d \in Rings /\ Capacity(d) = n /\ d.bitmap = c.bitmap
           /\ \A k \in 1..n : Back(d, k) = IF k <= m THEN Back(c, k) ELSE Empty
      BY <1>2, <3>1, <3>6, <3>8, <3>9
    <3> QED BY <3>10 DEF d, m
  <2>2. CASE n < m /\ n > t
    <3> DEFINE a == SubSeq(old, 1, t)
               b == SubSeq(old, t + m - n + 1, m)
               es == a \o b
    <3>1. d = [c EXCEPT !.entries = es, !.tail = t]
      <4>1. d = [c EXCEPT !.entries = es] BY <1>1, <2>0, <2>2 DEF Resize
      <4> HIDE DEF es, d
      <4> QED BY <4>1 DEF Rings
    <3>2. a \in Seq(Entry) /\ Len(a) = t /\ \A i \in 1..t : a[i] = old[i]
      BY <1>1
    <3>3. b \in Seq(Entry) /\ Len(b) = n - t
          /\ \A i \in 1..(n - t) : b[i] = old[t + m - n + i]
      <4> DEFINE k == t + m - n + 1
      <4>1. k \in Int /\ k >= 1 /\ k <= m /\ (m - k) + 1 = n - t /\ m = Len(old)
            /\ old \in Seq(Entry)
        BY <1>1, <2>2
      <4> HIDE DEF k, m, t, old, b
      <4>2. b = SubSeq(old, k, m) BY DEF b, k
      <4>3. b \in Seq(Entry) /\ Len(b) = (m - k) + 1
            /\ \A i \in 1..((m - k) + 1) : b[i] = old[k + i - 1]
        BY <4>1, <4>2
      <4>4. \A i \in 1..(n - t) : k + i - 1 = t + m - n + i BY <1>1 DEF k
      <4> QED BY <4>1, <4>3, <4>4
    <3> HIDE DEF a, b, m, t, old
    <3>4. es \in Seq(Entry) /\ Len(es) = n
      <4>1. a \in Seq(Entry) /\ b \in Seq(Entry) BY <3>2, <3>3
      <4>2. es \in Seq(Entry) /\ Len(es) = Len(a) + Len(b) BY <4>1
      <4> HIDE DEF es
      <4> QED BY <1>1, <3>2, <3>3, <4>2
    <3>5. \A i \in 1..n : es[i] = IF i <= t THEN old[i] ELSE old[i + m - n]
      <4> SUFFICES ASSUME NEW i \in 1..n
                   PROVE  es[i] = IF i <= t THEN old[i] ELSE old[i + m - n]
        OBVIOUS
      <4>1. CASE i <= t BY <1>1, <2>2, <3>2, <3>3, <4>1
      <4>2. CASE i > t
        <5>1. i - t \in 1..(n - t) BY <1>1, <2>2, <4>2
        <5>2. es[i] = b[i - t] BY <1>1, <2>2, <3>2, <3>3, <4>2
        <5>3. t + m - n + (i - t) = i + m - n BY <1>1
        <5>4. b[i - t] = old[t + m - n + (i - t)] BY <3>3, <5>1
        <5> HIDE DEF es
        <5> QED BY <1>1, <4>2, <5>2, <5>3, <5>4
      <4> HIDE DEF es
      <4> QED BY <1>1, <4>1, <4>2
    <3> HIDE DEF es, d
    <3>6. ASSUME NEW k \in 1..n
          PROVE  es[IF k <= t THEN t - k + 1 ELSE t - k + 1 + n]
                 = IF k <= m THEN Back(c, k) ELSE Empty
      <4>1. CASE k <= t
        <5>1. t - k + 1 \in 1..t BY <1>1, <4>1
        <5>2. PICK i \in 1..n : i = t - k + 1 /\ i <= t BY <1>1, <2>2, <5>1
        <5>3. es[i] = old[i] BY <3>5, <5>2
        <5>4. Back(c, k) = old[t - k + 1] BY <4>1 DEF Back, Slot, t, old
        <5>5. k <= m BY <1>1, <4>1
        <5> QED BY <4>1, <5>2, <5>3, <5>4, <5>5
      <4>2. CASE k > t
        <5>1. PICK i \in 1..n : i = t - k + 1 + n /\ ~(i <= t)
          <6>1. t - k + 1 + n > t /\ t - k + 1 + n \in 1..n BY <1>1, <2>2, <4>2
          <6> QED BY <1>1, <6>1
        <5>2. es[t - k + 1 + n] = old[t - k + 1 + n + m - n] BY <3>5, <5>1
        <5>3. t - k + 1 + n + m - n = t - k + 1 + m BY <1>1
        <5>4. Back(c, k) = old[t - k + 1 + m]
          BY <1>1, <4>2 DEF Back, Slot, t, m, old
        <5> QED BY <1>1, <2>2, <4>2, <5>2, <5>3, <5>4
      <4> QED BY <1>1, <4>1, <4>2
    <3>7. t < Len(es) BY <1>1, <2>2, <3>4
    <3>8. /\ d \in Rings /\ Capacity(d) = n /\ d.bitmap = c.bitmap
          /\ \A k \in 1..n : Back(d, k) = IF k <= m THEN Back(c, k) ELSE Empty
      BY <1>2, <3>1, <3>4, <3>6, <3>7
    <3> QED BY <3>8 DEF d, m
  <2>3. CASE n < m /\ n <= t
    <3> DEFINE es == SubSeq(old, t - n + 1, t)
    <3>1. d = [c EXCEPT !.entries = es, !.tail = 0]
      <4>1. n # m /\ ~(n > m) /\ ~(n < m /\ n > c.tail) BY <1>1, <2>3
      <4>2. Resize(c, n) = [c EXCEPT !.entries = es, !.tail = 0]
        BY <4>1 DEF Resize
      <4> QED BY <2>0, <4>2
    <3> HIDE DEF d, m, t, old
    <3>2. es \in Seq(Entry) /\ Len(es) = n /\ \A i \in 1..n : es[i] = old[t - n + i]
      <4>1. t - n + 1 \in 1..m /\ t \in 1..m /\ t - (t - n + 1) + 1 = n
        BY <1>1, <2>3
      <4>2. es \in Seq(Entry) /\ Len(es) = n BY <1>1, <2>3, <4>1
      <4>3. \A i \in 1..n : es[i] = old[(t - n + 1) + i - 1]
        BY <1>1, <2>3, <4>1, <4>2
      <4>4. \A i \in 1..n : (t - n + 1) + i - 1 = t - n + i BY <1>1
      <4> QED BY <4>2, <4>3, <4>4
    <3> HIDE DEF es
    <3>3. ASSUME NEW k \in 1..n
          PROVE  es[IF k <= 0 THEN 0 - k + 1 ELSE 0 - k + 1 + n]
                 = IF k <= m THEN Back(c, k) ELSE Empty
      <4>1. 0 - k + 1 + n \in 1..n /\ ~(k <= 0) /\ k <= t /\ k <= m
        BY <1>1, <2>3
      <4>2. es[0 - k + 1 + n] = old[t - n + (0 - k + 1 + n)] BY <3>2, <4>1
      <4>3. t - n + (0 - k + 1 + n) = t - k + 1 BY <1>1
      <4>4. Back(c, k) = old[t - k + 1] BY <4>1 DEF Back, Slot, t, m, old
      <4> QED BY <4>1, <4>2, <4>3, <4>4
    <3>4. 0 < Len(es) BY <3>2
    <3>5. /\ d \in Rings /\ Capacity(d) = n /\ d.bitmap = c.bitmap
          /\ \A k \in 1..n : Back(d, k) = IF k <= m THEN Back(c, k) ELSE Empty
      BY <1>2, <3>1, <3>2, <3>3, <3>4
    <3> QED BY <3>5 DEF d, m
  <2> QED BY <1>1, <2>0, <2>1, <2>2, <2>3
<1> QED BY <1>3, <1>4

(* Get finds a packet of that number if there is one. *)
LEMMA Found ==
    ASSUME NEW c \in Rings, NEW s
    PROVE  /\ Get(c, s) \in Packets \cup {NoPacket}
           /\ Get(c, s) # NoPacket =>
                 \E k \in 1..Capacity(c) :
                    Back(c, k).seqno = s /\ Back(c, k).packet = Get(c, s)
           /\ Get(c, s) = NoPacket =>
                 \A k \in 1..Capacity(c) :
                    Back(c, k).packet = NoPacket \/ Back(c, k).seqno # s
<1> DEFINE n == Capacity(c)
           found == {i \in 1..n : c.entries[i].packet # NoPacket /\ c.entries[i].seqno = s}
           first == CHOOSE i \in found : \A j \in found : i <= j
<1>1. n \in Nat /\ \A i \in 1..n : c.entries[i] \in Entry
  <2>1. n \in Nat /\ DOMAIN c.entries = 1..n /\ c.entries \in Seq(Entry)
    BY RingFacts
  <2> HIDE DEF n
  <2> QED BY <2>1
<1>2. Get(c, s) = IF found = {} THEN NoPacket ELSE c.entries[first].packet
  BY DEF Get
<1>3. CASE found = {}
  <2>1. \A k \in 1..n : Slot(c, k) \notin found /\ Slot(c, k) \in 1..n
    BY <1>3, RingFacts
  <2> QED BY <1>2, <1>3, <2>1 DEF Back
<1>4. CASE found # {}
  <2>1. found \in SUBSET Nat BY <1>1
  <2>2. first \in found
    <3> HIDE DEF found
    <3> QED BY <1>4, <2>1, Least
  <2> HIDE DEF first
  <2>3. first \in 1..n /\ c.entries[first].packet # NoPacket /\ c.entries[first].seqno = s
    BY <2>2
  <2>4. Get(c, s) = c.entries[first].packet BY <1>2, <1>4
  <2> HIDE DEF found
  <2>5. Get(c, s) \in Packets BY <1>1, <2>3, <2>4 DEF Entry
  <2>6. PICK k \in 1..n : first = Slot(c, k) BY <2>3, RingFacts
  <2>7. Get(c, s) # NoPacket BY <2>3, <2>4
  <2>8. Back(c, k).seqno = s /\ Back(c, k).packet = Get(c, s)
    BY <2>3, <2>4, <2>6 DEF Back
  <2> QED BY <2>5, <2>6, <2>7, <2>8
<1> QED BY <1>3, <1>4

(* GetAt finds a packet or none. *)
LEMMA FoundAt ==
    ASSUME NEW c \in Rings, NEW s, NEW i \in Nat
    PROVE  GetAt(c, s, i) \in Packets \cup {NoPacket}
<1>1. ASSUME ~(i >= Capacity(c)) PROVE c.entries[i + 1] \in Entry
  <2>1. i + 1 \in DOMAIN c.entries BY <1>1, RingFacts
  <2> QED BY <2>1, RingFacts
<1> QED BY <1>1 DEF GetAt, Entry

-----------------------------------------------------------------------------
(* Types. *)

(* The receiver's layer is one that was seen. *)
LEMMA LayerTyped ==
    ASSUME NEW l \in Layers, NEW p \in Packets
    PROVE  /\ Adjusted(l) \subseteq Layers
           /\ Seen(l, Flags(p)) \subseteq Layers
           /\ Switched(l, Flags(p)) \in Layers
<1> DEFINE f == Flags(p)
<1>1. MaxTid \in Nat /\ f.tid \in 0..MaxTid BY Constants
<1>2. ASSUME NEW k \in Layers PROVE Adjusted(k) \subseteq Layers
  <2>1. ASSUME NEW w \in {k.tid - 1, k.tid + 1} \cap 0..k.max
        PROVE  [k EXCEPT !.wanted = w] \in Layers
    BY <1>1 DEF Layers
  <2> QED BY <2>1 DEF Adjusted
<1>3. Seen(l, f) \subseteq Layers
  <2>1. ~(f.tid <= l.max) => [l EXCEPT !.max = f.tid] \in Layers
    BY <1>1 DEF Layers
  <2>2. [tid |-> f.tid, wanted |-> f.tid, max |-> f.tid] \in Layers
    BY <1>1 DEF Layers
  <2> HIDE DEF f
  <2> QED BY <1>2, <2>1, <2>2 DEF Seen
<1>4. Switched(l, f) \in Layers
  <2>1. [l EXCEPT !.tid = l.wanted] \in Layers BY DEF Layers
  <2>2. f.tid <= l.wanted => [l EXCEPT !.tid = f.tid] \in Layers
    BY <1>1 DEF Layers
  <2>3. \/ Switched(l, f) = l \/ Switched(l, f) = [l EXCEPT !.tid = l.wanted]
        \/ f.tid <= l.wanted /\ Switched(l, f) = [l EXCEPT !.tid = f.tid]
    <3> HIDE DEF f
    <3>1. \/ ~f.start \/ l.tid = l.wanted
          \/ f.start /\ l.tid # l.wanted /\ (f.keyframe \/ l.wanted < l.tid)
          \/ f.start /\ l.tid < l.wanted /\ ~f.keyframe
      BY DEF Layers
    <3> QED BY <3>1 DEF Switched
  <2> QED BY <2>1, <2>2, <2>3
<1> QED BY <1>2, <1>3, <1>4

\* What the writer is given.
Requests == [seqno : Seqno, index : Nat]

\* The inductive form of TypeOK.
TypeInv ==
    /\ cache \in Rings /\ Capacity(cache) \in Capacities
    /\ queue \in Seq(Requests) /\ Len(queue) <= QueueSize
    /\ drop \in 0..7
    /\ joined \in BOOLEAN /\ adding \in {"nothing", "last", "keyframe"}
    /\ sequence \in [active : BOOLEAN, at : Seqno, last : Seqno]
    /\ hand \in [Threads -> Packets \cup {NoPacket}]
    /\ layer \in Layers
    /\ map \in Maps
    /\ nacks \subseteq Seqno /\ nackWriters \in Nat
    /\ received \subseteq Packets /\ dropped \subseteq Packets
    /\ delivered \subseteq Seqno \X Packets
    /\ stored \in Seq(Packets)

(* The types, at the beginning ... *)
LEMMA InitTyped == Init => TypeInv
<1> SUFFICES ASSUME Init PROVE TypeInv OBVIOUS
<1>1. cache \in Rings /\ Capacity(cache) \in Capacities
  <2>1. MinCapacity \in Nat /\ MinCapacity > 0 /\ MinCapacity \in Capacities
    BY Constants
  <2>2. cache = New(MinCapacity) BY DEF Init
  <2> QED BY <2>1, <2>2, NewTyped
<1>2. queue \in Seq(Requests) /\ Len(queue) <= QueueSize /\ stored \in Seq(Packets)
  <2>1. queue = <<>> /\ stored = <<>> BY DEF Init
  <2>2. QueueSize \in Nat BY ForwardingAssumption
  <2> QED BY <2>1, <2>2
<1>3. sequence \in [active : BOOLEAN, at : Seqno, last : Seqno]
  BY SeqnoInt DEF Init, NoSequence
<1>4. layer \in Layers BY Constants DEF Init, Layers
<1>5. map \in Maps BY NewMapTyped DEF Init
<1>6a. drop \in 0..7
  <2>1. drop = 0 BY DEF Init
  <2> QED BY <2>1
<1>6b. joined \in BOOLEAN /\ adding \in {"nothing", "last", "keyframe"}
  <2>1. joined = FALSE /\ adding = "nothing" BY DEF Init
  <2> QED BY <2>1
<1>7. hand \in [Threads -> Packets \cup {NoPacket}] BY DEF Init
<1>8. /\ nacks = {} /\ nackWriters = 0 /\ received = {} /\ dropped = {}
      /\ delivered = {}
  BY DEF Init
<1> QED BY <1>1, <1>2, <1>3, <1>4, <1>5, <1>6a, <1>6b, <1>7, <1>8 DEF TypeInv

(* ... when a goroutine takes a packet ... *)
LEMMA TakeTyped ==
    ASSUME TypeInv, NEW t \in Threads, NEW p \in Packets \cup {NoPacket}, Take(t, p)
    PROVE  /\ hand' \in [Threads -> Packets \cup {NoPacket}]
           /\ layer' \in Layers /\ map' \in Maps /\ dropped' \subseteq Packets
           /\ delivered' = delivered
<1>1. CASE p = NoPacket BY <1>1 DEF Take, TypeInv
<1>2. CASE p # NoPacket
  <2>1. p \in Packets /\ CheckLayer(t, p) /\ delivered' = delivered
    BY <1>2 DEF Take
  <2>2. PICK l \in Adjusted(layer) :
            layer' \in {Switched(m, Flags(p)) : m \in Seen(l, Flags(p))}
    BY <2>1 DEF CheckLayer
  <2>3. l \in Layers BY <2>1, <2>2, LayerTyped DEF TypeInv
  <2>4. layer' \in Layers BY <2>1, <2>2, <2>3, LayerTyped
  <2>5. \/ map' = Dropped(map, Number(p)) /\ dropped' = dropped \cup {p} /\ hand' = hand
        \/ Hold(t, p) /\ map' = map /\ dropped' = dropped
    BY <2>1 DEF CheckLayer
  <2>6. Dropped(map, Number(p)) \in Maps
    BY <2>1, Constants, DroppedTyped DEF TypeInv
  <2> QED BY <2>1, <2>4, <2>5, <2>6 DEF TypeInv, Hold
<1> QED BY <1>1, <1>2

(* ... when the queue takes one ... *)
LEMMA EnqueueTyped ==
    ASSUME TypeInv, NEW p \in Packets, NEW i \in Nat, Enqueue(p, i)
    PROVE  queue' \in Seq(Requests) /\ Len(queue') <= QueueSize /\ drop' \in 0..7
<1>1. [seqno |-> Number(p), index |-> i] \in Requests BY Constants DEF Requests
<1>2. QueueSize \in Nat BY ForwardingAssumption
<1>3. queue \in Seq(Requests) /\ Len(queue) <= QueueSize /\ drop \in 0..7
  BY DEF TypeInv
<1> DEFINE longer == Append(queue, [seqno |-> Number(p), index |-> i])
<1>4. Len(queue) < QueueSize => longer \in Seq(Requests) /\ Len(longer) <= QueueSize
  BY <1>1, <1>2, <1>3
<1>5. \/ queue' = queue
      \/ Len(queue) < QueueSize /\ queue' = longer
  <2>1. CASE ~joined BY <2>1 DEF Enqueue
  <2>2. CASE joined /\ drop > 0 BY <2>2 DEF Enqueue
  <2>3. CASE joined /\ ~(drop > 0) BY <2>3 DEF Enqueue
  <2> QED BY <2>1, <2>2, <2>3
<1>6. \/ drop' \in {drop, 0, 7}
      \/ drop > 0 /\ drop' = drop - 1
  <2>1. CASE ~joined BY <2>1 DEF Enqueue
  <2>2. CASE joined /\ drop > 0 BY <2>2 DEF Enqueue
  <2>3. CASE joined /\ ~(drop > 0) BY <2>3 DEF Enqueue
  <2> QED BY <2>1, <2>2, <2>3
<1> HIDE DEF longer
<1>7. drop' \in 0..7 BY <1>3, <1>6
<1> QED BY <1>3, <1>4, <1>5, <1>7

(* ... and after every step. *)
LEMMA StepTyped == TypeInv /\ [Next]_vars => TypeInv'
<1> SUFFICES ASSUME TypeInv, [Next]_vars PROVE TypeInv' OBVIOUS
<1> USE DEF readerVars, trackVars, nackVars
<1>0. cache \in Rings /\ cache.bitmap \in Bitmap /\ cache.tail \in Nat
  BY DEF TypeInv, Rings
<1>1. ASSUME NEW p \in Packets, Read(p) PROVE TypeInv'
  <2> DEFINE c == After(p)
  <2>1. c \in Rings /\ Capacity(c) = Capacity(cache) /\ c.bitmap \in Bitmap
    <3>1. Number(p) \in Seqno /\ Flags(p).keyframe \in BOOLEAN BY Constants
    <3>2. c \in Rings /\ Capacity(c) = Capacity(cache)
      BY <1>0, <3>1, Stored DEF After
    <3> HIDE DEF c
    <3> QED BY <3>2 DEF Rings
  <2> HIDE DEF c
  <2>2. AfterNack(c.bitmap, Limit(p)) \in Bitmap
    <3>1. Limit(p) \in Seqno
      <4>1. Number(p) \in Int /\ Unnacked \in Int BY Constants
      <4> QED BY <4>1, Numbers DEF Limit
    <3> QED BY <2>1, <3>1, NackCountTyped, Shifted DEF AfterNack
  <2>3. [c EXCEPT !.bitmap = AfterNack(@, Limit(p))] \in Rings
    BY <2>1, <2>2 DEF Rings
  <2>4. Capacity([c EXCEPT !.bitmap = AfterNack(@, Limit(p))]) = Capacity(c)
    BY <2>1 DEF Capacity, Rings
  <2>5. cache' \in Rings /\ Capacity(cache') = Capacity(cache)
    BY <1>1, <2>1, <2>3, <2>4 DEF Read, c
  <2>6. queue' \in Seq(Requests) /\ Len(queue') <= QueueSize /\ drop' \in 0..7
    BY <1>0, <1>1, EnqueueTyped DEF Read
  <2>7. stored' \in Seq(Packets)
    <3>1. stored \in Seq(Packets) BY DEF TypeInv
    <3> DEFINE all == Append(stored, p)
    <3>2. all \in Seq(Packets) /\ Len(all) = Len(stored) + 1 /\ Len(stored) \in Nat
      BY <3>1
    <3>3. Tail(all) \in Seq(Packets)
      <4> HIDE DEF all
      <4> QED BY <3>2
    <3> QED BY <1>1, <3>2, <3>3 DEF Read
  <2> QED BY <1>1, <2>5, <2>6, <2>7 DEF Read, TypeInv
<1>2. CASE UpdateUpTrack
  <2>1. PICK n \in Capacities : cache' = ResizeCond(cache, n)
    BY <1>2 DEF UpdateUpTrack
  <2>2. n \in Nat /\ n > 0 BY Constants
  <2>3. cache' \in Rings /\ Capacity(cache') \in {n, Capacity(cache)}
    BY <1>0, <2>1, <2>2, Resized
  <2> QED BY <1>2, <2>3 DEF UpdateUpTrack, TypeInv
<1>3. CASE AddTrack BY <1>3 DEF AddTrack, TypeInv
<1>3a. CASE FindLast
  <2>1. sequence' \in [active : BOOLEAN, at : Seqno, last : Seqno]
    <3>1. cache.last \in Position BY <1>0 DEF Rings
    <3>2. NoSequence \in [active : BOOLEAN, at : Seqno, last : Seqno]
      BY SeqnoInt DEF NoSequence
    <3> QED BY <1>3a, <3>1, <3>2 DEF FindLast, Position
  <2>2. adding' \in {"keyframe", "nothing"} BY <1>3a DEF FindLast
  <2> QED BY <1>3a, <2>1, <2>2 DEF FindLast, TypeInv
<1>3b. CASE StartSequence
  <2>1. sequence' \in [active : BOOLEAN, at : Seqno, last : Seqno]
    <3>1. cache.keyframe \in Position BY <1>0 DEF Rings
    <3>2. NoSequence \in [active : BOOLEAN, at : Seqno, last : Seqno]
      BY SeqnoInt DEF NoSequence
    <3>3. sequence.last \in Seqno BY DEF TypeInv
    <3> QED BY <1>3b, <3>1, <3>2, <3>3 DEF StartSequence, Position
  <2> QED BY <1>3b, <2>1 DEF StartSequence, TypeInv
<1>4. CASE WriterTakes
  <2>1. queue # <<>> /\ queue \in Seq(Requests) /\ Len(queue) <= QueueSize
    BY <1>4 DEF WriterTakes, TypeInv
  <2>2. Head(queue) \in Requests /\ Tail(queue) \in Seq(Requests)
        /\ Len(Tail(queue)) <= QueueSize
    <3>1. QueueSize \in Nat BY ForwardingAssumption
    <3> QED BY <2>1, <3>1
  <2>3. GetAt(cache, Head(queue).seqno, Head(queue).index) \in Packets \cup {NoPacket}
    BY <1>0, <2>2, FoundAt DEF Requests
  <2>4. Take("writer", GetAt(cache, Head(queue).seqno, Head(queue).index))
    BY <1>4 DEF WriterTakes
  <2>5. "writer" \in Threads BY DEF Threads
  <2> QED BY <1>4, <2>2, <2>3, <2>4, <2>5, TakeTyped DEF WriterTakes, TypeInv
<1>5. CASE SequenceTakes
  <2>1. Get(cache, sequence.at) \in Packets \cup {NoPacket} BY <1>0, Found
  <2>2. Take("sequence", Get(cache, sequence.at)) BY <1>5 DEF SequenceTakes
  <2>3. "sequence" \in Threads BY DEF Threads
  <2>4. sequence' \in [active : BOOLEAN, at : Seqno, last : Seqno]
    <3>1. sequence \in [active : BOOLEAN, at : Seqno, last : Seqno]
      BY DEF TypeInv
    <3>2. Plus(sequence.at, 1) \in Seqno BY <3>1, SeqnoInt, Numbers
    <3>3. NoSequence \in [active : BOOLEAN, at : Seqno, last : Seqno]
      BY SeqnoInt DEF NoSequence
    <3>4. sequence' \in {NoSequence, [sequence EXCEPT !.at = Plus(@, 1)]}
      BY <1>5 DEF SequenceTakes
    <3> QED BY <3>1, <3>2, <3>3, <3>4
  <2> QED BY <1>5, <2>1, <2>2, <2>3, <2>4, TakeTyped DEF SequenceTakes, TypeInv
<1>6. ASSUME NEW t \in Known, GotNACK(t) PROVE TypeInv'
  <2>1. t \in Seqno
    <3>1. PICK d \in delivered, k \in 0..Reorder : t = Minus(d[1], k)
      BY DEF Known
    <3>2. d[1] \in Int /\ k \in Int BY SeqnoInt, Constants DEF TypeInv
    <3> QED BY <3>1, <3>2, Numbers
  <2> DEFINE r == Reverse(map, t)
  <2>2. r.seqno \in Seqno BY <2>1, MapTyped DEF TypeInv
  <2>3. Get(cache, r.seqno) \in Packets \cup {NoPacket} BY <1>0, Found
  <2>4. Take("nack", Get(cache, r.seqno)) BY <1>6 DEF GotNACK
  <2>5. "nack" \in Threads BY DEF Threads
  <2>6. /\ nacks' \in {nacks, nacks \cup {r.seqno}}
        /\ nackWriters' \in {nackWriters, nackWriters + 1}
    BY <1>6 DEF GotNACK, BufferNack
  <2>7. UNCHANGED <<cache, queue, drop, received, stored, joined, adding, sequence>>
    BY <1>6 DEF GotNACK
  <2> HIDE DEF r
  <2> QED BY <2>2, <2>3, <2>4, <2>5, <2>6, <2>7, TakeTyped DEF TypeInv, r
<1>7. CASE NackWriter
  BY <1>7 DEF NackWriter, TypeInv
<1>8. ASSUME NEW t \in Threads, Write(t) PROVE TypeInv'
  <2> DEFINE p == hand[t]
             r == Map(map, Number(p))
  <2>1. p \in Packets /\ Number(p) \in Seqno
    BY <1>8, Constants DEF Write, TypeInv
  <2>2. r.seqno \in Seqno BY <2>1, MapTyped DEF TypeInv
  <2>3. Mapped(map, Number(p)) \in Maps BY <2>1, MappedTyped DEF TypeInv
  <2>4. /\ map' = Mapped(map, Number(p))
        /\ delivered' \in {delivered, delivered \cup {<<r.seqno, p>>}}
        /\ hand' = [hand EXCEPT ![t] = NoPacket]
        /\ UNCHANGED <<cache, queue, drop, received, stored, joined, adding,
                       sequence, layer, dropped, nacks, nackWriters>>
    BY <1>8 DEF Write, Hold
  <2> HIDE DEF r, p
  <2>5. delivered' \subseteq Seqno \X Packets
    <3>1. <<r.seqno, p>> \in Seqno \X Packets BY <2>1, <2>2
    <3> QED BY <2>4, <3>1 DEF TypeInv
  <2> QED BY <2>3, <2>4, <2>5 DEF TypeInv
<1>9. CASE UNCHANGED vars
  BY <1>9 DEF vars, TypeInv
<1> QED
  BY <1>1, <1>2, <1>3, <1>3a, <1>3b, <1>4, <1>5, <1>6, <1>7, <1>8, <1>9 DEF Next

(* The type invariant, in its inductive form. *)
LEMMA Typed == Spec => []TypeInv
<1> QED BY InitTyped, StepTyped, PTL DEF Spec

(* It is as strong as the one that is checked. *)
LEMMA TypeInvImplies == TypeInv => TypeOK
<1> SUFFICES ASSUME TypeInv PROVE TypeOK OBVIOUS
<1>1. /\ cache.last \in Position /\ cache.keyframe \in Position
      /\ cache.bitmap \in Bitmap
  BY DEF TypeInv, Rings
<1>2. /\ cache.tail \in 0..(Capacity(cache) - 1)
      /\ \A i \in DOMAIN cache.entries : cache.entries[i] \in Entry
  <2>1. cache \in Rings BY DEF TypeInv
  <2>2. cache.entries \in Seq(Entry) BY <2>1, RingFacts
  <2>3. \A i \in DOMAIN cache.entries : cache.entries[i] \in Entry BY <2>2
  <2> QED BY <2>1, <2>3, RingFacts
<1>3. \A i \in DOMAIN queue : queue[i].seqno \in Seqno
  <2>1. queue \in Seq(Requests) BY DEF TypeInv
  <2>2. \A i \in DOMAIN queue : queue[i] \in Requests BY <2>1
  <2> QED BY <2>2 DEF Requests
<1>4. IsMap(map)
  <2>1. map \in Maps BY DEF TypeInv
  <2>2. map.entries \in Seq(Interval) BY <2>1 DEF Maps
  <2>3. \A i \in DOMAIN map.entries : map.entries[i] \in Interval BY <2>2
  <2> QED BY <2>1, <2>3 DEF Maps, IsMap
<1> QED BY <1>1, <1>2, <1>3, <1>4 DEF TypeOK, TypeInv

(* Everything that rtpreader.go, rtpwriter.go and rtpDownTrack.Write keep has
   its type: the ring, the bitmap and the map in particular are never left
   with an index that points outside. *)
THEOREM TypeCorrect == Spec => []TypeOK
BY Typed, TypeInvImplies, PTL

(* As long as packets are to be asked for, a goroutine that asks for them has
   been started and has not come to it: BufferNack looks at what is buffered
   and adds to it at once. *)
THEOREM RequestsScheduled == Spec => []NacksScheduled
<1>1. Init => NacksScheduled BY DEF Init, NacksScheduled
<1>2. TypeInv /\ NacksScheduled /\ [Next]_vars => NacksScheduled'
  <2> SUFFICES ASSUME TypeInv, NacksScheduled, [Next]_vars PROVE NacksScheduled' OBVIOUS
  <2>0. nackWriters \in Nat BY DEF TypeInv
  <2>1. ASSUME NEW t \in Known, GotNACK(t) PROVE NacksScheduled'
    <3>1. \/ UNCHANGED nackVars
          \/ BufferNack(Reverse(map, t).seqno)
      BY <2>1 DEF GotNACK
    <3> QED BY <2>0, <3>1 DEF BufferNack, NacksScheduled, nackVars
  <2>2. CASE NackWriter BY <2>2 DEF NackWriter, NacksScheduled
  <2>3. ASSUME UNCHANGED nackVars PROVE NacksScheduled'
    BY <2>3 DEF NacksScheduled, nackVars
  <2>4. UNCHANGED nackVars \/ NackWriter \/ \E t \in Known : GotNACK(t)
    BY
       DEF Next, vars, Read, UpdateUpTrack, AddTrack, FindLast, StartSequence,
           WriterTakes, SequenceTakes, Write
  <2> QED BY <2>1, <2>2, <2>3, <2>4
<1> QED BY <1>1, <1>2, Typed, PTL DEF Spec

-----------------------------------------------------------------------------
(* What the cache holds. *)

\* The newest entries of the ring are the packets stored last.
Ordered ==
    /\ Len(stored) <= MinCapacity
    /\ \A k \in 1..Len(stored) :
          LET p == stored[Len(stored) - k + 1]
          IN Back(cache, k) = [seqno |-> Number(p), packet |-> p]

\* An entry is as old as its place in the ring allows.
Aged ==
    \A k \in 1..Capacity(cache) :
       LET p == Back(cache, k).packet
       IN p # NoPacket => /\ p \in received /\ Back(cache, k).seqno = Number(p)
                          /\ \A q \in received : q - p < k * (Reorder + 1)

\* The cache is never so large that it holds packets of the same number.
Holdable == \A n \in Capacities : n * (Reorder + 1) <= Mod

(* The packets stored last are found, and not others of the same number. *)
LEMMA CacheRecentHolds ==
    ASSUME Holdable, TypeInv, Ordered, Aged
    PROVE  CacheRecent
<1> SUFFICES ASSUME NEW i \in DOMAIN stored
             PROVE  Get(cache, Number(stored[i])) = stored[i]
  BY DEF CacheRecent
<1> DEFINE p == stored[i]
           k == Len(stored) - i + 1
           n == Capacity(cache)
           g == Get(cache, Number(p))
<1>1. stored \in Seq(Packets) /\ cache \in Rings /\ n \in Capacities
  BY DEF TypeInv
<1>2. p \in Packets /\ k \in 1..Len(stored) /\ Len(stored) - k + 1 = i
  BY <1>1
<1>3. n \in Nat /\ k \in 1..n
  <2>1. n \in Nat /\ MinCapacity \in Nat /\ MinCapacity <= n BY <1>1, Constants
  <2>2. Len(stored) <= MinCapacity /\ Len(stored) \in Nat BY <1>1 DEF Ordered
  <2> HIDE DEF k, n
  <2> QED BY <1>2, <2>1, <2>2
<1>4. Back(cache, k) = [seqno |-> Number(p), packet |-> p] BY <1>2 DEF Ordered
<1> HIDE DEF k, n, p, g
<1>5. p \in Int /\ p # NoPacket BY <1>2, Constants, PacketCacheAssumption
<1>6. Back(cache, k).packet = p /\ Back(cache, k).seqno = Number(p) BY <1>4
<1>7. p \in received /\ \A q \in received : q - p < k * (Reorder + 1)
  BY <1>3, <1>5, <1>6 DEF Aged, n
<1>8. g \in Packets /\ \E j \in 1..n : /\ Back(cache, j).seqno = Number(p)
                                       /\ Back(cache, j).packet = g
  <2>1. g # NoPacket BY <1>1, <1>3, <1>5, <1>6, Found DEF g, n
  <2> QED BY <1>1, <2>1, Found DEF g, n
<1>9. PICK j \in 1..n : Back(cache, j).seqno = Number(p) /\ Back(cache, j).packet = g
  BY <1>8
<1>10. g \in Int /\ g # NoPacket BY <1>8, Constants, PacketCacheAssumption
<1>11. /\ g \in received /\ Number(g) = Number(p)
       /\ \A q \in received : q - g < j * (Reorder + 1)
  BY <1>9, <1>10 DEF Aged, n
<1>12. ASSUME NEW l \in 1..n PROVE l * (Reorder + 1) <= Mod
  <2>1. n * (Reorder + 1) <= Mod /\ Reorder \in Nat /\ Mod \in Int
    BY <1>1, Constants, Modulus DEF Holdable
  <2>2. l * (Reorder + 1) <= n * (Reorder + 1)
    <3> HIDE DEF Mod
    <3>1. n - l \in Nat /\ Reorder + 1 \in Nat /\ l \in Int BY <1>3, <2>1
    <3>2. (n - l) * (Reorder + 1) >= 0 BY <3>1
    <3>3. (n - l) * (Reorder + 1) = n * (Reorder + 1) - l * (Reorder + 1)
      BY <1>3, <3>1
    <3>4. n * (Reorder + 1) \in Int /\ l * (Reorder + 1) \in Int BY <1>3, <3>1
    <3> QED BY <3>2, <3>3, <3>4
  <2>3. n * (Reorder + 1) \in Int /\ l * (Reorder + 1) \in Int BY <1>3, <2>1
  <2> HIDE DEF Mod
  <2> QED BY <2>1, <2>2, <2>3
<1>13. g - p < Mod /\ p - g < Mod
  <2>0. Mod \in Int /\ Reorder \in Nat /\ j \in Int /\ k \in Int
    BY <1>3, Modulus, Constants
  <2>1. j * (Reorder + 1) \in Int /\ k * (Reorder + 1) \in Int BY <2>0
  <2>2. g - p < k * (Reorder + 1) /\ p - g < j * (Reorder + 1) BY <1>7, <1>11
  <2>3. k * (Reorder + 1) <= Mod /\ j * (Reorder + 1) <= Mod BY <1>3, <1>12
  <2> HIDE DEF Mod
  <2> QED BY <1>5, <1>10, <2>0, <2>1, <2>2, <2>3
<1>14. g = p BY <1>5, <1>10, <1>11, <1>13, SameNumber
<1> QED BY <1>14 DEF g, p

(* Storing, asking for packets and resizing keep the order and the ages. *)
LEMMA OrderedStep ==
    ASSUME TypeInv, Ordered, Aged, [Next]_vars
    PROVE  Ordered' /\ Aged'
<1> USE DEF readerVars
<1>0. cache \in Rings /\ Capacity(cache) \in Capacities /\ stored \in Seq(Packets)
      /\ Capacity(cache) \in Nat
  BY Constants DEF TypeInv
<1>1. ASSUME NEW p \in Packets, Read(p) PROVE Ordered' /\ Aged'
  <2> DEFINE c == After(p)
             n == Capacity(cache)
  <2>1. /\ c \in Rings /\ Capacity(c) = n
        /\ Back(c, 1) = [seqno |-> Number(p), packet |-> p]
        /\ \A k \in 1..(n - 1) : Back(c, k + 1) = Back(cache, k)
    <3>1. Number(p) \in Seqno /\ Flags(p).keyframe \in BOOLEAN BY Constants
    <3> QED BY <1>0, <3>1, Stored DEF After
  <2>2. cache'.entries = c.entries /\ cache'.tail = c.tail
    <3>1. cache' \in {c, [c EXCEPT !.bitmap = AfterNack(@, Limit(p))]}
      BY <1>1 DEF Read
    <3> HIDE DEF c
    <3> QED BY <2>1, <3>1 DEF Rings
  <2> HIDE DEF c
  <2>3. Capacity(cache') = n /\ \A k : Back(cache', k) = Back(c, k)
    BY <2>1, <2>2 DEF Capacity, Back, Slot
  <2>4. /\ Capacity(cache)' = n
        /\ \A k : Back(cache, k)' = Back(c, k)
    BY <2>3
  <2> HIDE DEF n
  <2>5. p \in Arriving /\ p \notin received /\ p \in Int /\ p # NoPacket
        /\ received' = received \cup {p}
    BY <1>1, Constants, PacketCacheAssumption DEF Read, Arriving
  <2>6. received \subseteq Packets /\ \A q \in received : q \in Int /\ q > 0
    BY Constants DEF TypeInv
  <2>7. Reorder \in Nat /\ n \in Nat BY <1>0, Constants DEF n
  <2>8. Ordered'
    <3> DEFINE all == Append(stored, p)
               L == Len(stored)
    <3>1. L \in Nat /\ L <= MinCapacity /\ MinCapacity \in Nat /\ MinCapacity <= n
          /\ MinCapacity > 0
      BY <1>0, Constants DEF Ordered, n
    <3>2. /\ Len(all) = L + 1 /\ all[L + 1] = p /\ \A i \in 1..L : all[i] = stored[i]
          /\ all \in Seq(Packets)
      BY <1>0
    <3>3. stored' = IF Len(all) <= MinCapacity THEN all ELSE Tail(all)
      BY <1>1 DEF Read
    <3>4. ASSUME NEW i \in 1..Len(all) PROVE Len(all) > 1 /\ i > 1 => Tail(all)[i - 1] = all[i]
      <4> HIDE DEF all
      <4> QED BY <3>2
    <3>5. Len(all) > 1 => Len(Tail(all)) = L
      <4> HIDE DEF all
      <4> QED BY <3>2
    <3> HIDE DEF all, L
    <3>6. /\ Len(stored') \in Nat /\ Len(stored') <= MinCapacity
          /\ Len(stored') <= L + 1
          /\ \A k \in 1..Len(stored') : stored'[Len(stored') - k + 1] = all[L + 1 - k + 1]
      <4>1. CASE Len(all) <= MinCapacity
        <5>1. stored' = all /\ Len(stored') = L + 1 BY <3>2, <3>3, <4>1
        <5> QED BY <3>1, <3>2, <4>1, <5>1
      <4>2. CASE ~(Len(all) <= MinCapacity)
        <5>1. L = MinCapacity /\ Len(all) > 1 BY <3>1, <3>2, <4>2
        <5>2. stored' = Tail(all) /\ Len(stored') = L BY <3>3, <3>5, <4>2, <5>1
        <5>3. ASSUME NEW k \in 1..L PROVE stored'[L - k + 1] = all[L + 1 - k + 1]
          <6>0. L + 1 - k + 1 \in 1..(L + 1) /\ L + 1 - k + 1 > 1 BY <3>1
          <6>1. PICK i \in 1..Len(all) : i = L + 1 - k + 1 /\ i > 1
            BY <3>2, <6>0
          <6>2. Tail(all)[i - 1] = all[i] BY <3>4, <5>1, <6>1
          <6>3. i - 1 = L - k + 1 BY <3>1, <6>1
          <6> QED BY <5>2, <6>1, <6>2, <6>3
        <5> QED BY <3>1, <5>1, <5>2, <5>3
      <4> QED BY <4>1, <4>2
    <3>7. ASSUME NEW k \in 1..(L + 1), k <= MinCapacity
          PROVE  LET q == all[L + 1 - k + 1]
                 IN Back(c, k) = [seqno |-> Number(q), packet |-> q]
      <4>1. CASE k = 1
        <5>1. all[L + 1 - k + 1] = p BY <3>1, <3>2, <4>1
        <5> QED BY <2>1, <4>1, <5>1
      <4>2. CASE k > 1
        <5>0. k - 1 \in 1..L /\ k - 1 \in 1..(n - 1) BY <2>7, <3>1, <3>7, <4>2
        <5>1. PICK l \in 1..L : l = k - 1 /\ l \in 1..(n - 1) BY <5>0
        <5>2. Back(c, l + 1) = Back(cache, l) /\ l + 1 = k BY <2>1, <3>1, <5>1 
        <5>3. Back(cache, l) = [seqno |-> Number(stored[L - l + 1]),
                                packet |-> stored[L - l + 1]]
          BY <5>1 DEF Ordered, L
        <5>4. L - l + 1 = L + 1 - k + 1 /\ L - l + 1 \in 1..L BY <3>1, <5>1
        <5>5. all[L + 1 - k + 1] = stored[L - l + 1] BY <3>2, <5>4
        <5> QED BY <5>2, <5>3, <5>5
      <4> QED BY <3>1, <4>1, <4>2
    <3>8. ASSUME NEW k \in 1..Len(stored')
          PROVE  Back(cache, k)' = [seqno |-> Number(stored'[Len(stored') - k + 1]),
                                    packet |-> stored'[Len(stored') - k + 1]]
      <4>1. k \in 1..(L + 1) /\ k <= MinCapacity BY <3>1, <3>6
      <4> QED BY <2>4, <3>6, <3>7, <4>1
    <3>9. Len(stored') <= MinCapacity BY <3>6
    <3>10. ASSUME NEW k \in 1..Len(stored)'
           PROVE  (Back(cache, k) = [seqno |-> Number(stored[Len(stored) - k + 1]),
                                     packet |-> stored[Len(stored) - k + 1]])'
      BY <3>8
    <3> QED BY <3>9, <3>10 DEF Ordered
  <2>9. Aged'
    <3>1. ASSUME NEW k \in 1..n, Back(c, k).packet # NoPacket
          PROVE  LET e == Back(c, k).packet
                 IN /\ e \in received' /\ Back(c, k).seqno = Number(e)
                    /\ \A q \in received' : q - e < k * (Reorder + 1)
      <4>1. CASE k = 1
        <5>1. Back(c, k).packet = p /\ Back(c, k).seqno = Number(p)
          BY <2>1, <4>1
        <5>2. \A q \in received : q - p <= Reorder BY <2>5 DEF Arriving
        <5>3. \A q \in received' : q - p < 1 * (Reorder + 1)
          BY <2>5, <2>6, <2>7, <5>2
        <5> QED BY <2>5, <4>1, <5>1, <5>3
      <4>2. CASE k > 1
        <5>1. PICK l \in 1..(n - 1) : l = k - 1 /\ l + 1 = k /\ l \in 1..n /\ l \in Int
          BY <2>7, <4>2
        <5>2. Back(c, k) = Back(cache, l) BY <2>1, <5>1
        <5> DEFINE e == Back(cache, l).packet
        <5>3. /\ e \in received /\ Back(cache, l).seqno = Number(e)
              /\ \A q \in received : q - e < l * (Reorder + 1)
          BY <3>1, <5>1, <5>2 DEF Aged, n
        <5> HIDE DEF e
        <5>4. k * (Reorder + 1) = l * (Reorder + 1) + (Reorder + 1)
              /\ l * (Reorder + 1) \in Int /\ e \in Int /\ e > 0
          BY <2>6, <2>7, <5>1, <5>3
        <5>5. PICK q0 \in received \cup {0} : p - q0 <= 1 + Reorder
          BY <2>5 DEF Arriving
        <5>6. p - e < k * (Reorder + 1)
          <6>1. CASE q0 \in received
            <7>1. q0 - e < l * (Reorder + 1) /\ q0 \in Int BY <2>6, <5>3, <6>1
            <7> QED BY <2>5, <2>7, <5>4, <5>5, <7>1
          <6>2. CASE q0 = 0
            <7>1. l * (Reorder + 1) >= 0 BY <2>7, <5>1
            <7> QED BY <2>5, <2>7, <5>4, <5>5, <6>2, <7>1
          <6> QED BY <6>1, <6>2
        <5>7. \A q \in received : q - e < k * (Reorder + 1)
          BY <2>6, <2>7, <5>3, <5>4
        <5> QED BY <2>5, <5>2, <5>3, <5>6, <5>7 DEF e
      <4> QED BY <2>7, <4>1, <4>2
    <3>2. Reorder' = Reorder OBVIOUS
    <3> QED BY <2>4, <3>1 DEF Aged
  <2> QED BY <2>8, <2>9
<1>2. CASE UpdateUpTrack
  <2>1. PICK m \in Capacities : cache' = ResizeCond(cache, m)
    BY <1>2 DEF UpdateUpTrack
  <2>2. m \in Nat /\ m > 0 BY Constants
  <2> DEFINE n == Capacity(cache)
             d == ResizeCond(cache, m)
  <2>3. /\ d \in Rings /\ Capacity(d) \in {m, n}
        /\ \A k \in 1..Capacity(d) :
              Back(d, k) = IF k <= n THEN Back(cache, k) ELSE Empty
    BY <1>0, <2>2, Resized
  <2> HIDE DEF d, n
  <2>4. Capacity(cache)' = Capacity(d) /\ \A k : Back(cache, k)' = Back(d, k)
    BY <2>1 DEF d
  <2>5. received' = received /\ stored' = stored BY <1>2 DEF UpdateUpTrack
  <2>6. /\ Capacity(d) \in Nat /\ MinCapacity <= Capacity(d) /\ MinCapacity <= n
        /\ n \in Nat /\ MinCapacity \in Nat
    BY <1>0, <2>1, <2>3, Constants DEF n
  <2>7. Ordered'
    <3>1. Len(stored) \in Nat /\ Len(stored) <= MinCapacity BY <1>0 DEF Ordered
    <3>2. ASSUME NEW k \in 1..Len(stored) PROVE Back(d, k) = Back(cache, k)
      <4>1. k \in 1..Capacity(d) /\ k <= n BY <2>6, <3>1
      <4> QED BY <2>3, <4>1
    <3> QED BY <2>4, <2>5, <3>2 DEF Ordered
  <2>8. Aged'
    <3>1. ASSUME NEW k \in 1..Capacity(d), Back(d, k).packet # NoPacket
          PROVE  k \in 1..n /\ Back(d, k) = Back(cache, k)
      <4>1. Empty.packet = NoPacket BY DEF Empty
      <4>2. k <= n BY <2>3, <3>1, <4>1
      <4> QED BY <2>3, <2>6, <4>2
    <3> QED BY <2>4, <2>5, <3>1 DEF Aged, n
  <2> QED BY <2>7, <2>8
<1>3. ASSUME UNCHANGED <<cache, received, stored>> PROVE Ordered' /\ Aged'
  BY <1>3 DEF Ordered, Aged
<1>4. \/ \E p \in Packets : Read(p)
      \/ UpdateUpTrack
      \/ UNCHANGED <<cache, received, stored>>
  BY
     DEF Next, vars, AddTrack, FindLast, StartSequence, WriterTakes,
         SequenceTakes, GotNACK, NackWriter, Write
<1> QED BY <1>1, <1>2, <1>3, <1>4

(* At the beginning and after every step. *)
LEMMA OrderedAlways == Spec => [](TypeInv /\ Ordered /\ Aged)
<1>1. Init => Ordered /\ Aged
  <2> SUFFICES ASSUME Init PROVE Ordered /\ Aged OBVIOUS
  <2>1. MinCapacity \in Nat /\ MinCapacity > 0 BY Constants
  <2>2. cache = New(MinCapacity) /\ stored = <<>> BY DEF Init
  <2>3. Capacity(cache) = MinCapacity /\ \A k \in 1..MinCapacity : Back(cache, k) = Empty
    BY <2>1, <2>2, NewTyped
  <2>4. Ordered BY <2>1, <2>2 DEF Ordered
  <2>5. Empty.packet = NoPacket BY DEF Empty
  <2> QED BY <2>3, <2>4, <2>5 DEF Aged
<1>2. TypeInv /\ Ordered /\ Aged /\ [Next]_vars => Ordered' /\ Aged'
  BY OrderedStep
<1> QED BY <1>1, <1>2, Typed, PTL DEF Spec

(* However the cache is resized while it is used, it holds the packets that
   were stored last, and finds them by their numbers, if it is never so large
   that the numbers of the packets in it come round. *)
THEOREM RecentCached == Holdable => (Spec => []CacheRecent)
<1> SUFFICES ASSUME Holdable PROVE Spec => []CacheRecent OBVIOUS
<1>1. TypeInv /\ Ordered /\ Aged => CacheRecent BY CacheRecentHolds
<1> HIDE DEF Holdable
<1> QED BY <1>1, OrderedAlways, PTL

-----------------------------------------------------------------------------
(* What the bitmap records. *)

\* What the bitmap knows of the packets that have come, from the packet f on.
Records(b, f, S) ==
    /\ b.valid /\ b.first = Number(f)
    /\ \A i \in Int : i \in b.bits <=> i >= 0 /\ f + i \in S
    /\ \E q \in S : f <= q + 1

Recorded == IF received = {} THEN ~cache.bitmap.valid
            ELSE \E f \in Int : Records(cache.bitmap, f, received)

\* A late packet is not taken for one of a new stream, and the numbers do not
\* come round within the bitmap.
Timely == Reorder < TooOld /\ BitmapSize + Reorder + Unnacked < 4 * Window

(* The proportions, in terms of half a turn. *)
LEMMA TimelyFacts ==
    ASSUME Timely
    PROVE  /\ Mod \in Nat /\ Mod > 0 /\ Mod \div 2 \in Nat /\ Mod = 2 * (Mod \div 2)
           /\ BitmapSize + Reorder + Unnacked < Mod \div 2
           /\ Reorder < TooOld
           /\ BitmapSize \in Nat /\ BitmapSize > 0 /\ Reorder \in Nat /\ Unnacked \in Nat
           /\ TooOld \in Nat
  BY Modulus, Constants, BitmapFacts, PacketCacheAssumption DEF Timely

(* All packets that have come are before the end of the bitmap. *)
LEMMA RecordsFacts ==
    ASSUME NEW b \in Bitmap, NEW f \in Int, NEW S \in SUBSET Int, Records(b, f, S)
    PROVE  \A q \in S : q <= f + BitmapSize - 1
<1>1. BitmapSize \in Nat /\ BitmapSize > 0 /\ b.bits \subseteq 0..(BitmapSize - 1)
  BY BitmapFacts
<1>2. ASSUME NEW q \in S PROVE q <= f + BitmapSize - 1
  <2>1. CASE q < f BY <1>1, <2>1
  <2>2. CASE q >= f
    <3>1. q - f \in Int /\ q - f >= 0 /\ f + (q - f) = q BY <2>2
    <3>2. q - f \in b.bits BY <3>1 DEF Records
    <3> QED BY <1>1, <3>2
  <2> QED BY <2>1, <2>2
<1> QED BY <1>2

(* The first packet begins the bitmap. *)
LEMMA FirstRecorded ==
    ASSUME NEW b \in Bitmap, ~b.valid, NEW p \in Int
    PROVE  Records(SetBit(b, Number(p)), p, {p})
<1>1. SetBit(b, Number(p)) = [valid |-> TRUE, first |-> Number(p), bits |-> {0}]
  BY DEF SetBit
<1>2. \A i \in Int : i \in {0} <=> i >= 0 /\ p + i \in {p} OBVIOUS
<1> QED BY <1>1, <1>2 DEF Records

(* bitmap.set records a packet, early or late, and forgets none. *)
LEMMA PacketRecorded ==
    ASSUME Timely, NEW b \in Bitmap, NEW f \in Int, NEW S \in SUBSET Int,
           Records(b, f, S), NEW p \in Int, p \notin S,
           \A q \in S : q - p <= Reorder, \E q \in S : p - q <= 1 + Reorder
    PROVE  \E g \in Int : Records(SetBit(b, Number(p)), g, S \cup {p})
<1> DEFINE s == Number(p)
           h == Mod \div 2
           b2 == Slide(b, s)
           d == Minus(s, b.first)
<1>0. /\ Mod \in Nat /\ h \in Nat /\ Mod = 2 * h /\ h > 0
      /\ BitmapSize + Reorder + Unnacked < h /\ Reorder < TooOld
      /\ BitmapSize \in Nat /\ BitmapSize > 0 /\ Reorder \in Nat /\ Unnacked \in Nat
      /\ TooOld \in Nat
  BY TimelyFacts
<1>1. b.valid /\ b.first = Number(f) BY DEF Records
<1>2. f - p <= Reorder + 1 /\ p - f <= BitmapSize + Reorder
  <2>1. PICK q \in S : f <= q + 1 BY DEF Records
  <2>2. PICK r \in S : p - r <= 1 + Reorder OBVIOUS
  <2>3. q - p <= Reorder /\ r <= f + BitmapSize - 1 BY RecordsFacts
  <2> QED BY <1>0, <2>1, <2>2, <2>3
<1>3. s \in Seqno BY NumberPlus
<1>3a. p - f < h /\ f - p <= h
  <2> HIDE DEF h
  <2> QED BY <1>0, <1>2
<1>4. AtOrAfter(b.first, s) <=> f >= p BY <1>1, <1>3a, InOrder
<1>5. CASE p < f
  <2>0. f - p \in 0..(Mod - 1)
    <3> HIDE DEF Mod, h
    <3> QED BY <1>0, <1>2, <1>5
  <2>1. Minus(b.first, s) = f - p BY <1>1, <2>0, NumberMinus
  <2>2. ~Invalid(s, b.first) BY <1>0, <1>2, <2>1 DEF Invalid
  <2>3. b.first # s
    <3>1. f - p < Mod /\ p - f < Mod /\ f # p
      <4> HIDE DEF Mod, h
      <4> QED BY <1>0, <1>2, <1>5
    <3> QED BY <1>1, <3>1, SameNumber
  <2>4. SetBit(b, s) = b BY <1>1, <1>4, <1>5, <2>2, <2>3 DEF SetBit
  <2>5. ASSUME NEW i \in Int PROVE i \in b.bits <=> i >= 0 /\ f + i \in S \cup {p}
    <3>1. i \in b.bits <=> i >= 0 /\ f + i \in S BY DEF Records
    <3>2. i >= 0 => f + i # p BY <1>5
    <3> QED BY <3>1, <3>2
  <2>6. Records(b, f, S \cup {p}) BY <2>5 DEF Records
  <2> QED BY <2>4, <2>6
<1>6. CASE p >= f
  <2>0. p - f \in 0..(Mod - 1)
    <3> HIDE DEF Mod, h
    <3> QED BY <1>0, <1>2, <1>6
  <2>1. d = p - f BY <1>1, <2>0, NumberMinus
  <2>2. ~Invalid(s, b.first)
    <3>1. CASE p = f
      <4>1. f - f \in 0..(Mod - 1) /\ f - f = 0
        <5> HIDE DEF Mod, h
        <5> QED BY <1>0
      <4>2. Minus(Number(f), Number(f)) = 0 BY <4>1, NumberMinus
      <4> QED BY <1>0, <1>1, <3>1, <4>2 DEF Invalid
    <3>2. CASE p > f BY <1>4, <3>2 DEF Invalid
    <3> QED BY <1>6, <3>1, <3>2
  <2>3. ~(b.first # s /\ AtOrAfter(b.first, s))
    <3>1. CASE p = f BY <1>1, <3>1
    <3>2. CASE p > f BY <1>4, <3>2
    <3> QED BY <1>6, <3>1, <3>2
  <2> DEFINE new == {Minus(s, b2.first)} \cap 0..(BitmapSize - 1)
  <2>4. SetBit(b, s) = [b2 EXCEPT !.bits = @ \cup new]
    BY <1>1, <2>2, <2>3 DEF SetBit
  <2>5. PICK n \in Nat, k \in Nat :
            /\ n = IF d >= BitmapSize THEN d - (BitmapSize - 1) ELSE 0
            /\ b2 \in Bitmap /\ b2.valid = b.valid
            /\ b2.first = Plus(Plus(b.first, n), k)
            /\ \A i \in n..(n + k - 1) : i \in b.bits
            /\ \A i \in Int : i \in b2.bits <=> i >= 0 /\ i + n + k \in b.bits
    BY <1>3, Slid
  <2> DEFINE g == f + n + k
  <2> HIDE DEF d, b2
  <2>6. g \in Int /\ b2.first = Number(g)
    <3>1. Plus(Number(f), n) = Number(f + n) BY NumberPlus
    <3>2. Plus(Number(f + n), k) = Number((f + n) + k) BY NumberPlus
    <3> QED BY <1>1, <2>5, <3>1, <3>2
  <2>7. d \notin b.bits
    <3>1. d \in Int /\ f + d = p BY <2>1
    <3> QED BY <3>1 DEF Records
  <2>8. d - n \in 0..(BitmapSize - 1)
    <3> HIDE DEF h
    <3> QED BY <1>0, <1>6, <2>1, <2>5
  <2>9. d >= n + k
    <3>1. d \in Int BY <2>1
    <3>2. d \notin n..(n + k - 1) BY <2>5, <2>7
    <3> QED BY <2>5, <2>8, <3>1, <3>2
  <2>10. p - g \in 0..(BitmapSize - 1) /\ p - g \in 0..(Mod - 1)
    <3> HIDE DEF Mod, h
    <3> QED BY <1>0, <2>1, <2>5, <2>8, <2>9
  <2>11. Minus(s, b2.first) = p - g BY <2>6, <2>10, NumberMinus
  <2>12. new = {p - g} BY <2>10, <2>11
  <2> HIDE DEF new, g
  <2>13. ASSUME NEW i \in Int
         PROVE  i \in b2.bits \cup new <=> i >= 0 /\ g + i \in S \cup {p}
    <3>1. i \in b2.bits <=> i >= 0 /\ i + n + k \in b.bits BY <2>5
    <3>2. i + n + k \in b.bits <=> i + n + k >= 0 /\ f + (i + n + k) \in S
      BY DEF Records
    <3>3. f + (i + n + k) = g + i /\ (i >= 0 => i + n + k >= 0) BY DEF g
    <3>4. i \in new <=> g + i = p BY <2>6, <2>12
    <3>5. g + i = p => i >= 0 BY <2>6, <2>10
    <3> QED BY <3>1, <3>2, <3>3, <3>4, <3>5
  <2>14. g <= p + 1 BY <2>6, <2>10
  <2>15. /\ SetBit(b, s).valid /\ SetBit(b, s).first = b2.first
         /\ SetBit(b, s).bits = b2.bits \cup new
    BY <1>1, <2>4, <2>5 DEF Bitmap
  <2>16. Records(SetBit(b, s), g, S \cup {p})
    BY <2>6, <2>13, <2>14, <2>15 DEF Records
  <2> QED BY <2>6, <2>16
<1> QED BY <1>5, <1>6

(* The packets asked for have not come, and are then left out. *)
LEMMA NackedMissing ==
    ASSUME Timely, NEW b \in Bitmap, NEW f \in Int, NEW S \in SUBSET Int,
           Records(b, f, S), NEW p \in S, \A q \in S : q - p <= Reorder
    PROVE  LET limit == Minus(Number(p), Unnacked)
           IN /\ \E g \in Int : Records(AfterNack(b, limit), g, S)
              /\ \A q \in S : p - q < Mod \div 2 => Number(q) \notin Nacked(b, limit)
<1> DEFINE limit == Minus(Number(p), Unnacked)
           h == Mod \div 2
           n == NackCount(b, limit)
<1>0. /\ Mod \in Nat /\ h \in Nat /\ Mod = 2 * h /\ h > 0
      /\ BitmapSize + Reorder + Unnacked < h
      /\ BitmapSize \in Nat /\ BitmapSize > 0 /\ Reorder \in Nat /\ Unnacked \in Nat
  BY TimelyFacts
<1>1. b.valid /\ b.first = Number(f) /\ p \in Int BY DEF Records
<1>2. limit = Number(p - Unnacked) /\ p - Unnacked \in Int /\ limit \in Seqno
  <2>1. p - Unnacked \in Int /\ Unnacked \in Int BY <1>0, <1>1
  <2> QED BY <1>1, <2>1, NumberMinus, NumberPlus
<1>3. \A q \in S : q <= f + BitmapSize - 1 BY RecordsFacts
<1>4. f - p <= Reorder + 1
  <2>1. PICK q \in S : f <= q + 1 BY DEF Records
  <2>2. q - p <= Reorder OBVIOUS
  <2> QED BY <1>0, <1>1, <2>1, <2>2
<1> HIDE DEF limit
<1>5. n \in Nat /\ (n > 0 => f + n <= p - Unnacked)
  <2>1. /\ n \in Nat
        /\ n > 0 => ~AtOrAfter(b.first, limit) /\ n <= Minus(limit, b.first)
    BY <1>2, NackCountTyped
  <2> HIDE DEF n
  <2>2. ASSUME n > 0 PROVE f + n <= p - Unnacked
    <3> DEFINE e == p - Unnacked
    <3>0. e \in Int /\ p \in Int BY <1>1, <1>2
    <3>0a. e - f < h /\ f - e <= h
      <4>1. p <= f + BitmapSize - 1 BY <1>3
      <4> HIDE DEF h
      <4> QED BY <1>0, <1>1, <1>4, <4>1
    <3>1. AtOrAfter(b.first, limit) <=> f >= e
      <4> HIDE DEF e, h
      <4> QED BY <1>1, <1>2, <3>0, <3>0a, InOrder DEF e, h
    <3>2. e - f \in 0..(Mod - 1)
      <4>1. ~(f >= e) BY <2>1, <2>2, <3>1
      <4> HIDE DEF e, h, Mod
      <4> QED BY <1>0, <3>0, <3>0a, <4>1
    <3>3. Minus(limit, b.first) = e - f
      <4> HIDE DEF e
      <4> QED BY <1>1, <1>2, <3>0, <3>2, NumberMinus DEF e
    <3>4. n <= e - f BY <2>1, <2>2, <3>3
    <3> HIDE DEF e
    <3>5. f + n <= e BY <2>1, <3>0, <3>4
    <3> QED BY <3>5 DEF e
  <2> QED BY <2>1, <2>2
<1>6. AfterNack(b, limit) = Shift(b, n) BY DEF AfterNack
<1>7. Nacked(b, limit) = {Plus(b.first, i) : i \in 0..(n - 1) \ b.bits}
  BY DEF Nacked
<1> HIDE DEF n
<1>8. Records(Shift(b, n), f + n, S)
  <2>1. /\ Shift(b, n).valid = b.valid /\ Shift(b, n).first = Plus(b.first, n)
        /\ \A i \in Int : i \in Shift(b, n).bits <=> i >= 0 /\ i + n \in b.bits
    BY <1>5, Shifted
  <2>2. Plus(b.first, n) = Number(f + n) BY <1>1, <1>5, NumberPlus
  <2>3. ASSUME NEW i \in Int
        PROVE  i \in Shift(b, n).bits <=> i >= 0 /\ (f + n) + i \in S
    <3>1. i + n \in b.bits <=> i + n >= 0 /\ f + (i + n) \in S
      BY <1>5 DEF Records
    <3>2. f + (i + n) = (f + n) + i /\ (i >= 0 => i + n >= 0) BY <1>5
    <3> QED BY <2>1, <3>1, <3>2
  <2>4. \E q \in S : f + n <= q + 1
    <3>1. CASE n = 0
      <4>1. PICK q \in S : f <= q + 1 BY DEF Records
      <4> QED BY <3>1, <4>1
    <3>2. CASE n > 0
      <4>1. f + n <= p + 1 BY <1>0, <1>1, <1>5, <3>2
      <4> QED BY <4>1
    <3> QED BY <1>5, <3>1, <3>2
  <2> QED BY <1>1, <2>1, <2>2, <2>3, <2>4 DEF Records
<1>9. ASSUME NEW q \in S, p - q < h, Number(q) \in Nacked(b, limit) PROVE FALSE
  <2>1. PICK i \in 0..(n - 1) : i \notin b.bits /\ Number(q) = Plus(b.first, i)
    BY <1>7, <1>9
  <2>2. i \in Int /\ i >= 0 /\ n > 0 /\ i < n BY <1>5, <2>1
  <2>3. Number(q) = Number(f + i) BY <1>1, <2>1, <2>2, NumberPlus
  <2>4. f + i - q < Mod /\ q - (f + i) < Mod
    <3>1. q \in Int /\ q <= f + BitmapSize - 1 BY <1>3
    <3>2. f + n <= p - Unnacked BY <1>5, <2>2
    <3> HIDE DEF Mod, h
    <3> QED BY <1>0, <1>1, <1>5, <1>9, <2>2, <3>1, <3>2
  <2>5. q = f + i
    <3>1. q \in Int /\ f + i \in Int BY <2>2
    <3> QED BY <2>3, <2>4, <3>1, SameNumber
  <2>6. i \in b.bits <=> i >= 0 /\ f + i \in S BY <2>2 DEF Records
  <2> QED BY <2>1, <2>2, <2>5, <2>6
<1>10. f + n \in Int BY <1>5
<1> QED BY <1>6, <1>8, <1>9, <1>10 DEF limit

(* After a packet has been stored, before any are asked for. *)
LEMMA ReadRecorded ==
    ASSUME Timely, TypeInv, Recorded, NEW p \in Arriving
    PROVE  /\ After(p).bitmap \in Bitmap
           /\ received \cup {p} \in SUBSET Int
           /\ \A q \in received \cup {p} : q - p <= Reorder
           /\ \E f \in Int : Records(After(p).bitmap, f, received \cup {p})
<1>1. /\ p \in Packets /\ p \notin received /\ p \in Int /\ Number(p) \in Seqno
      /\ Flags(p).keyframe \in BOOLEAN /\ Reorder \in Nat
      /\ \A q \in received : q - p <= Reorder
      /\ \E q \in received \cup {0} : p - q <= 1 + Reorder
  BY Constants DEF Arriving
<1>2. cache \in Rings /\ cache.bitmap \in Bitmap BY DEF TypeInv, Rings
<1>3. received \in SUBSET Int /\ \A q \in received : q > 0
  BY Constants DEF TypeInv
<1>4. After(p).bitmap = SetBit(cache.bitmap, Number(p))
  BY <1>1, <1>2, Stored DEF After
<1>5. SetBit(cache.bitmap, Number(p)) \in Bitmap BY <1>1, <1>2, SetBitTyped
<1>6. \E f \in Int : Records(SetBit(cache.bitmap, Number(p)), f, received \cup {p})
  <2>1. CASE received = {}
    <3>1. ~cache.bitmap.valid /\ received \cup {p} = {p} BY <2>1 DEF Recorded
    <3>2. Records(SetBit(cache.bitmap, Number(p)), p, {p})
      BY <1>1, <1>2, <3>1, FirstRecorded
    <3> QED BY <1>1, <3>1, <3>2
  <2>2. CASE received # {}
    <3>1. PICK f \in Int : Records(cache.bitmap, f, received)
      BY <2>2 DEF Recorded
    <3>2. \E q \in received : p - q <= 1 + Reorder
      <4>1. PICK q \in received \cup {0} : p - q <= 1 + Reorder BY <1>1
      <4>2. CASE q \in received BY <4>1, <4>2
      <4>3. CASE q = 0
        <5>1. PICK r \in received : TRUE BY <2>2
        <5>2. r \in Int /\ r > 0 BY <1>3
        <5>3. p - r <= 1 + Reorder BY <1>1, <4>1, <4>3, <5>2
        <5> QED BY <5>3
      <4> QED BY <4>1, <4>2, <4>3
    <3> QED BY <1>1, <1>2, <1>3, <3>1, <3>2, PacketRecorded
  <2> QED BY <2>1, <2>2
<1>7. p - p <= Reorder BY <1>1
<1> QED BY <1>1, <1>3, <1>4, <1>5, <1>6, <1>7

(* So the reader asks for no packet that has come. *)
LEMMA MissingAsked ==
    ASSUME Timely, TypeInv, Recorded
    PROVE  NacksMissing
<1> SUFFICES ASSUME NEW p \in Arriving, NEW q \in received \cup {p}, p - q < Mod \div 2,
                    Number(q) \in Asked(p)
             PROVE  FALSE
  BY DEF NacksMissing
<1>1. PICK f \in Int : Records(After(p).bitmap, f, received \cup {p})
  BY ReadRecorded
<1>2. Number(q) \in Nacked(After(p).bitmap, Minus(Number(p), Unnacked))
  BY DEF Asked, Limit
<1>3. /\ After(p).bitmap \in Bitmap /\ received \cup {p} \in SUBSET Int
      /\ \A r \in received \cup {p} : r - p <= Reorder
  BY ReadRecorded
<1>4. p \in received \cup {p} OBVIOUS
<1> DEFINE S == received \cup {p}
           b == After(p).bitmap
<1>5. /\ b \in Bitmap /\ S \in SUBSET Int /\ \A r \in S : r - p <= Reorder
      /\ p \in S /\ Records(b, f, S) /\ q \in S
  BY <1>1, <1>3
<1> HIDE DEF S, b
<1>6. Number(q) \notin Nacked(b, Minus(Number(p), Unnacked))
  BY <1>5, NackedMissing
<1> QED BY <1>2, <1>6 DEF b

(* The bitmap records what has come, after every step. *)
LEMMA RecordedStep ==
    ASSUME Timely, TypeInv, Recorded, [Next]_vars
    PROVE  Recorded'
<1> USE DEF readerVars
<1>1. ASSUME NEW p \in Packets, Read(p) PROVE Recorded'
  <2> DEFINE S == received \cup {p}
             b == After(p).bitmap
  <2>1. p \in Arriving /\ received' = S BY <1>1 DEF Read
  <2>2. PICK f \in Int : Records(b, f, S) BY <2>1, ReadRecorded
  <2>3. /\ b \in Bitmap /\ S \in SUBSET Int /\ p \in S
        /\ \A q \in S : q - p <= Reorder
    BY <2>1, ReadRecorded
  <2>4. cache'.bitmap \in {b, AfterNack(b, Limit(p))}
    <3>1. After(p) \in Rings
      <4>1. cache \in Rings BY DEF TypeInv
      <4>2. Number(p) \in Seqno /\ Flags(p).keyframe \in BOOLEAN BY Constants
      <4> QED BY <4>1, <4>2, Stored DEF After
    <3>2. cache' \in {After(p), [After(p) EXCEPT !.bitmap = AfterNack(@, Limit(p))]}
      BY <1>1 DEF Read
    <3> QED BY <3>1, <3>2 DEF Rings
  <2> HIDE DEF S, b
  <2>5. \E g \in Int : Records(AfterNack(b, Limit(p)), g, S)
    BY <2>2, <2>3, NackedMissing DEF Limit
  <2>6. \E g \in Int : Records(cache'.bitmap, g, received')
    <3>1. CASE cache'.bitmap = b BY <2>1, <2>2, <3>1
    <3>2. CASE cache'.bitmap = AfterNack(b, Limit(p)) BY <2>1, <2>5, <3>2
    <3> QED BY <2>4, <3>1, <3>2
  <2>7. received' # {} BY <2>1, <2>3
  <2> QED BY <2>6, <2>7 DEF Recorded
<1>2. CASE UpdateUpTrack
  <2>1. PICK m \in Capacities : cache' = ResizeCond(cache, m)
    BY <1>2 DEF UpdateUpTrack
  <2>2. m \in Nat /\ m > 0 BY Constants
  <2>3. cache \in Rings BY DEF TypeInv
  <2>4. cache'.bitmap = cache.bitmap BY <2>1, <2>2, <2>3, Resized
  <2> QED BY <1>2, <2>4 DEF UpdateUpTrack, Recorded
<1>3. ASSUME UNCHANGED <<cache, received>> PROVE Recorded'
  BY <1>3 DEF Recorded
<1>4. \/ \E p \in Packets : Read(p)
      \/ UpdateUpTrack
      \/ UNCHANGED <<cache, received>>
  BY
     DEF Next, vars, AddTrack, FindLast, StartSequence, WriterTakes,
         SequenceTakes, GotNACK, NackWriter, Write
<1> QED BY <1>1, <1>2, <1>3, <1>4

(* The reader asks the publisher only for packets that have not come, however
   the bitmap slides and is read, if packets are not so late that bitmap.set
   takes them for those of a new stream. *)
THEOREM OnlyMissingAsked == Timely => (Spec => []NacksMissing)
<1> SUFFICES ASSUME Timely PROVE Spec => []NacksMissing OBVIOUS
<1>1. Init => Recorded
  BY DEF Init, Recorded, New, NoBitmap
<1>2. TypeInv /\ Recorded /\ [Next]_vars => Recorded' BY RecordedStep
<1>3. TypeInv /\ Recorded => NacksMissing BY MissingAsked
<1> HIDE DEF Timely
<1> QED BY <1>1, <1>2, <1>3, Typed, PTL DEF Spec

-----------------------------------------------------------------------------
(* The numbering. *)

\* How many packets of a set come before one.
Skipped(D, p) == Cardinality({q \in D : q < p})

(* ... all of them, none, or fewer than there are places. *)
LEMMA SkippedFacts ==
    ASSUME NEW D \in SUBSET Packets, NEW p \in Int
    PROVE  /\ IsFiniteSet(D) /\ Cardinality(D) \in Nat /\ Cardinality(D) <= MaxPacket
           /\ Skipped(D, p) \in Nat /\ Skipped(D, p) <= Cardinality(D)
           /\ (\A q \in D : q < p) => Skipped(D, p) = Cardinality(D)
           /\ (\A q \in D : q >= p) => Skipped(D, p) = 0
           /\ p >= 1 => Skipped(D, p) <= p - 1
           /\ \A x \in Int : x >= p => Skipped(D \cup {x}, p) = Skipped(D, p)
<1> DEFINE B == {q \in D : q < p}
<1>0. MaxPacket \in Nat /\ Packets = 1..MaxPacket BY Constants
<1>1. IsFiniteSet(Packets) /\ Cardinality(Packets) = MaxPacket
  <2>0. 1 \in Int /\ MaxPacket \in Int BY <1>0
  <2>1. IsFiniteSet(1..MaxPacket)
        /\ Cardinality(1..MaxPacket) = IF 1 > MaxPacket THEN 0 ELSE MaxPacket - 1 + 1
    BY <2>0, FS_Interval
  <2>2. (IF 1 > MaxPacket THEN 0 ELSE MaxPacket - 1 + 1) = MaxPacket BY <1>0
  <2> QED BY <1>0, <2>1, <2>2
<1>2. IsFiniteSet(D) /\ Cardinality(D) <= MaxPacket /\ Cardinality(D) \in Nat
  BY <1>1, FS_Subset, FS_CardinalityType
<1>3. B \in SUBSET D OBVIOUS
<1>4. IsFiniteSet(B) /\ Cardinality(B) <= Cardinality(D) /\ Cardinality(B) \in Nat
  BY <1>2, <1>3, FS_Subset, FS_CardinalityType
<1>5. ASSUME \A q \in D : q < p PROVE B = D BY <1>5
<1>6. ASSUME \A q \in D : q >= p PROVE B = {}
  <2>1. \A q \in D : q \in Int BY <1>0
  <2> QED BY <1>6, <2>1
<1>7. ASSUME p >= 1 PROVE Cardinality(B) <= p - 1
  <2>1. B \in SUBSET (1..(p - 1))
    <3> SUFFICES ASSUME NEW q \in B PROVE q \in 1..(p - 1) OBVIOUS
    <3>1. q \in 1..MaxPacket /\ q < p BY <1>0
    <3> QED BY <1>0, <3>1
  <2>2. IsFiniteSet(1..(p - 1)) /\ Cardinality(1..(p - 1)) = p - 1
    <3>1. p - 1 \in Int /\ 1 \in Int OBVIOUS
    <3>2. IsFiniteSet(1..(p - 1))
          /\ Cardinality(1..(p - 1)) = IF 1 > p - 1 THEN 0 ELSE p - 1 - 1 + 1
      BY <3>1, FS_Interval
    <3>3. (IF 1 > p - 1 THEN 0 ELSE p - 1 - 1 + 1) = p - 1 BY <1>7
    <3> QED BY <3>2, <3>3
  <2> HIDE DEF B
  <2> QED BY <2>1, <2>2, FS_Subset
<1>8. ASSUME NEW x \in Int, x >= p PROVE Skipped(D \cup {x}, p) = Skipped(D, p)
  <2>1. {q \in D \cup {x} : q < p} = B BY <1>8
  <2> QED BY <2>1 DEF Skipped
<1>9. Cardinality({}) = 0 BY FS_EmptySet
<1> QED BY <1>2, <1>4, <1>5, <1>6, <1>7, <1>8, <1>9 DEF Skipped

(* Two packets that are not skipped get different places. *)
LEMMA SkippedOrder ==
    ASSUME NEW D \in SUBSET Packets, NEW a \in Int, NEW b \in Int, a < b, a \notin D
    PROVE  a - Skipped(D, a) < b - Skipped(D, b)
<1> DEFINE A == {q \in D : q < a}
           B == {q \in D : q < b}
           T == (a + 1)..(b - 1)
<1>0. \A q \in D : q \in Int
  <2>1. Packets = 1..MaxPacket BY Constants
  <2> QED BY <2>1
<1>1. IsFiniteSet(A) /\ IsFiniteSet(B) /\ Cardinality(A) \in Nat /\ Cardinality(B) \in Nat
  <2>1. IsFiniteSet(D) BY SkippedFacts
  <2>2. A \in SUBSET D /\ B \in SUBSET D OBVIOUS
  <2> HIDE DEF A, B
  <2> QED BY <2>1, <2>2, FS_Subset, FS_CardinalityType
<1>2. IsFiniteSet(T) /\ Cardinality(T) = b - a - 1
  <2>1. a + 1 \in Int /\ b - 1 \in Int OBVIOUS
  <2>2. IsFiniteSet(T) /\ Cardinality(T) = IF a + 1 > b - 1 THEN 0 ELSE b - 1 - (a + 1) + 1
    BY <2>1, FS_Interval
  <2>3. (IF a + 1 > b - 1 THEN 0 ELSE b - 1 - (a + 1) + 1) = b - a - 1 OBVIOUS
  <2> QED BY <2>2, <2>3
<1>3. B \in SUBSET (A \cup T)
  <2> SUFFICES ASSUME NEW q \in B PROVE q \in A \cup T OBVIOUS
  <2>1. q \in D /\ q \in Int /\ q < b /\ q # a BY <1>0
  <2> QED BY <2>1
<1> HIDE DEF A, B, T
<1>4. IsFiniteSet(A \cup T)
      /\ Cardinality(A \cup T) = Cardinality(A) + Cardinality(T) - Cardinality(A \cap T)
  BY <1>1, <1>2, FS_Union
<1>5. Cardinality(A \cap T) \in Nat
  <2>1. IsFiniteSet(A \cap T) BY <1>1, FS_Intersection
  <2> QED BY <2>1, FS_CardinalityType
<1>6. Cardinality(B) <= Cardinality(A \cup T) BY <1>3, <1>4, FS_Subset
<1>7. Cardinality(B) <= Cardinality(A) + (b - a - 1)
  BY <1>1, <1>2, <1>4, <1>5, <1>6
<1>8. a - Cardinality(A) < b - Cardinality(B) BY <1>1, <1>7
<1> QED BY <1>8 DEF Skipped, A, B

(* Over some places, at most that many packets are skipped. *)
LEMMA SkippedApart ==
    ASSUME NEW D \in SUBSET Packets, NEW a \in Int, NEW b \in Int, a <= b
    PROVE  /\ Skipped(D, a) \in Int /\ Skipped(D, b) \in Int
           /\ Skipped(D, a) <= Skipped(D, b) /\ Skipped(D, b) - Skipped(D, a) <= b - a
<1> DEFINE A == {q \in D : q < a}
           B == {q \in D : q < b}
           T == a..(b - 1)
<1>0. \A q \in D : q \in Int
  <2>1. Packets = 1..MaxPacket BY Constants
  <2> QED BY <2>1
<1>1. IsFiniteSet(A) /\ IsFiniteSet(B) /\ Cardinality(A) \in Nat /\ Cardinality(B) \in Nat
  <2>1. IsFiniteSet(D) BY SkippedFacts
  <2>2. A \in SUBSET D /\ B \in SUBSET D OBVIOUS
  <2> HIDE DEF A, B
  <2> QED BY <2>1, <2>2, FS_Subset, FS_CardinalityType
<1>2. IsFiniteSet(T) /\ Cardinality(T) = b - a
  <2>1. a \in Int /\ b - 1 \in Int OBVIOUS
  <2>2. IsFiniteSet(T) /\ Cardinality(T) = IF a > b - 1 THEN 0 ELSE b - 1 - a + 1
    BY <2>1, FS_Interval
  <2>3. (IF a > b - 1 THEN 0 ELSE b - 1 - a + 1) = b - a OBVIOUS
  <2> QED BY <2>2, <2>3
<1>3. B \in SUBSET (A \cup T)
  <2> SUFFICES ASSUME NEW q \in B PROVE q \in A \cup T OBVIOUS
  <2>1. q \in D /\ q \in Int /\ q < b BY <1>0
  <2> QED BY <2>1
<1>4. A \in SUBSET B
  <2> SUFFICES ASSUME NEW q \in A PROVE q \in B OBVIOUS
  <2>1. q \in D /\ q \in Int /\ q < a BY <1>0
  <2> QED BY <2>1
<1> HIDE DEF A, B, T
<1>5. IsFiniteSet(A \cup T)
      /\ Cardinality(A \cup T) = Cardinality(A) + Cardinality(T) - Cardinality(A \cap T)
  BY <1>1, <1>2, FS_Union
<1>6. Cardinality(A \cap T) \in Nat
  <2>1. IsFiniteSet(A \cap T) BY <1>1, FS_Intersection
  <2> QED BY <2>1, FS_CardinalityType
<1>7. Cardinality(B) <= Cardinality(A \cup T) /\ Cardinality(A) <= Cardinality(B)
  BY <1>1, <1>3, <1>4, <1>5, FS_Subset
<1>8. Cardinality(B) <= Cardinality(A) + (b - a)
  BY <1>1, <1>2, <1>5, <1>6, <1>7
<1>9. Cardinality(B) - Cardinality(A) <= b - a BY <1>1, <1>8
<1> QED BY <1>1, <1>7, <1>9 DEF Skipped, A, B

\* The interval covers the places from f on, of which none has been dropped,
\* and all that come after c packets that have.
Covers(D, e, f, c) ==
    /\ f >= 1 - Window
    /\ e.first = Number(f) /\ e.delta = Minus(0, c)
    /\ \A q \in f..(f + e.count - 1) : q \notin D /\ Skipped(D, q) = c

\* All intervals do, for places not further than b before n; between the last
\* one and n, all have been dropped.
Ranges(m, D, n, b) ==
    \A i \in DOMAIN m.entries : \E f \in Int, c \in Nat :
        /\ Covers(D, m.entries[i], f, c)
        /\ f >= n - b /\ f + m.entries[i].count <= n
        /\ i = m.last => c + (n - (f + m.entries[i].count)) = Cardinality(D)

(* The constants. *)
LEMMA StreamFacts ==
    /\ Window \in Nat /\ Window > 0 /\ MaxPacket \in Nat
    /\ Mod \in Nat /\ Mod = 8 * Window /\ Mod \div 2 = 4 * Window
    /\ Packets = 1..MaxPacket
    /\ \A p \in Packets : /\ p \in Int /\ p >= 1 /\ p <= MaxPacket
                          /\ Number(p) \in Seqno /\ Number(p) \in Int
  BY Modulus, Constants

(* An interval stays exact when a later packet is dropped. *)
LEMMA CoversLater ==
    ASSUME NEW D \in SUBSET Packets, NEW e \in Interval, NEW f \in Int, NEW c \in Nat,
           NEW x \in Int, x >= f + e.count, Covers(D, e, f, c)
    PROVE  Covers(D \cup {x}, e, f, c)
<1>1. e.count \in Int BY SeqnoInt DEF Interval
<1>2. ASSUME NEW q \in f..(f + e.count - 1)
      PROVE  q \notin D \cup {x} /\ Skipped(D \cup {x}, q) = c
  <2>1. q \in Int /\ x >= q /\ x # q BY <1>1, <1>2
  <2>2. q \notin D /\ Skipped(D, q) = c BY <1>2 DEF Covers
  <2>3. Skipped(D \cup {x}, q) = Skipped(D, q) BY <2>1, SkippedFacts
  <2> QED BY <2>1, <2>2, <2>3
<1> QED BY <1>2 DEF Covers

(* What the search finds. *)
LEMMA FoundInterval ==
    ASSUME NEW m \in Maps, NEW s, NEW first, Find(m, s, first) # 0
    PROVE  LET i == Find(m, s, first)
           IN  /\ i \in DOMAIN m.entries
               /\ AtOrAfter(s, first[i])
               /\ ~AtOrAfter(s, Plus(first[i], m.entries[i].count))
<1> DEFINE n == Len(m.entries)
           back(k) == ((m.last - 1 - k) % n) + 1
           candidates == {k \in 0..(n - 1) : AtOrAfter(s, first[back(k)])}
           nearest == CHOOSE k \in candidates : \A l \in candidates : k <= l
           i == back(nearest)
<1>1. Find(m, s, first) \in DOMAIN m.entries BY FindTyped
<1>2. n \in Nat BY DEF Maps
<1>3. ~(n = 0 \/ candidates = {}) BY DEF Find
<1>4. nearest \in candidates
  <2>1. candidates \subseteq Nat BY <1>2
  <2> HIDE DEF candidates
  <2>2. \E k \in candidates : \A l \in candidates : k <= l
    BY <1>3, <2>1, Least
  <2> QED BY <2>2
<1>5. AtOrAfter(s, first[i])
  <2> HIDE DEF nearest
  <2> QED BY <1>4
<1>6. /\ Find(m, s, first) = i
      /\ ~AtOrAfter(s, Plus(first[i], m.entries[i].count))
  <2>1. Find(m, s, first) =
          IF n = 0 \/ candidates = {} THEN 0
          ELSE IF AtOrAfter(s, Plus(first[i], m.entries[i].count)) THEN 0 ELSE i
    BY DEF Find
  <2> HIDE DEF i, candidates, n
  <2> QED BY <1>3, <2>1
<1> HIDE DEF i
<1> QED BY <1>1, <1>5, <1>6

(* A number that is found in an interval is that of one of its places. *)
LEMMA InInterval ==
    ASSUME NEW f \in Int, NEW k \in Int, NEW p \in Int,
           f - p < Mod \div 2, p - f <= Mod \div 2,
           f + k - p < Mod \div 2, p - (f + k) <= Mod \div 2,
           AtOrAfter(Number(p), Number(f)), ~AtOrAfter(Number(p), Plus(Number(f), k))
    PROVE  p \in f..(f + k - 1)
<1>2. p >= f BY InOrder
<1>3. Plus(Number(f), k) = Number(f + k) BY NumberPlus
<1>4. f + k \in Int OBVIOUS
<1>5. ~(p >= f + k) BY <1>3, <1>4, InOrder
<1> QED BY <1>2, <1>5

(* A late packet is numbered as it would have been in its place. *)
LEMMA DirectExact ==
    ASSUME NEW m \in Maps, NEW D \in SUBSET Packets, NEW n \in Int,
           Ranges(m, D, n, 3 * Window),
           NEW p \in Packets, p < n, n - p <= Window, Direct(m, Number(p)).ok
    PROVE  p \notin D /\ Direct(m, Number(p)).seqno = Minus(Number(p), Skipped(D, p))
<1> DEFINE s == Number(p)
           first == [k \in DOMAIN m.entries |-> m.entries[k].first]
           i == Find(m, s, first)
<1>1. Direct(m, s) = IF i = 0 THEN Failed
                     ELSE [ok |-> TRUE, seqno |-> Plus(s, m.entries[i].delta)]
  BY DEF Direct
<1>2. i # 0
  <2> HIDE DEF i
  <2> QED BY <1>1 DEF Failed
<1>3. /\ i \in DOMAIN m.entries /\ AtOrAfter(s, first[i])
      /\ ~AtOrAfter(s, Plus(first[i], m.entries[i].count))
  <2> HIDE DEF s, first
  <2> QED BY <1>2, FoundInterval
<1> HIDE DEF i
<1>4. first[i] = m.entries[i].first BY <1>3
<1> HIDE DEF first
<1>5. PICK f \in Int, c \in Nat :
        /\ Covers(D, m.entries[i], f, c)
        /\ f >= n - 3 * Window /\ f + m.entries[i].count <= n
  BY <1>3 DEF Ranges
<1> DEFINE k == m.entries[i].count
<1>6. k \in Int /\ k >= 0
  <2>1. m.entries[i] \in Interval BY <1>3, IntervalTyped
  <2> QED BY <2>1, Modulus DEF Interval
<1>7. p \in Int /\ Window \in Nat /\ Window > 0 /\ Mod \div 2 = 4 * Window BY StreamFacts
<1>8. p \in f..(f + k - 1)
  <2>1. first[i] = Number(f) BY <1>4, <1>5 DEF Covers
  <2>2. f >= n - 3 * Window /\ f + k <= n BY <1>5
  <2> HIDE DEF k
  <2>3. f - p < 4 * Window /\ p - f <= 4 * Window
        /\ f + k - p < 4 * Window /\ p - (f + k) <= 4 * Window
    BY <1>6, <1>7, <2>2
  <2>4. AtOrAfter(s, Number(f)) /\ ~AtOrAfter(s, Plus(Number(f), k))
    BY <1>3, <2>1 DEF k
  <2> QED BY <1>6, <1>7, <2>3, <2>4, InInterval
<1>9. p \notin D /\ Skipped(D, p) = c /\ m.entries[i].delta = Minus(0, c)
  BY <1>5, <1>8 DEF Covers
<1>10. Plus(s, m.entries[i].delta) = Minus(s, c)
  BY <1>7, <1>9, Offsets, NumberMinus
<1> QED BY <1>1, <1>2, <1>9, <1>10

(* What was sent under a number is found again by it, or nothing is. *)
LEMMA ReverseExact ==
    ASSUME NEW m \in Maps, m.entries # <<>>, NEW D \in SUBSET Packets,
           NEW n \in Int, Ranges(m, D, n, 3 * Window),
           NEW p \in Packets, p \notin D, p < n, n - p <= Window + 1,
           NEW t, t = Minus(Number(p), Skipped(D, p)), Reverse(m, t).ok
    PROVE  Reverse(m, t).seqno = Number(p)
<1> DEFINE g == p - Skipped(D, p)
           target == [k \in DOMAIN m.entries |->
                          Plus(m.entries[k].first, m.entries[k].delta)]
           i == Find(m, t, target)
<1>0. p \in Int /\ p >= 1 /\ Window \in Nat /\ Window > 0 /\ Mod \div 2 = 4 * Window
  BY StreamFacts
<1>1. Skipped(D, p) \in Nat BY <1>0, SkippedFacts
<1>2. t = Number(g) /\ g \in Int
  <2>1. p \in Int BY <1>0
  <2>2. g \in Int BY <1>1, <2>1
  <2> QED BY <1>1, <2>1, <2>2, NumberMinus
<1>3. Reverse(m, t) = IF i = 0 THEN Failed
                      ELSE [ok |-> TRUE, seqno |-> Minus(t, m.entries[i].delta)]
  BY DEF Reverse, Fresh
<1>4. i # 0
  <2> HIDE DEF i
  <2> QED BY <1>3 DEF Failed
<1>5. /\ i \in DOMAIN m.entries /\ AtOrAfter(t, target[i])
      /\ ~AtOrAfter(t, Plus(target[i], m.entries[i].count))
  <2> HIDE DEF target
  <2> QED BY <1>4, FoundInterval
<1> HIDE DEF i
<1> DEFINE e == m.entries[i]
           x == e.count
<1>6. target[i] = Plus(e.first, e.delta) BY <1>5
<1> HIDE DEF target
<1>7. PICK f \in Int, c \in Nat : Covers(D, e, f, c) /\ f >= n - 3 * Window /\ f + x <= n
  BY <1>5 DEF Ranges
<1>8. x \in Int /\ x >= 0
  <2>1. e \in Interval BY <1>5, IntervalTyped
  <2> HIDE DEF e
  <2> QED BY <2>1, Modulus DEF Interval
<1> HIDE DEF e, g
<1>9. target[i] = Number(f - c) BY <1>6, <1>7, Offsets DEF Covers
<1>10. AtOrAfter(Number(g), Number(f - c)) /\ ~AtOrAfter(Number(g), Plus(Number(f - c), x))
  BY <1>2, <1>5, <1>9 DEF e
<1>11. e.delta = Minus(0, c) /\ \A q \in f..(f + x - 1) : q \notin D /\ Skipped(D, q) = c
  BY <1>7 DEF Covers
<1> HIDE DEF x
<1>12. x > 0
  <2>1. SUFFICES ASSUME x = 0 PROVE FALSE BY <1>8
  <2>2. Plus(Number(f - c), x) = Number(f - c + x) /\ f - c + x = f - c
    <3>1. f - c \in Int OBVIOUS
    <3>2. Plus(Number(f - c), x) = Number(f - c + x) BY <1>8, <3>1, NumberPlus
    <3> QED BY <2>1, <3>2
  <2> QED BY <1>10, <2>2
<1> DEFINE l == f + x - 1
<1>13. f \in Int /\ l \in Int /\ Skipped(D, f) = c /\ Skipped(D, l) = c /\ f <= l
  BY <1>8, <1>11, <1>12
<1>14. ASSUME NEW q \in Int, Skipped(D, q) = c
       PROVE  /\ p >= q => 0 <= g - (q - c) /\ g - (q - c) <= p - q
              /\ q >= p => 0 <= (q - c) - g /\ (q - c) - g <= q - p
  <2> DEFINE y == Skipped(D, p)
  <2>1. y \in Int /\ g = p - y BY <1>1 DEF g
  <2>2. p >= q => c <= y /\ y - c <= p - q BY <1>0, <1>14, SkippedApart
  <2>3. q >= p => y <= c /\ c - y <= q - p BY <1>0, <1>14, SkippedApart
  <2> HIDE DEF y
  <2> QED BY <1>0, <2>1, <2>2, <2>3
<1>15. g \in (f - c)..(f - c + x - 1)
  <2>1. /\ f - c - g < 4 * Window /\ g - (f - c) <= 4 * Window
    <3>1. /\ p >= f => 0 <= g - (f - c) /\ g - (f - c) <= p - f
          /\ f >= p => 0 <= (f - c) - g /\ (f - c) - g <= f - p
      BY <1>13, <1>14
    <3>2. p - f < 3 * Window /\ f - p <= Window BY <1>0, <1>7, <1>8, <1>12
    <3> HIDE DEF Mod
    <3>3. p \in Int /\ Window \in Nat /\ Window > 0 /\ f - c \in Int /\ g \in Int
      BY <1>0, <1>2
    <3>4. CASE p >= f
      <4>1. f - c - g <= 0 /\ g - (f - c) < 3 * Window BY <3>1, <3>2, <3>3, <3>4
      <4> QED BY <3>3, <4>1
    <3>5. CASE f >= p
      <4>1. g - (f - c) <= 0 /\ f - c - g <= Window BY <3>1, <3>2, <3>3, <3>5
      <4> QED BY <3>3, <4>1
    <3> QED BY <3>3, <3>4, <3>5
  <2>2. /\ f - c + x - g < 4 * Window /\ g - (f - c + x) <= 4 * Window
    <3>1. /\ p >= l => 0 <= g - (l - c) /\ g - (l - c) <= p - l
          /\ l >= p => 0 <= (l - c) - g /\ (l - c) - g <= l - p
      BY <1>13, <1>14
    <3>2. p - l < 3 * Window /\ l - p <= Window BY <1>0, <1>7, <1>8, <1>12
    <3>3. l - c = f - c + x - 1 BY <1>8
    <3> HIDE DEF l
    <3> QED BY <1>0, <1>2, <1>8, <1>13, <3>1, <3>2, <3>3
  <2>3. f - c \in Int /\ f - c - g < Mod \div 2 /\ g - (f - c) <= Mod \div 2
        /\ f - c + x - g < Mod \div 2 /\ g - (f - c + x) <= Mod \div 2
    BY <1>0, <2>1, <2>2
  <2> QED BY <1>2, <1>8, <1>10, <2>3, InInterval
<1> DEFINE q == g + c
<1>16. q \in f..(f + x - 1) /\ q \in Int BY <1>2, <1>8, <1>15
<1>17. q \notin D /\ Skipped(D, q) = c BY <1>11, <1>16
<1>18. q = p
  <2>1. q - Skipped(D, q) = p - Skipped(D, p) BY <1>1, <1>2, <1>17 DEF g
  <2>2. Skipped(D, q) \in Int /\ Skipped(D, p) \in Int BY <1>1, <1>17
  <2> HIDE DEF q
  <2>3. ~(q < p)
    <3>1. q < p => q - Skipped(D, q) < p - Skipped(D, p)
      BY <1>0, <1>16, <1>17, SkippedOrder
    <3> QED BY <1>0, <1>16, <2>1, <2>2, <3>1
  <2>4. ~(p < q)
    <3>1. p < q => p - Skipped(D, p) < q - Skipped(D, q)
      BY <1>0, <1>16, SkippedOrder
    <3> QED BY <1>0, <1>16, <2>1, <2>2, <3>1
  <2> QED BY <1>0, <1>16, <2>3, <2>4
<1>19. Minus(t, e.delta) = Number(p)
  <2>1. Minus(Number(g), Minus(0, c)) = Number(g + c) BY <1>2, Offsets
  <2> QED BY <1>2, <1>11, <1>18, <2>1
<1> QED BY <1>3, <1>4, <1>19 DEF e

(* addMapping keeps the intervals exact: what is missing before the packet is
   taken into its interval, unless too much has been dropped. *)
LEMMA AddMappingExact ==
    ASSUME NEW m \in Maps, m.entries # <<>>, NEW D \in SUBSET Packets,
           NEW n \in Int, m.next = Number(n), \A q \in D : q < n,
           m.delta = Minus(0, Cardinality(D)), Ranges(m, D, n, 3 * Window),
           NEW p \in Packets, p >= n, p - n <= Window
    PROVE  Ranges(AddMapping(m, Number(p)), D, p + 1, 4 * Window + 1)
<1> DEFINE s == Number(p)
           e == m.entries[m.last]
           d == Minus(e.delta, m.delta)
           after == Plus(e.first, e.count + d)
           f == IF d < Window /\ after # s /\ AtOrBefore(after, s) THEN after ELSE s
           new == [first |-> f, count |-> Plus(Minus(s, f), 1), delta |-> m.delta]
           longer == [e EXCEPT !.count = Plus(Minus(s, e.first), 1)]
           j == (m.last % MaxEntries) + 1
           l == Len(m.entries)
           C == Cardinality(D)
           b == 4 * Window + 1
<1>0. /\ p \in Int /\ p >= 1 /\ Window \in Nat /\ Window > 0
      /\ Mod \in Nat /\ Mod = 8 * Window /\ Mod \div 2 = 4 * Window
  BY StreamFacts
<1>1. /\ m.entries \in Seq(Interval) /\ l \in Nat /\ l <= MaxEntries
      /\ m.last \in 1..l /\ DOMAIN m.entries = 1..l /\ l > 0 /\ MaxEntries \in Nat
  BY PacketMapAssumption DEF Maps
<1>2. e \in Interval /\ e.count \in Int /\ e.count >= 0
  <2>1. e \in Interval BY <1>1, IntervalTyped
  <2> HIDE DEF e
  <2> QED BY <2>1, Modulus DEF Interval
<1>3. C \in Nat /\ \A q \in Int : q >= n => q \notin D /\ Skipped(D, q) = C
  <2>1. \A r \in D : r \in Int BY <1>0, StreamFacts
  <2>2. \A q \in Int : q >= n => q \notin D /\ \A r \in D : r < q BY <2>1
  <2> QED BY <1>0, <2>2, SkippedFacts
<1> HIDE DEF C
<1>5. PICK g \in Int, c \in Nat : /\ Covers(D, e, g, c)
                                  /\ g >= n - 3 * Window /\ g + e.count <= n
                                  /\ c + (n - (g + e.count)) = C
  <2>1. m.last \in DOMAIN m.entries BY <1>1
  <2> QED BY <2>1 DEF Ranges, C
<1>6. /\ g >= 1 - Window /\ e.first = Number(g) /\ e.delta = Minus(0, c)
      /\ \A q \in g..(g + e.count - 1) : q \notin D /\ Skipped(D, q) = c
  BY <1>5 DEF Covers
<1>7. d = C - c /\ d = n - (g + e.count) /\ d \in Int
  <2>1. C - c = n - (g + e.count) /\ C - c \in 0..(Mod - 1)
    <3> DEFINE x == e.count
    <3>1. /\ x \in Int /\ x >= 0 /\ g + x <= n /\ c + (n - (g + x)) = C /\ C \in Int
          /\ g >= n - 3 * Window
      BY <1>2, <1>3, <1>5
    <3> HIDE DEF x, Mod
    <3>2. C - c = n - (g + x) /\ C - c \in 0..(Mod - 1) BY <1>0, <3>1
    <3> QED BY <3>2 DEF x
  <2>2. m.delta = Minus(0, C) BY DEF C
  <2>3. d = C - c
    <3>1. d = Minus(Minus(0, c), Minus(0, C)) BY <1>6, <2>2
    <3>2. c \in Int /\ C \in Int BY <1>3
    <3> HIDE DEF d, e, Mod
    <3> QED BY <2>1, <3>1, <3>2, Offsets
  <2> HIDE DEF e, d
  <2> QED BY <1>3, <2>1, <2>3
<1> HIDE DEF d
<1>8. after = Number(n)
  <2>1. g + (e.count + d) = n /\ e.count + d \in Int
    <3> HIDE DEF e
    <3> QED BY <1>2, <1>7
  <2> QED BY <1>6, <2>1, NumberPlus
<1> HIDE DEF after
<1>9. PICK F \in n..p : f = Number(F)
  <2>1. n \in n..p /\ p \in n..p BY <1>0
  <2> QED BY <1>8, <2>1
<1> HIDE DEF f
<1>10. ASSUME NEW k \in Int, k >= p - 4 * Window, k <= p
       PROVE  Plus(Minus(s, Number(k)), 1) = p + 1 - k
  <2>1. p - k \in 0..(Mod - 1) /\ (p - k) + 1 \in 0..(Mod - 1) /\ p - k \in Int
    <3> HIDE DEF Mod
    <3> QED BY <1>0, <1>10
  <2>2. Minus(s, Number(k)) = p - k BY <1>0, <2>1, NumberMinus
  <2>3. p - k \in Int /\ 1 \in Int BY <1>0
  <2>4. Plus(p - k, 1) = (p - k) + 1 BY <2>1, <2>3, PlusSmall
  <2> QED BY <1>0, <1>10, <2>2, <2>4
<1>11. new.count = p + 1 - F /\ new.first = Number(F) /\ new.delta = Minus(0, C)
  <2>1. F \in Int /\ F >= p - 4 * Window /\ F <= p
    <3> HIDE DEF Mod, s
    <3> QED BY <1>0, <1>9
  <2>2. Plus(Minus(s, Number(F)), 1) = p + 1 - F BY <1>10, <2>1
  <2> QED BY <1>9, <2>2 DEF C
<1>12. /\ Covers(D, new, F, C)
       /\ F >= (p + 1) - b /\ F + new.count <= p + 1
       /\ C + ((p + 1) - (F + new.count)) = Cardinality(D)
  <2> HIDE DEF new
  <2>1. F \in Int /\ F >= n /\ F >= (p + 1) - b /\ F + new.count = p + 1
        /\ F + new.count <= p + 1
    <3> HIDE DEF Mod, s
    <3> QED BY <1>0, <1>9, <1>11
  <2>2. ASSUME NEW q \in F..(F + new.count - 1)
        PROVE  q \notin D /\ Skipped(D, q) = C
    <3>1. q \in Int /\ q >= n BY <2>1, <2>2
    <3> QED BY <1>3, <3>1
  <2>3. C + ((p + 1) - (F + new.count)) = C BY <1>0, <1>3, <2>1
  <2>4. F >= 1 - Window
    <3>1. n >= 1 - Window
      <4> DEFINE x == e.count
      <4>1. g >= 1 - Window /\ g + x <= n /\ x \in Int /\ x >= 0 BY <1>2, <1>5, <1>6
      <4> HIDE DEF x, Mod
      <4> QED BY <1>0, <4>1
    <3> HIDE DEF Mod
    <3> QED BY <1>0, <2>1, <3>1
  <2> QED BY <1>11, <2>1, <2>2, <2>3, <2>4 DEF Covers, C
<1>13. ASSUME m.delta = e.delta
       PROVE  /\ Covers(D, longer, g, c)
              /\ g >= (p + 1) - b /\ g + longer.count <= p + 1
              /\ c + ((p + 1) - (g + longer.count)) = Cardinality(D)
  <2>1. C = c
    <3>1. Minus(0, C) = Minus(0, c) BY <1>6, <1>13 DEF C
    <3>2. 0 \in 0..(Mod - 1) /\ c - c = 0
      <4> HIDE DEF Mod
      <4> QED BY <1>0
    <3>3. Minus(Minus(0, c), Minus(0, c)) = 0
      <4>1. c \in Int OBVIOUS
      <4> HIDE DEF Mod
      <4> QED BY <3>2, <4>1, Offsets
    <3>4. d = 0
      <4>1. e.delta = Minus(0, c) /\ d = Minus(e.delta, e.delta) BY <1>6, <1>13 DEF d
      <4> HIDE DEF e
      <4> QED BY <3>3, <4>1
    <3> QED BY <1>3, <1>7, <3>4
  <2>2. g + e.count = n /\ g <= p /\ g >= p - 4 * Window
    <3> HIDE DEF e, Mod
    <3> QED BY <1>0, <1>2, <1>3, <1>5, <2>1
  <2>3. longer.count = p + 1 - g /\ longer.first = Number(g) /\ longer.delta = Minus(0, c)
    <3>1. Plus(Minus(s, Number(g)), 1) = p + 1 - g BY <1>10, <2>2
    <3>2. /\ longer.count = Plus(Minus(s, e.first), 1)
          /\ longer.first = e.first /\ longer.delta = e.delta
      <4> HIDE DEF e, s
      <4> QED BY <1>2 DEF Interval
    <3> QED BY <1>6, <3>1, <3>2
  <2> HIDE DEF longer
  <2>4. g + longer.count = p + 1 /\ g + longer.count <= p + 1 /\ g >= (p + 1) - b
    <3> DEFINE x == longer.count
    <3>1. x = p + 1 - g /\ p \in Int /\ Window \in Nat /\ g >= p - 4 * Window
      BY <1>0, <2>2, <2>3
    <3> HIDE DEF x
    <3>2. g + x = p + 1 /\ g + x <= p + 1 /\ g >= (p + 1) - b BY <3>1
    <3> QED BY <3>2 DEF x
  <2>5. ASSUME NEW q \in g..(g + longer.count - 1)
        PROVE  q \notin D /\ Skipped(D, q) = c
    <3>1. q \in Int /\ q >= g BY <2>4, <2>5
    <3>2. CASE q >= n BY <1>3, <2>1, <3>1, <3>2
    <3>3. CASE q < n
      <4>1. q \in g..(g + e.count - 1)
        <5> HIDE DEF e
        <5> QED BY <1>2, <2>2, <3>1, <3>3
      <4> QED BY <1>6, <4>1
    <3> QED BY <3>1, <3>2, <3>3
  <2>6. c + ((p + 1) - (g + longer.count)) = C BY <1>0, <2>1, <2>4
  <2> QED BY <1>6, <2>1, <2>3, <2>4, <2>5, <2>6 DEF Covers, C
<1>14. ASSUME NEW i \in DOMAIN m.entries
       PROVE  \E k \in Int, a \in Nat :
                 /\ Covers(D, m.entries[i], k, a)
                 /\ k >= (p + 1) - b /\ k + m.entries[i].count <= p + 1
  <2> DEFINE x == m.entries[i].count
  <2>1. PICK k \in Int, a \in Nat :
          /\ Covers(D, m.entries[i], k, a) /\ k >= n - 3 * Window /\ k + x <= n
    BY DEF Ranges
  <2>2. x \in Int BY IntervalTyped
  <2> HIDE DEF x
  <2>3. k >= (p + 1) - b /\ k + x <= p + 1
    <3> HIDE DEF Mod, s
    <3> QED BY <1>0, <2>1, <2>2
  <2> QED BY <2>1, <2>3 DEF x
<1>15. AddMapping(m, s) =
         IF m.delta = e.delta THEN [m EXCEPT !.entries[m.last] = longer]
         ELSE IF l < MaxEntries
              THEN [m EXCEPT !.entries = Append(m.entries, new), !.last = l + 1]
              ELSE [m EXCEPT !.entries[j] = new, !.last = j]
  BY DEF AddMapping, f, after, d
<1>16. j \in 1..MaxEntries
  <2>1. m.last \in Int /\ MaxEntries > 0 BY <1>1, PacketMapAssumption
  <2>2. m.last % MaxEntries \in 0..(MaxEntries - 1) BY <1>1, <2>1, Division
  <2> QED BY <1>1, <2>2
<1> HIDE DEF new, longer, j, e, s, b
<1>17. CASE m.delta = e.delta
  <2> DEFINE t == [m.entries EXCEPT ![m.last] = longer]
             k == AddMapping(m, s)
  <2>1. k.entries = t /\ k.last = m.last BY <1>15, <1>17 DEF Maps
  <2>2. DOMAIN t = DOMAIN m.entries /\ t[m.last] = longer
        /\ \A i \in DOMAIN t : i # m.last => t[i] = m.entries[i]
    BY <1>1
  <2> HIDE DEF t, k
  <2>3. Ranges(k, D, p + 1, b)
    BY <1>13, <1>14, <1>17, <2>1, <2>2 DEF Ranges
  <2> QED BY <2>3 DEF k, s, b
<1>18. CASE m.delta # e.delta /\ l < MaxEntries
  <2> DEFINE t == Append(m.entries, new)
             k == AddMapping(m, s)
  <2>1. k.entries = t /\ k.last = l + 1 BY <1>15, <1>18 DEF Maps
  <2>2. DOMAIN t = 1..(l + 1) /\ t[l + 1] = new
        /\ \A i \in DOMAIN m.entries : t[i] = m.entries[i]
    BY <1>1
  <2> HIDE DEF t, k, l
  <2>3. \A i \in DOMAIN t : i = l + 1 \/ i \in DOMAIN m.entries
    BY <1>1, <2>2
  <2>4. C \in Nat /\ F \in Int BY <1>3, <1>9
  <2>5. ASSUME NEW i \in DOMAIN t
        PROVE  \E x \in Int, y \in Nat :
                  /\ Covers(D, t[i], x, y)
                  /\ x >= (p + 1) - b /\ x + t[i].count <= p + 1
                  /\ i = l + 1 => y + ((p + 1) - (x + t[i].count)) = Cardinality(D)
    <3>1. CASE i = l + 1 BY <1>12, <2>2, <2>4, <3>1
    <3>2. CASE i # l + 1
      <4>1. i \in DOMAIN m.entries /\ t[i] = m.entries[i] BY <2>2, <2>3, <3>2
      <4> QED BY <1>14, <3>2, <4>1
    <3> QED BY <3>1, <3>2
  <2>6. Ranges(k, D, p + 1, b) BY <2>1, <2>5 DEF Ranges
  <2> QED BY <2>6 DEF k, s, b
<1>19. CASE m.delta # e.delta /\ ~(l < MaxEntries)
  <2> DEFINE t == [m.entries EXCEPT ![j] = new]
             k == AddMapping(m, s)
  <2>1. k.entries = t /\ k.last = j BY <1>15, <1>19 DEF Maps
  <2>2. j \in DOMAIN m.entries BY <1>1, <1>16, <1>19
  <2>3. DOMAIN t = DOMAIN m.entries /\ t[j] = new
        /\ \A i \in DOMAIN t : i # j => t[i] = m.entries[i]
    BY <1>1, <2>2
  <2> HIDE DEF t, k
  <2>4. C \in Nat /\ F \in Int BY <1>3, <1>9
  <2>5. Ranges(k, D, p + 1, b)
    BY <1>12, <1>14, <2>1, <2>3, <2>4 DEF Ranges
  <2> QED BY <2>5 DEF k, s, b
<1> QED BY <1>17, <1>18, <1>19

\* The packets that have been sent or dropped.
Handled(D, S) == D \cup {d[2] : d \in S}

\* The map of a stream from which nothing has been dropped: it expects the
\* packet that follows the last one sent, or still number 0, not far after it.
Unshifted(m, D, S) ==
    /\ m.entries = <<>> /\ D = {}
    /\ \/ S = {} /\ m.next = 0
       \/ \E d \in S, k \in 1..Window :
            /\ m.next = Number(d[2] + k)
            /\ \A x \in S : x[2] <= d[2]
            /\ k = 1 \/ m.next = 0

\* The map of one from which something has been: it expects place n, which
\* follows the last packet sent or dropped.
Shifting(m, D, S, b) ==
    /\ m.entries # <<>> /\ m.delta = Minus(0, Cardinality(D))
    /\ \E n \in Int :
         /\ n - 1 \in Handled(D, S) /\ m.next = Number(n)
         /\ \A q \in Handled(D, S) : q < n
         /\ Ranges(m, D, n, b)

\* What has been sent, under which number.
Sent(D, S) ==
    \A d \in S : d[2] \notin D /\ d[1] = Minus(Number(d[2]), Skipped(D, d[2]))

MapExact(m, D, S, b) == Sent(D, S) /\ (Unshifted(m, D, S) \/ Shifting(m, D, S, b))

\* Map takes the number for one of the same stream.
SameStream(m, s) == IF AtOrBefore(m.next, s) THEN Minus(s, m.next) <= Window
                    ELSE Minus(m.next, s) <= Window

\* The packet is not far from the last one handled.
CloseTo(p, D, S) ==
    \A q \in Handled(D, S) :
        (\A x \in Handled(D, S) : x <= q) => p - q <= 3 * Window /\ q - p <= 3 * Window

(* Before anything has been dropped, packets keep their numbers, and the map
   expects one that comes after them. *)
LEMMA FreshExact ==
    ASSUME NEW m \in Maps, NEW S \in SUBSET (Seqno \X Packets),
           Unshifted(m, {}, S), NEW p \in Packets,
           S # {} => SameStream(m, Number(p)), CloseTo(p, {}, S)
    PROVE  /\ Map(m, Number(p)) = [ok |-> TRUE, seqno |-> Number(p)]
           /\ Unshifted(Mapped(m, Number(p)), {}, S \cup {<<Number(p), p>>})
<1> DEFINE s == Number(p)
           e == <<s, p>>
           S1 == S \cup {e}
<1>0. /\ p \in Int /\ Window \in Nat /\ Window > 0 /\ s \in Seqno /\ s \in Int
      /\ Mod \in Nat /\ Mod = 8 * Window /\ Mod \div 2 = 4 * Window
  BY StreamFacts
<1>1. Fresh(m) /\ m.entries = <<>> BY DEF Unshifted, Fresh, Maps
<1>2. Map(m, s) = [ok |-> TRUE, seqno |-> s] BY <1>1 DEF Map
<1>3. Mapped(m, s) = IF AtOrBefore(m.next, s) \/ Minus(m.next, s) > Window
                     THEN [m EXCEPT !.next = Plus(s, 1)] ELSE m
  BY <1>1 DEF Mapped
<1>4. Plus(s, 1) = Number(p + 1) BY <1>0, NumberPlus
<1>5. /\ \A d \in S : d[2] \in Int
      /\ e \in S1 /\ e[2] = p /\ \A d \in S1 : d \in S \/ d = e
      /\ \A d \in S : d \in S1
  <2>1. \A d \in S : d[2] \in Packets OBVIOUS
  <2>2. \A d \in S : d[2] \in Int BY <2>1, StreamFacts
  <2> HIDE DEF s
  <2> QED BY <2>2
<1> HIDE DEF S1, e
<1>6. ASSUME \A d \in S : d[2] <= p,
             AtOrBefore(m.next, s) \/ Minus(m.next, s) > Window
      PROVE  Unshifted(Mapped(m, s), {}, S1)
  <2>1. Mapped(m, s) = [m EXCEPT !.next = Number(p + 1)] BY <1>3, <1>4, <1>6
  <2>2. Mapped(m, s).next = Number(e[2] + 1) /\ Mapped(m, s).entries = <<>>
    BY <1>1, <1>5, <2>1 DEF Maps
  <2>3. \A d \in S1 : d[2] <= e[2] BY <1>0, <1>5, <1>6
  <2>4. 1 \in 1..Window BY <1>0
  <2> QED BY <1>5, <2>2, <2>3, <2>4 DEF Unshifted
<1>7. ASSUME NEW d \in S1, NEW k \in 1..Window, m.next = Number(d[2] + k),
             \A x \in S1 : x[2] <= d[2], k = 1 \/ m.next = 0,
             ~(AtOrBefore(m.next, s) \/ Minus(m.next, s) > Window)
      PROVE  Unshifted(Mapped(m, s), {}, S1)
  <2>1. Mapped(m, s) = m BY <1>3, <1>7
  <2> QED BY <1>1, <1>7, <2>1 DEF Unshifted
<1>8. ASSUME S = {}, m.next = 0 PROVE Unshifted(Mapped(m, s), {}, S1)
  <2>1. CASE AtOrBefore(m.next, s) \/ Minus(m.next, s) > Window
    <3>1. \A d \in S : d[2] <= p BY <1>8
    <3> HIDE DEF s
    <3> QED BY <1>6, <2>1, <3>1
  <2>2. CASE ~(AtOrBefore(m.next, s) \/ Minus(m.next, s) > Window)
    <3> DEFINE k == Minus(m.next, s)
    <3>1. k \in Seqno /\ k \in Int /\ k >= 0 /\ k <= Window
      <4>1. k \in Seqno /\ k \in Int
        <5>1. s \in Int /\ m.next \in Int BY <1>0, <1>8, SeqnoInt
        <5> HIDE DEF s
        <5> QED BY <5>1, Numbers
      <4>2. k >= 0 BY <4>1, Modulus
      <4>3. ~(k > Window) BY <2>2
      <4> HIDE DEF k
      <4> QED BY <1>0, <4>1, <4>2, <4>3
    <3>2. Number(p + k) = m.next
      <4>1. Number(p + k) = Plus(s, k)
        <5> HIDE DEF k
        <5> QED BY <1>0, <3>1, NumberPlus
      <4>2. Plus(s, Minus(0, s)) = 0 BY <1>0, SeqnoInt, GapClosed
      <4> QED BY <1>8, <4>1, <4>2
    <3>3. k # 0
      <4>1. SUFFICES ASSUME k = 0 PROVE FALSE OBVIOUS
      <4>2. Number(p) = m.next BY <1>0, <3>2, <4>1
      <4>3. AtOrBefore(Number(p), Number(p))
        <5>1. p - p < Mod \div 2 /\ p - p <= Mod \div 2
          <6> HIDE DEF Mod
          <6> QED BY <1>0
        <5> QED BY <1>0, <5>1, NextTo
      <4> QED BY <2>2, <4>2, <4>3
    <3> HIDE DEF k
    <3>4. k \in 1..Window /\ m.next = Number(e[2] + k) BY <1>0, <1>5, <3>1, <3>2, <3>3
    <3>5. \A x \in S1 : x[2] <= e[2] BY <1>0, <1>5, <1>8
    <3> HIDE DEF s
    <3> QED BY <1>5, <1>7, <1>8, <2>2, <3>4, <3>5
  <2> QED BY <2>1, <2>2
<1>9. ASSUME NEW d \in S, NEW k \in 1..Window, m.next = Number(d[2] + k),
             \A x \in S : x[2] <= d[2], k = 1 \/ m.next = 0
      PROVE  Unshifted(Mapped(m, s), {}, S1)
  <2> DEFINE q == d[2]
             n == q + k
  <2>1. q \in Int /\ n \in Int /\ q < n /\ n - q <= Window BY <1>0, <1>5
  <2>2. p - q <= 3 * Window /\ q - p <= 3 * Window
    <3>1. q \in Handled({}, S) /\ \A x \in Handled({}, S) : x <= q
      BY <1>9 DEF Handled
    <3> QED BY <3>1 DEF CloseTo
  <2> HIDE DEF n, q
  <2>3. p - n < Mod \div 2 /\ n - p <= Mod \div 2
    <3> HIDE DEF Mod, s
    <3> QED BY <1>0, <2>1, <2>2
  <2>4. m.next = Number(n) BY <1>9 DEF n, q
  <2>5. /\ AtOrBefore(m.next, s) <=> p >= n
        /\ n >= p => Minus(m.next, s) = n - p
    BY <1>0, <2>1, <2>3, <2>4, NextTo
  <2>6. SameStream(m, s) BY <1>9
  <2>7. CASE p >= n
    <3>1. \A x \in S : x[2] <= p BY <1>0, <1>5, <1>9, <2>1, <2>7 DEF q
    <3> QED BY <1>6, <2>5, <2>7, <3>1
  <2>8. CASE p < n
    <3>1. ~(p >= n) /\ n >= p BY <1>0, <2>1, <2>8
    <3>2. ~AtOrBefore(m.next, s) /\ Minus(m.next, s) = n - p BY <2>5, <3>1
    <3>3. ~(Minus(m.next, s) > Window) /\ n - p <= Window
      BY <1>0, <2>1, <2>6, <3>2 DEF SameStream
    <3>4. CASE p <= q
      <4>1. \A x \in S1 : x[2] <= d[2] BY <1>5, <1>9, <3>4 DEF q
      <4> QED BY <1>5, <1>7, <1>9, <3>2, <3>3, <4>1
    <3>5. CASE q < p
      <4> DEFINE l == n - p
      <4>1. l \in 1..Window /\ p + l = n BY <1>0, <2>1, <2>8, <3>3
      <4>2. m.next = 0
        <5>1. k # 1
          <6>1. k \in Int /\ n = q + k BY DEF n
          <6> QED BY <1>0, <2>1, <2>8, <3>5, <6>1
        <5> QED BY <1>9, <5>1
      <4> HIDE DEF l
      <4>3. m.next = Number(e[2] + l) BY <1>5, <2>4, <4>1
      <4>4. \A x \in S1 : x[2] <= e[2] BY <1>0, <1>5, <1>9, <2>1, <3>5 DEF q
      <4> QED BY <1>5, <1>7, <3>2, <3>3, <4>1, <4>2, <4>3, <4>4
    <3> QED BY <1>0, <2>1, <3>4, <3>5
  <2> QED BY <1>0, <2>1, <2>7, <2>8
<1>10. Unshifted(Mapped(m, s), {}, S1)
  <2>1. \/ S = {} /\ m.next = 0
        \/ \E d \in S, k \in 1..Window :
             /\ m.next = Number(d[2] + k)
             /\ \A x \in S : x[2] <= d[2]
             /\ k = 1 \/ m.next = 0
    BY DEF Unshifted
  <2> QED BY <1>8, <1>9, <2>1
<1> QED BY <1>2, <1>10 DEF S1, e

(* An interval that is near is also less far. *)
LEMMA RangesWider ==
    ASSUME NEW m, NEW D, NEW n \in Int, NEW a \in Int, NEW b \in Int, a <= b, Ranges(m, D, n, a)
    PROVE  Ranges(m, D, n, b)
<1> SUFFICES ASSUME NEW i \in DOMAIN m.entries
             PROVE  \E f \in Int, c \in Nat :
                      /\ Covers(D, m.entries[i], f, c)
                      /\ f >= n - b /\ f + m.entries[i].count <= n
                      /\ i = m.last => c + (n - (f + m.entries[i].count)) = Cardinality(D)
  BY DEF Ranges
<1>1. PICK f \in Int, c \in Nat :
        /\ Covers(D, m.entries[i], f, c)
        /\ f >= n - a /\ f + m.entries[i].count <= n
        /\ i = m.last => c + (n - (f + m.entries[i].count)) = Cardinality(D)
  BY DEF Ranges
<1>2. f >= n - b BY <1>1
<1> QED BY <1>1, <1>2

(* Once something has been dropped, packets are numbered by what has been
   before them, whether they come in order or late. *)
LEMMA ShiftedExact ==
    ASSUME NEW m \in Maps, NEW D \in SUBSET Packets, NEW S \in SUBSET (Seqno \X Packets),
           Shifting(m, D, S, 3 * Window), NEW p \in Packets,
           SameStream(m, Number(p)), CloseTo(p, D, S)
    PROVE  LET r == Map(m, Number(p))
           IN  /\ r.ok => p \notin D /\ r.seqno = Minus(Number(p), Skipped(D, p))
               /\ Shifting(Mapped(m, Number(p)), D,
                           IF r.ok THEN S \cup {<<r.seqno, p>>} ELSE S, 4 * Window + 1)
<1> DEFINE s == Number(p)
           r == Map(m, s)
           S1 == IF r.ok THEN S \cup {<<r.seqno, p>>} ELSE S
           b == 4 * Window + 1
<1>0. /\ p \in Int /\ Window \in Nat /\ Window > 0 /\ s \in Seqno
      /\ Mod \in Nat /\ Mod = 8 * Window /\ Mod \div 2 = 4 * Window
  BY StreamFacts
<1>1. PICK n \in Int :
         /\ n - 1 \in Handled(D, S) /\ m.next = Number(n)
         /\ \A q \in Handled(D, S) : q < n
         /\ Ranges(m, D, n, 3 * Window)
  BY DEF Shifting
<1>2. ~Fresh(m) /\ m.entries # <<>> /\ m.delta = Minus(0, Cardinality(D))
  BY DEF Shifting, Fresh
<1>3. \A q \in Handled(D, S) : q \in Int
  <2>1. \A d \in S : d[2] \in Packets OBVIOUS
  <2> QED BY <2>1, StreamFacts DEF Handled
<1>4. p - n < Mod \div 2 /\ n - p <= Mod \div 2
  <2>1. \A q \in Handled(D, S) : q <= n - 1 BY <1>1, <1>3
  <2>2. p - (n - 1) <= 3 * Window /\ (n - 1) - p <= 3 * Window
    BY <1>1, <2>1 DEF CloseTo
  <2> HIDE DEF Mod, s
  <2> QED BY <1>0, <2>2
<1>5. AtOrBefore(m.next, s) <=> p >= n BY <1>0, <1>1, <1>4, NextTo
<1>6. /\ \A q \in Handled(D, S1) : q \in Handled(D, S) \/ q = p
      /\ \A q \in Handled(D, S) : q \in Handled(D, S1)
      /\ r.ok => p \in Handled(D, S1)
  <2>1. <<r.seqno, p>>[2] = p OBVIOUS
  <2> HIDE DEF r, s
  <2> QED BY <2>1 DEF Handled
<1> HIDE DEF S1, r, b
<1>7. CASE p >= n
  <2>1. Minus(s, m.next) = p - n BY <1>0, <1>1, <1>4, <1>7, NextTo
  <2>2. ~(Minus(s, m.next) > Window) /\ p - n <= Window
    <3>1. p - n <= Window BY <1>5, <1>7, <2>1 DEF SameStream
    <3> HIDE DEF Mod, s
    <3> QED BY <1>0, <2>1, <3>1
  <2>3. r.ok /\ r.seqno = Plus(s, m.delta)
    BY <1>2, <1>5, <1>7, <2>2 DEF Map, r
  <2>4. Mapped(m, s) = [AddMapping(m, s) EXCEPT !.next = Plus(s, 1)]
    BY <1>2, <1>5, <1>7, <2>2 DEF Mapped
  <2>5. \A q \in D : q < n /\ q < p /\ q \in Int
    <3>1. \A q \in D : q \in Handled(D, S) BY DEF Handled
    <3>2. \A q \in D : q < n /\ q \in Int BY <1>1, <1>3, <3>1
    <3>3. n \in Int /\ p \in Int /\ n <= p BY <1>0, <1>7
    <3> QED BY <3>2, <3>3
  <2>6. p \notin D /\ Skipped(D, p) = Cardinality(D) /\ Cardinality(D) \in Nat
    <3>1. p \notin D BY <1>0, <2>5
    <3>2. \A q \in D : q < p BY <2>5
    <3> QED BY <1>0, <3>1, <3>2, SkippedFacts
  <2>7. Plus(s, m.delta) = Minus(s, Skipped(D, p))
    <3> DEFINE c == Cardinality(D)
    <3>1. c \in Int /\ p \in Int /\ m.delta = Minus(0, c) /\ Skipped(D, p) = c
      BY <1>0, <1>2, <2>6
    <3> HIDE DEF c
    <3>2. Plus(s, Minus(0, c)) = Number(p - c) /\ Minus(s, c) = Number(p - c)
      BY <3>1, Offsets, NumberMinus
    <3> QED BY <3>1, <3>2
  <2>8. Ranges(AddMapping(m, s), D, p + 1, b)
    <3>1. \A q \in D : q < n BY <2>5
    <3> QED BY <1>1, <1>2, <1>7, <2>2, <3>1, AddMappingExact DEF b
  <2>9. AddMapping(m, s) \in Maps /\ AddMapping(m, s).entries # <<>>
    BY <1>0, <1>2, AddMappingTyped
  <2>10. AddMapping(m, s).delta = m.delta
    <3>1. m \in [next : Seqno, delta : Seqno, last : 1..MaxEntries,
                 entries : Seq(Interval)]
      BY DEF Maps
    <3> QED BY <3>1 DEF AddMapping
  <2> DEFINE k == Mapped(m, s)
  <2>11. /\ k.entries = AddMapping(m, s).entries /\ k.last = AddMapping(m, s).last
         /\ k.delta = m.delta /\ k.next = Number(p + 1)
    <3>1. Plus(s, 1) = Number(p + 1) BY <1>0, NumberPlus
    <3> QED BY <2>4, <2>9, <2>10, <3>1 DEF Maps
  <2> HIDE DEF k
  <2>12. Ranges(k, D, p + 1, b) BY <2>8, <2>11 DEF Ranges
  <2>13. /\ p + 1 \in Int /\ (p + 1) - 1 \in Handled(D, S1)
         /\ \A q \in Handled(D, S1) : q < p + 1
    <3>1. (p + 1) - 1 = p BY <1>0
    <3>2. p \in Handled(D, S1) BY <1>6, <2>3
    <3>3. \A q \in Handled(D, S1) : q < p + 1
      <4> SUFFICES ASSUME NEW q \in Handled(D, S1) PROVE q < p + 1 OBVIOUS
      <4>1. q = p \/ (q < n /\ q \in Int) BY <1>1, <1>3, <1>6
      <4> QED BY <1>0, <1>7, <4>1
    <3> QED BY <1>0, <3>1, <3>2, <3>3
  <2>14. Shifting(k, D, S1, b) BY <1>2, <2>9, <2>11, <2>12, <2>13 DEF Shifting
  <2> QED BY <2>3, <2>6, <2>7, <2>14 DEF k, S1, r, b
<1>8. CASE p < n
  <2>0. ~(p >= n) /\ n >= p BY <1>0, <1>8
  <2>1. Minus(m.next, s) = n - p BY <1>0, <1>1, <1>4, <2>0, NextTo
  <2>2. ~(Minus(m.next, s) > Window) /\ n - p <= Window
    <3>1. n - p <= Window BY <1>5, <2>0, <2>1 DEF SameStream
    <3> HIDE DEF Mod, s
    <3> QED BY <1>0, <2>1, <3>1
  <2>3. r = Direct(m, s) /\ Mapped(m, s) = m
    BY <1>2, <1>5, <2>0, <2>2 DEF Map, Mapped, r
  <2>4. r.ok => p \notin D /\ r.seqno = Minus(s, Skipped(D, p))
    BY <1>1, <1>8, <2>2, <2>3, DirectExact
  <2>5. /\ n - 1 \in Handled(D, S1)
        /\ \A q \in Handled(D, S1) : q < n
    BY <1>1, <1>6, <1>8
  <2>6. Ranges(m, D, n, b)
    <3>1. 3 * Window \in Int /\ b \in Int /\ 3 * Window <= b BY <1>0 DEF b
    <3> QED BY <1>1, <3>1, RangesWider
  <2>7. Shifting(m, D, S1, b) BY <1>1, <1>2, <2>5, <2>6 DEF Shifting
  <2> QED BY <2>3, <2>4, <2>7 DEF S1, r, b
<1> QED BY <1>0, <1>7, <1>8

(* What a goroutine sends is exact. *)
LEMMA WriteExact ==
    ASSUME NEW m \in Maps, NEW D \in SUBSET Packets, NEW S \in SUBSET (Seqno \X Packets),
           MapExact(m, D, S, 3 * Window), NEW p \in Packets,
           Handled(D, S) # {} => SameStream(m, Number(p)), CloseTo(p, D, S)
    PROVE  LET r == Map(m, Number(p))
           IN  MapExact(Mapped(m, Number(p)), D,
                        IF r.ok THEN S \cup {<<r.seqno, p>>} ELSE S, 4 * Window + 1)
<1> DEFINE s == Number(p)
           r == Map(m, s)
           S1 == IF r.ok THEN S \cup {<<r.seqno, p>>} ELSE S
           b == 4 * Window + 1
<1>1. ASSUME r.ok => p \notin D /\ r.seqno = Minus(s, Skipped(D, p))
      PROVE  Sent(D, S1)
  <2>1. Sent(D, S) BY DEF MapExact
  <2>2. <<r.seqno, p>>[1] = r.seqno /\ <<r.seqno, p>>[2] = p OBVIOUS
  <2> HIDE DEF r
  <2> QED BY <1>1, <2>1, <2>2 DEF Sent
<1>2. CASE Unshifted(m, D, S)
  <2>1. D = {} BY <1>2 DEF Unshifted
  <2>2. r = [ok |-> TRUE, seqno |-> s] /\ Unshifted(Mapped(m, s), {}, S \cup {<<s, p>>})
    <3>1. S # {} => SameStream(m, s)
      <4>1. ASSUME NEW d \in S PROVE Handled(D, S) # {} BY DEF Handled
      <4> QED BY <4>1
    <3> QED BY <1>2, <2>1, <3>1, FreshExact
  <2>3. r.ok /\ r.seqno = s /\ S1 = S \cup {<<s, p>>} BY <2>2
  <2>4. Skipped(D, p) = 0
    <3>1. p \in Int BY StreamFacts
    <3> QED BY <2>1, <3>1, SkippedFacts
  <2>5. Minus(s, 0) = s
    <3>1. p \in Int /\ p - 0 = p BY StreamFacts
    <3> QED BY <3>1, NumberMinus
  <2>6. Sent(D, S1) BY <1>1, <2>1, <2>3, <2>4, <2>5
  <2> HIDE DEF r, S1
  <2> QED BY <2>1, <2>2, <2>3, <2>6 DEF MapExact, S1, r
<1>3. CASE Shifting(m, D, S, 3 * Window)
  <2>0. SameStream(m, s) BY <1>3 DEF Shifting
  <2>1. /\ r.ok => p \notin D /\ r.seqno = Minus(s, Skipped(D, p))
        /\ Shifting(Mapped(m, s), D, S1, b)
    BY <1>3, <2>0, ShiftedExact
  <2>2. Sent(D, S1) BY <1>1, <2>1
  <2> QED BY <2>1, <2>2 DEF MapExact
<1> QED BY <1>2, <1>3 DEF MapExact

(* What has been sent stays exact when a later packet is dropped. *)
LEMMA SentLater ==
    ASSUME NEW D \in SUBSET Packets, NEW S \in SUBSET (Seqno \X Packets), Sent(D, S),
           NEW p \in Packets, \A d \in S : d[2] < p
    PROVE  Sent(D \cup {p}, S)
<1> SUFFICES ASSUME NEW d \in S
             PROVE  /\ d[2] \notin D \cup {p}
                    /\ d[1] = Minus(Number(d[2]), Skipped(D \cup {p}, d[2]))
  BY DEF Sent
<1>1. d[2] \in Int /\ p \in Int /\ d[2] < p
  <2>1. \A q \in Packets : q \in Int BY Constants
  <2> QED BY <2>1
<1>2. d[2] \notin D /\ d[1] = Minus(Number(d[2]), Skipped(D, d[2])) BY DEF Sent
<1>3. Skipped(D \cup {p}, d[2]) = Skipped(D, d[2])
  <2>1. p >= d[2] BY <1>1
  <2> QED BY <1>1, <2>1, SkippedFacts
<1>4. d[2] # p BY <1>1
<1> QED BY <1>2, <1>3, <1>4

(* A drop shifts the packets that follow, and no others. *)
LEMMA DropExact ==
    ASSUME NEW m \in Maps, NEW D \in SUBSET Packets, NEW S \in SUBSET (Seqno \X Packets),
           MapExact(m, D, S, 3 * Window), NEW p \in Packets, MayDrop(m, Number(p)),
           CloseTo(p, D, S)
    PROVE  MapExact(Dropped(m, Number(p)), D \cup {p}, S, 4 * Window + 1)
<1> DEFINE s == Number(p)
           k == Dropped(m, s)
           first == [first |-> Minus(s, Window), count |-> Window, delta |-> 0]
           E == D \cup {p}
           b == 4 * Window + 1
<1>0. /\ p \in Int /\ p >= 1 /\ Window \in Nat /\ Window > 0 /\ s \in Seqno
      /\ p + 1 \in Int /\ (p + 1) - 1 = p
  BY StreamFacts
<1>1. /\ k.next = Number(p + 1) /\ k.delta = Minus(m.delta, 1) /\ k.last = m.last
      /\ k.entries = IF m.entries # <<>> THEN m.entries ELSE <<first>>
  <2>1. Plus(s, 1) = Number(p + 1) BY <1>0, NumberPlus
  <2> HIDE DEF s, first
  <2> QED BY <2>1 DEF Dropped, Maps, first
<1> HIDE DEF k, first, b
<1>2. \A d \in S : d[2] \in Int
  <2>1. \A d \in S : d[2] \in Packets OBVIOUS
  <2> QED BY <2>1, StreamFacts
<1>3. \A q \in D : q \in Int BY StreamFacts
<1>4. ASSUME \A q \in D : q < p
      PROVE  Cardinality(E) = Cardinality(D) + 1 /\ Cardinality(D) \in Nat
  <2>1. p \notin D BY <1>0, <1>4
  <2>2. IsFiniteSet(D) /\ Cardinality(D) \in Nat BY <1>0, SkippedFacts
  <2> QED BY <2>1, <2>2, FS_AddElement
<1>5. ASSUME \A d \in S : d[2] < p PROVE Sent(E, S)
  BY <1>5, SentLater DEF MapExact
<1>6. ASSUME \A q \in Handled(D, S) : q < p
      PROVE  /\ p \in Handled(E, S) /\ \A q \in Handled(E, S) : q < p + 1
             /\ (\A q \in D : q < p) /\ (\A d \in S : d[2] < p)
  <2>1. \A q \in Handled(D, S) : q \in Int BY <1>2, <1>3 DEF Handled
  <2>2. \A q \in Handled(E, S) : q = p \/ q \in Handled(D, S) BY DEF Handled
  <2>3. \A q \in Handled(E, S) : q < p + 1
    <3> SUFFICES ASSUME NEW q \in Handled(E, S) PROVE q < p + 1 OBVIOUS
    <3>1. q = p \/ (q \in Int /\ q < p) BY <1>6, <2>1, <2>2
    <3> QED BY <1>0, <3>1
  <2>4. p \in Handled(E, S) /\ (\A q \in D : q \in Handled(D, S))
        /\ (\A d \in S : d[2] \in Handled(D, S))
    BY DEF Handled
  <2> QED BY <1>6, <2>3, <2>4
<1>7. ASSUME NEW n \in Int, m.next = Number(n), NEW q \in Handled(D, S),
             \A x \in Handled(D, S) : x <= q, q < n, n - q <= Window
      PROVE  n = p
  <2>1. p - q <= 3 * Window /\ q - p <= 3 * Window BY <1>7 DEF CloseTo
  <2>2. q \in Int BY <1>2, <1>3 DEF Handled
  <2>3. n - p < Mod /\ p - n < Mod
    <3>1. n - p < 8 * Window /\ p - n < 8 * Window
      <4> HIDE DEF s
      <4> QED BY <1>0, <1>7, <2>1, <2>2
    <3> QED BY <3>1 DEF Mod
  <2>4. Number(n) = Number(p) BY <1>7 DEF MayDrop
  <2> QED BY <1>0, <2>3, <2>4, SameNumber
<1>8. ASSUME Unshifted(m, D, S)
      PROVE  MapExact(k, E, S, b)
  <2>1. m.entries = <<>> /\ D = {} /\ m.delta = 0 /\ m.last = 1
    BY <1>8 DEF Unshifted, Maps
  <2>2. \A q \in Handled(D, S) : q < p
    <3>1. CASE S = {} BY <2>1, <3>1 DEF Handled
    <3>2. CASE S # {}
      <4>1. PICK d \in S, a \in 1..Window :
               m.next = Number(d[2] + a) /\ \A x \in S : x[2] <= d[2]
        BY <1>8, <3>2 DEF Unshifted
      <4> DEFINE q == d[2]
                 n == q + a
      <4>2. q \in Int /\ n \in Int /\ q < n /\ n - q <= Window BY <1>0, <1>2
      <4>3. q \in Handled(D, S) /\ \A x \in Handled(D, S) : x <= q
        BY <2>1, <4>1 DEF Handled
      <4> HIDE DEF q
      <4>4. m.next = Number(n) BY <4>1 DEF q
      <4> HIDE DEF n
      <4>5. n = p BY <1>7, <4>2, <4>3, <4>4
      <4>6. \A x \in Handled(D, S) : x \in Int BY <1>2, <1>3 DEF Handled
      <4> QED BY <4>2, <4>3, <4>5, <4>6
    <3> QED BY <3>1, <3>2
  <2>3. /\ p \in Handled(E, S) /\ \A q \in Handled(E, S) : q < p + 1
        /\ (\A q \in D : q < p) /\ (\A d \in S : d[2] < p)
    BY <1>6, <2>2
  <2>4. Cardinality(E) = 1
    <3>1. Cardinality(D) = 0 BY <2>1, FS_EmptySet
    <3> HIDE DEF E
    <3> QED BY <1>4, <2>3, <3>1
  <2>5. first.count = Window /\ first.first = Number(p - Window)
        /\ first.delta = Minus(0, 0)
    <3>1. Minus(s, Window) = Number(p - Window) BY <1>0, NumberMinus
    <3>2. Minus(0, 0) = 0
      <4>1. 0 - 0 = Mod * 0 + 0 /\ Mod \in Int /\ Mod > 0 /\ 0 \in 0..(Mod - 1)
        <5>1. Mod \in Nat /\ Mod > 0 BY Modulus
        <5> HIDE DEF Mod
        <5> QED BY <5>1
      <4>2. (Mod * 0 + 0) % Mod = 0 BY <4>1, Remainder
      <4> QED BY <4>1, <4>2 DEF Minus
    <3> QED BY <3>1, <3>2 DEF first
  <2>6. ASSUME NEW q \in (p - Window)..(p - Window + Window - 1)
        PROVE  q \notin E /\ Skipped(E, q) = 0
    <3>1. q \in Int /\ q < p BY <1>0, <2>6
    <3>2. E = {p} BY <2>1
    <3>3. E \in SUBSET Packets /\ \A x \in E : x >= q BY <1>0, <3>1, <3>2
    <3> HIDE DEF E
    <3>4. Skipped(E, q) = 0 BY <3>1, <3>3, SkippedFacts
    <3>5. q \notin E BY <3>1, <3>2
    <3> QED BY <3>4, <3>5
  <2>7. /\ Covers(E, first, p - Window, 0)
        /\ p - Window >= (p + 1) - b /\ p - Window + first.count <= p + 1
        /\ 0 + ((p + 1) - (p - Window + first.count)) = Cardinality(E)
        /\ p - Window \in Int
    <3>1. /\ p - Window >= 1 - Window /\ p - Window + Window <= p + 1
          /\ p - Window >= (p + 1) - b
          /\ 0 + ((p + 1) - (p - Window + Window)) = 1 /\ p - Window \in Int
      <4> HIDE DEF s
      <4> QED BY <1>0 DEF b
    <3> HIDE DEF E
    <3> QED BY <2>4, <2>5, <2>6, <3>1 DEF Covers
  <2>8. k.entries = <<first>> /\ k.last = 1 /\ k.entries # <<>>
        /\ DOMAIN k.entries = {1} /\ k.entries[1] = first
    BY <1>1, <2>1
  <2>9. Ranges(k, E, p + 1, b)
    <3> HIDE DEF E
    <3> QED BY <2>7, <2>8 DEF Ranges
  <2>10. k.delta = Minus(0, Cardinality(E))
    BY <1>1, <2>1, <2>4
  <2>11. Shifting(k, E, S, b)
    <3>1. (p + 1) - 1 \in Handled(E, S) BY <1>0, <2>3
    <3> HIDE DEF E
    <3> QED BY <1>0, <1>1, <2>3, <2>8, <2>9, <2>10, <3>1 DEF Shifting
  <2>12. Sent(E, S) BY <1>5, <2>3
  <2> QED BY <2>11, <2>12 DEF MapExact
<1>9. ASSUME Shifting(m, D, S, 3 * Window)
      PROVE  MapExact(k, E, S, b)
  <2>1. PICK n \in Int :
           /\ n - 1 \in Handled(D, S) /\ m.next = Number(n)
           /\ \A q \in Handled(D, S) : q < n
           /\ Ranges(m, D, n, 3 * Window)
    BY <1>9 DEF Shifting
  <2>2. n = p
    <3>1. \A q \in Handled(D, S) : q \in Int BY <1>2, <1>3 DEF Handled
    <3>2. \A q \in Handled(D, S) : q <= n - 1 BY <2>1, <3>1
    <3>3. n - 1 < n /\ n - (n - 1) <= Window BY <1>0
    <3> QED BY <1>7, <2>1, <3>2, <3>3
  <2>3. /\ p \in Handled(E, S) /\ \A q \in Handled(E, S) : q < p + 1
        /\ (\A q \in D : q < p) /\ (\A d \in S : d[2] < p)
    BY <1>6, <2>1, <2>2
  <2>4. Cardinality(E) = Cardinality(D) + 1 /\ Cardinality(D) \in Nat
    BY <1>4, <2>3
  <2>5. k.entries = m.entries /\ m.entries # <<>> BY <1>1, <1>9 DEF Shifting
  <2>6. k.delta = Minus(0, Cardinality(E))
    <3>1. m.delta = Minus(0, Cardinality(D)) BY <1>9 DEF Shifting
    <3>2. Minus(Minus(0, Cardinality(D)), 1) = Minus(0, Cardinality(D) + 1)
      BY <2>4, Offsets
    <3> QED BY <1>1, <2>4, <3>1, <3>2
  <2>7. ASSUME NEW i \in DOMAIN m.entries
        PROVE  \E f \in Int, c \in Nat :
                 /\ Covers(E, m.entries[i], f, c)
                 /\ f >= (p + 1) - b /\ f + m.entries[i].count <= p + 1
                 /\ i = m.last
                    => c + ((p + 1) - (f + m.entries[i].count)) = Cardinality(E)
    <3> DEFINE x == m.entries[i].count
               y == Cardinality(D)
               z == Cardinality(E)
    <3>1. PICK f \in Int, c \in Nat :
            /\ Covers(D, m.entries[i], f, c)
            /\ f >= p - 3 * Window /\ f + x <= p
            /\ i = m.last => c + (p - (f + x)) = y
      BY <2>1, <2>2 DEF Ranges
    <3>2. m.entries[i] \in Interval /\ x \in Int BY IntervalTyped
    <3>3. Covers(E, m.entries[i], f, c) BY <1>0, <3>1, <3>2, CoversLater
    <3>4. y \in Nat /\ z = y + 1 BY <2>4
    <3> HIDE DEF E, x, y, z, s
    <3>5. /\ f >= (p + 1) - b /\ f + x <= p + 1
          /\ i = m.last => c + ((p + 1) - (f + x)) = z
      BY <1>0, <3>1, <3>2, <3>4 DEF b
    <3> QED BY <3>3, <3>5 DEF x, z
  <2>8. Ranges(k, E, p + 1, b) BY <1>1, <2>5, <2>7 DEF Ranges
  <2>9. Shifting(k, E, S, b)
    <3>1. (p + 1) - 1 \in Handled(E, S) BY <1>0, <2>3
    <3> HIDE DEF E
    <3> QED BY <1>0, <1>1, <2>3, <2>5, <2>6, <2>8, <3>1 DEF Shifting
  <2>10. Sent(E, S) BY <1>5, <2>3
  <2> QED BY <2>9, <2>10 DEF MapExact
<1> QED BY <1>8, <1>9 DEF MapExact, k, s, b

\* The intervals that the map remembers are recent.
RecentIntervals(m) ==
    \A i \in DOMAIN m.entries : Minus(m.next, m.entries[i].first) <= 3 * Window

(* Their number tells how far they are. *)
LEMMA Tightened ==
    ASSUME NEW m \in Maps, NEW D \in SUBSET Packets, NEW S \in SUBSET (Seqno \X Packets),
           MapExact(m, D, S, 4 * Window + 1), RecentIntervals(m)
    PROVE  MapExact(m, D, S, 3 * Window)
<1>0. Window \in Nat /\ Window > 0 /\ Mod \in Nat /\ Mod = 8 * Window
  BY StreamFacts
<1>1. ASSUME NEW n \in Int, m.next = Number(n), Ranges(m, D, n, 4 * Window + 1)
      PROVE  Ranges(m, D, n, 3 * Window)
  <2> SUFFICES ASSUME NEW i \in DOMAIN m.entries
               PROVE  \E f \in Int, c \in Nat :
                        /\ Covers(D, m.entries[i], f, c)
                        /\ f >= n - 3 * Window /\ f + m.entries[i].count <= n
                        /\ i = m.last
                           => c + (n - (f + m.entries[i].count)) = Cardinality(D)
    BY DEF Ranges
  <2> DEFINE x == m.entries[i].count
  <2>1. PICK f \in Int, c \in Nat :
          /\ Covers(D, m.entries[i], f, c)
          /\ f >= n - (4 * Window + 1) /\ f + x <= n
          /\ i = m.last => c + (n - (f + x)) = Cardinality(D)
    BY <1>1 DEF Ranges
  <2>2. x \in Int /\ x >= 0
    <3>1. m.entries[i] \in Interval BY IntervalTyped
    <3> QED BY <3>1, Modulus DEF Interval
  <2> HIDE DEF x
  <2>3. n - f \in 0..(Mod - 1)
    <3> HIDE DEF Mod
    <3> QED BY <1>0, <2>1, <2>2
  <2>4. Minus(m.next, m.entries[i].first) = n - f
    BY <1>1, <2>1, <2>3, NumberMinus DEF Covers
  <2>5. n - f <= 3 * Window BY <2>4 DEF RecentIntervals
  <2>6. f >= n - 3 * Window
    <3> HIDE DEF Mod
    <3> QED BY <1>0, <2>5
  <2> QED BY <2>1, <2>6 DEF x
<1>2. ASSUME Shifting(m, D, S, 4 * Window + 1) PROVE Shifting(m, D, S, 3 * Window)
  BY <1>1, <1>2 DEF Shifting
<1> QED BY <1>2 DEF MapExact

\* What goroutines have in hand, and what they may take.
InHand == {hand[t] : t \in Threads} \ {NoPacket}
Cached == {cache.entries[i].packet : i \in DOMAIN cache.entries} \ {NoPacket}

(* The stream is steady: once something has been handled, the map takes no
   packet in hand for one of another stream; the packets in hand or in the
   cache are at most three windows away from the last one handled, and the
   intervals of the map begin at most as far before next. *)
Steady ==
    /\ Handled(dropped, delivered) # {} => \A p \in InHand : SameStream(map, Number(p))
    /\ \A p \in InHand \cup Cached : CloseTo(p, dropped, delivered)
    /\ RecentIntervals(map)

\* What is handled has been received.
Origin ==
    /\ Handled(dropped, delivered) \subseteq received
    /\ \A t \in Threads : hand[t] \in received \cup {NoPacket}

(* What is taken is in the cache. *)
LEMMA TakenCached ==
    ASSUME cache \in Rings, NEW s
    PROVE  /\ Get(cache, s) \in Cached \cup {NoPacket}
           /\ \A i \in Nat : GetAt(cache, s, i) \in Cached \cup {NoPacket}
           /\ Cached \subseteq Packets
           /\ Aged => Cached \subseteq received
<1> DEFINE n == Capacity(cache)
<1>1. n \in Nat /\ DOMAIN cache.entries = 1..n /\ cache.entries \in Seq(Entry)
  BY RingFacts
<1>2. \A i \in 1..n : cache.entries[i].packet \in Cached \cup {NoPacket}
  BY <1>1 DEF Cached
<1>3. \A k \in 1..n : Slot(cache, k) \in 1..n BY RingFacts
<1>4. \A i \in 1..n : \E k \in 1..n : i = Slot(cache, k) BY RingFacts
<1>5. Get(cache, s) \in Cached \cup {NoPacket}
  <2>1. CASE Get(cache, s) = NoPacket BY <2>1
  <2>2. CASE Get(cache, s) # NoPacket
    <3>1. PICK k \in 1..n : Back(cache, k).packet = Get(cache, s) BY <2>2, Found
    <3>2. Back(cache, k) = cache.entries[Slot(cache, k)] BY DEF Back
    <3> HIDE DEF n
    <3> QED BY <1>2, <1>3, <3>1, <3>2
  <2> QED BY <2>1, <2>2
<1>6. ASSUME NEW i \in Nat PROVE GetAt(cache, s, i) \in Cached \cup {NoPacket}
  <2>1. ~(i >= n) => cache.entries[i + 1].packet \in Cached \cup {NoPacket}
    <3> HIDE DEF n
    <3> QED BY <1>1, <1>2
  <2> QED BY <2>1 DEF GetAt
<1>7. ASSUME NEW p \in Cached
      PROVE  p # NoPacket /\ \E i \in 1..n : p = cache.entries[i].packet
  BY <1>1 DEF Cached
<1>8. Cached \subseteq Packets
  <2> SUFFICES ASSUME NEW p \in Cached PROVE p \in Packets OBVIOUS
  <2>1. PICK i \in 1..n : p = cache.entries[i].packet BY <1>7
  <2>2. cache.entries[i] \in Entry BY <1>1
  <2> QED BY <1>7, <2>1, <2>2 DEF Entry
<1>9. ASSUME Aged PROVE Cached \subseteq received
  <2> SUFFICES ASSUME NEW p \in Cached PROVE p \in received OBVIOUS
  <2>1. PICK i \in 1..n : p = cache.entries[i].packet BY <1>7
  <2>2. PICK k \in 1..n : i = Slot(cache, k) BY <1>4
  <2>3. Back(cache, k).packet = p BY <2>1, <2>2 DEF Back
  <2> QED BY <1>7, <1>9, <2>3 DEF Aged
<1> QED BY <1>5, <1>6, <1>8, <1>9

(* What a step does to the numbering: nothing, or a goroutine takes a packet
   from the cache, or writes the one it has in hand. *)
LEMMA NumberingSteps ==
    ASSUME TypeInv, [Next]_vars
    PROVE  \/ UNCHANGED <<map, dropped, delivered, hand>> /\ received \subseteq received'
           \/ /\ \E t \in Threads, p \in Cached \cup {NoPacket} : Take(t, p)
              /\ received' = received
           \/ (\E t \in Threads : Write(t)) /\ received' = received
<1> USE DEF readerVars, trackVars, nackVars
<1>0. cache \in Rings BY DEF TypeInv
<1>1. CASE WriterTakes
  <2>1. queue # <<>> /\ queue \in Seq(Requests) BY <1>1 DEF WriterTakes, TypeInv
  <2>2. Head(queue) \in Requests BY <2>1
  <2>3. GetAt(cache, Head(queue).seqno, Head(queue).index) \in Cached \cup {NoPacket}
    BY <1>0, <2>2, TakenCached DEF Requests
  <2> QED BY <1>1, <2>3 DEF WriterTakes, Threads
<1>2. CASE SequenceTakes
  <2>1. Get(cache, sequence.at) \in Cached \cup {NoPacket} BY <1>0, TakenCached
  <2> QED BY <1>2, <2>1 DEF SequenceTakes, Threads
<1>3. CASE \E t \in Known : GotNACK(t)
  <2>1. PICK t \in Known : GotNACK(t) BY <1>3
  <2>2. Get(cache, Reverse(map, t).seqno) \in Cached \cup {NoPacket}
    BY <1>0, TakenCached
  <2> QED BY <2>1, <2>2 DEF GotNACK, Threads
<1>4. CASE \E p \in Packets : Read(p) BY <1>4 DEF Read
<1>5. CASE UpdateUpTrack BY <1>5 DEF UpdateUpTrack
<1>6. CASE AddTrack \/ FindLast \/ StartSequence
  BY <1>6 DEF AddTrack, FindLast, StartSequence
<1>7. CASE NackWriter BY <1>7 DEF NackWriter
<1>8. CASE \E t \in Threads : Write(t) BY <1>8 DEF Write
<1>9. CASE UNCHANGED vars BY <1>9 DEF vars
<1> QED BY <1>1, <1>2, <1>3, <1>4, <1>5, <1>6, <1>7, <1>8, <1>9 DEF Next

(* What taking a packet does. *)
LEMMA TakeEffect ==
    ASSUME NEW t \in Threads, NEW p, Take(t, p)
    PROVE  /\ delivered' = delivered
           /\ \/ UNCHANGED <<map, dropped, hand>>
              \/ UNCHANGED <<map, dropped>> /\ p # NoPacket /\ Hold(t, p)
              \/ /\ p # NoPacket /\ MayDrop(map, Number(p)) /\ hand' = hand
                 /\ map' = Dropped(map, Number(p)) /\ dropped' = dropped \cup {p}
<1>1. CASE p = NoPacket BY <1>1 DEF Take
<1>2. CASE p # NoPacket BY <1>2 DEF Take, CheckLayer
<1> QED BY <1>1, <1>2

(* Only what has been received is in the cache, taken, sent or dropped. *)
LEMMA OriginAlways == Spec => []Origin
<1>1. Init => Origin
  BY DEF Init, Origin, Handled
<1>2. TypeInv /\ Aged /\ Origin /\ [Next]_vars => Origin'
  <2> SUFFICES ASSUME TypeInv, Aged, Origin, [Next]_vars PROVE Origin' OBVIOUS
  <2>0. /\ hand \in [Threads -> Packets \cup {NoPacket}]
        /\ Cached \subseteq received
    BY TakenCached DEF TypeInv
  <2>1. CASE UNCHANGED <<map, dropped, delivered, hand>> /\ received \subseteq received'
    BY <2>1 DEF Origin, Handled
  <2>2. ASSUME NEW t \in Threads, NEW p \in Cached \cup {NoPacket}, Take(t, p),
               received' = received
        PROVE  Origin'
    <3>1. p # NoPacket => p \in received BY <2>0
    <3>2. CASE UNCHANGED <<map, dropped, hand, delivered>>
      BY <2>2, <3>2 DEF Origin, Handled
    <3>3. CASE UNCHANGED <<map, dropped, delivered>> /\ p # NoPacket /\ Hold(t, p)
      BY <2>0, <2>2, <3>1, <3>3 DEF Origin, Handled, Hold
    <3>4. CASE /\ p # NoPacket /\ hand' = hand /\ delivered' = delivered
               /\ dropped' = dropped \cup {p}
      BY <2>2, <3>1, <3>4 DEF Origin, Handled
    <3> QED BY <2>2, <3>2, <3>3, <3>4, TakeEffect
  <2>3. ASSUME NEW t \in Threads, Write(t), received' = received PROVE Origin'
    <3> DEFINE p == hand[t]
               r == Map(map, Number(p))
    <3>1. p \in received BY <2>3 DEF Origin, Write
    <3>2. /\ dropped' = dropped /\ hand' = [hand EXCEPT ![t] = NoPacket]
          /\ delivered' = IF r.ok THEN delivered \cup {<<r.seqno, p>>} ELSE delivered
      BY <2>3 DEF Write, Hold
    <3>3. <<r.seqno, p>>[2] = p OBVIOUS
    <3> HIDE DEF p, r
    <3>4. Handled(dropped', delivered') \subseteq received
      BY <3>1, <3>2, <3>3 DEF Origin, Handled
    <3>5. \A u \in Threads : hand'[u] \in received \cup {NoPacket}
      BY <2>0, <3>2 DEF Origin
    <3> QED BY <2>3, <3>4, <3>5 DEF Origin, Handled
  <2> QED BY <2>1, <2>2, <2>3, NumberingSteps
<1> QED BY <1>1, <1>2, OrderedAlways, PTL DEF Spec

\* The invariant of the numbering.
Exact == MapExact(map, dropped, delivered, 4 * Window + 1)

(* The numbering stays exact with every step of a stream that is steady. *)
LEMMA ExactStep ==
    ASSUME TypeInv, Steady, Exact, [Next]_vars
    PROVE  Exact'
<1> DEFINE b == 4 * Window + 1
<1>0. map \in Maps /\ dropped \in SUBSET Packets /\ delivered \in SUBSET (Seqno \X Packets)
      /\ hand \in [Threads -> Packets \cup {NoPacket}]
  BY DEF TypeInv
<1>1. MapExact(map, dropped, delivered, 3 * Window)
  BY <1>0, Tightened DEF Exact, Steady
<1>2. ASSUME MapExact(map', dropped', delivered', b) PROVE Exact'
  BY <1>2 DEF Exact, MapExact, Sent, Unshifted, Shifting, Ranges, Handled
<1>3. CASE UNCHANGED <<map, dropped, delivered>>
  <2>1. MapExact(map', dropped', delivered', b) BY <1>3 DEF Exact
  <2> QED BY <1>2, <2>1
<1>4. ASSUME NEW t \in Threads, NEW p \in Cached \cup {NoPacket}, Take(t, p)
      PROVE  Exact'
  <2>1. CASE UNCHANGED <<map, dropped, delivered>> BY <1>3, <2>1
  <2>2. CASE /\ p # NoPacket /\ MayDrop(map, Number(p)) /\ delivered' = delivered
             /\ map' = Dropped(map, Number(p)) /\ dropped' = dropped \cup {p}
    <3>1. p \in Packets /\ p \in Cached BY <1>4, <2>2, TakenCached DEF TypeInv
    <3>2. CloseTo(p, dropped, delivered) BY <3>1 DEF Steady
    <3>3. MapExact(Dropped(map, Number(p)), dropped \cup {p}, delivered, b)
      BY <1>0, <1>1, <2>2, <3>1, <3>2, DropExact
    <3>4. MapExact(map', dropped', delivered', b) BY <2>2, <3>3
    <3> QED BY <1>2, <3>4
  <2> QED BY <1>4, <2>1, <2>2, TakeEffect
<1>5. ASSUME NEW t \in Threads, Write(t) PROVE Exact'
  <2> DEFINE p == hand[t]
             r == Map(map, Number(p))
  <2>1. p \in Packets /\ p \in InHand BY <1>0, <1>5 DEF Write, InHand
  <2>2. /\ map' = Mapped(map, Number(p)) /\ dropped' = dropped
        /\ delivered' = IF r.ok THEN delivered \cup {<<r.seqno, p>>} ELSE delivered
    BY <1>5 DEF Write
  <2>3. /\ Handled(dropped, delivered) # {} => SameStream(map, Number(p))
        /\ CloseTo(p, dropped, delivered)
    BY <2>1 DEF Steady
  <2> HIDE DEF p
  <2>4. MapExact(Mapped(map, Number(p)), dropped,
                 IF r.ok THEN delivered \cup {<<r.seqno, p>>} ELSE delivered, b)
    BY <1>0, <1>1, <2>1, <2>3, WriteExact
  <2>5. MapExact(map', dropped', delivered', b) BY <2>2, <2>4
  <2> QED BY <1>2, <2>5
<1>6. CASE UNCHANGED <<map, dropped, delivered, hand>>
  BY <1>3, <1>6
<1> QED BY <1>4, <1>5, <1>6, NumberingSteps

(* At the beginning it is. *)
LEMMA ExactInit == Init => Exact
  BY DEF Init, Exact, MapExact, Sent, Unshifted, NewMap

(* It is as the receiver's numbers should be. *)
LEMMA NumberingFollows == Exact => NumberingExact
  BY DEF Exact, MapExact, Sent, NumberingExact, Skipped

(* ... and retransmissions find what was sent. *)
LEMMA RetransmissionFollows ==
    TypeInv /\ Origin /\ Steady /\ Exact => RetransmissionExact
<1> SUFFICES ASSUME TypeInv, Origin, Steady, Exact, NEW d \in delivered,
                    Reverse(map, d[1]).ok, \A q \in received : q <= d[2] + Window
             PROVE  Reverse(map, d[1]).seqno = Number(d[2])
  BY DEF RetransmissionExact
<1>1. map \in Maps /\ dropped \in SUBSET Packets /\ d[2] \in Packets
      /\ delivered \in SUBSET (Seqno \X Packets)
  BY DEF TypeInv
<1>2. MapExact(map, dropped, delivered, 3 * Window)
  BY <1>1, Tightened DEF Exact, Steady
<1>3. d[2] \notin dropped /\ d[1] = Minus(Number(d[2]), Skipped(dropped, d[2]))
  BY <1>2 DEF MapExact, Sent
<1>4. d[2] \in Int BY <1>1, StreamFacts
<1> DEFINE p == d[2]
<1> HIDE DEF p
<1>5. p \in Packets /\ p \in Int /\ p \notin dropped
      /\ d[1] = Minus(Number(p), Skipped(dropped, p))
  BY <1>1, <1>3, <1>4 DEF p
<1>6. CASE Unshifted(map, dropped, delivered)
  <2>1. dropped = {} /\ Fresh(map) BY <1>1, <1>6 DEF Unshifted, Fresh, Maps
  <2>2. Skipped(dropped, p) = 0 BY <1>5, <2>1, SkippedFacts
  <2>3. p - 0 = p /\ 0 \in Int BY <1>5
  <2>4. d[1] = Number(p) BY <1>5, <2>2, <2>3, NumberMinus
  <2>5. Reverse(map, d[1]).seqno = d[1] BY <2>1 DEF Reverse
  <2> QED BY <2>4, <2>5 DEF p
<1>7. CASE Shifting(map, dropped, delivered, 3 * Window)
  <2>1. PICK n \in Int : /\ n - 1 \in Handled(dropped, delivered)
                         /\ \A q \in Handled(dropped, delivered) : q < n
                         /\ Ranges(map, dropped, n, 3 * Window)
    BY <1>7 DEF Shifting
  <2>2. map.entries # <<>> BY <1>7 DEF Shifting
  <2>3. p < n BY <2>1 DEF Handled, p
  <2>4. n - 1 <= p + Window BY <2>1 DEF Origin, p
  <2>5. n - p <= Window + 1
    <3>1. Window \in Nat BY StreamFacts
    <3> QED BY <1>5, <2>4, <3>1
  <2>6. Reverse(map, d[1]).seqno = Number(p)
    BY <1>1, <1>5, <2>1, <2>2, <2>3, <2>5, ReverseExact
  <2> QED BY <2>6 DEF p
<1> QED BY <1>2, <1>6, <1>7 DEF MapExact

(* The invariant of the numbering. *)
LEMMA ExactAlways == Spec /\ []Steady => []Exact
<1>1. TypeInv /\ Steady /\ Exact /\ [Next]_vars => Exact'
  BY ExactStep
<1> QED BY <1>1, ExactInit, Typed, PTL DEF Spec

(* Packets are sent under the publisher's numbers less what has been dropped
   on purpose before them, as long as the stream is steady: packetmap.Map,
   direct, addMapping and Drop, whichever goroutines call them in between, for
   packets in order, late, in the initial sequence and again. *)
THEOREM NumbersExact == Spec /\ []Steady => []NumberingExact
  BY ExactAlways, NumberingFollows, PTL

(* In such a stream, a number that the receiver asks for is taken for that of
   the packet that was sent under it: packetmap.Reverse finds that packet, or
   none, although intervals may have been overwritten since. *)
THEOREM RetransmissionsExact == Spec /\ []Steady => []RetransmissionExact
  BY ExactAlways, RetransmissionFollows, OriginAlways, Typed, PTL

(* The stream is short: no longer than the window within which a packet is
   taken for one of the same stream, and no packet but the first is exactly
   that far from number 0, which a new map expects. *)
Short == /\ MaxPacket <= Window
         /\ \A p \in 2..MaxPacket : Number(p) # Mod - Window

(* Such a stream is steady. *)
LEMMA ShortSteady ==
    ASSUME Short, TypeInv, Exact
    PROVE  Steady
<1> DEFINE H == Handled(dropped, delivered)
<1>0. /\ Window \in Nat /\ Window > 0 /\ MaxPacket \in Nat /\ MaxPacket <= Window
      /\ Mod \in Nat /\ Mod = 8 * Window /\ Mod \div 2 = 4 * Window
      /\ \A p \in Packets : p \in Int /\ p >= 1 /\ p <= Window
      /\ Packets = 1..MaxPacket
  <2>1. MaxPacket <= Window BY DEF Short
  <2> QED BY <2>1, StreamFacts
<1>1. map \in Maps /\ dropped \in SUBSET Packets /\ delivered \in SUBSET (Seqno \X Packets)
      /\ InHand \subseteq Packets /\ Cached \subseteq Packets
  BY TakenCached DEF TypeInv, InHand
<1>2. /\ \A q \in H : q \in Packets
      /\ \A d \in delivered : d[2] \in Packets /\ d[2] \in H
  <2>1. \A d \in delivered : d[2] \in Packets BY <1>1
  <2> QED BY <1>1, <2>1 DEF Handled
<1>3. ASSUME NEW p \in Packets, NEW n \in Int, map.next = Number(n),
             n >= 2, n <= 2 * Window, p < n => n - p <= Window
      PROVE  SameStream(map, Number(p))
  <2>1. p - n < Mod \div 2 /\ n - p <= Mod \div 2 /\ p - n <= Window /\ p \in Int
    <3>1. p \in Int /\ p >= 1 /\ p <= Window BY <1>0
    <3> HIDE DEF Mod
    <3> QED BY <1>0, <1>3, <3>1
  <2>2. /\ AtOrBefore(map.next, Number(p)) <=> p >= n
        /\ p >= n => Minus(Number(p), map.next) = p - n
        /\ n >= p => Minus(map.next, Number(p)) = n - p
    BY <1>3, <2>1, NextTo
  <2>3. CASE p >= n BY <2>1, <2>2, <2>3 DEF SameStream
  <2>4. CASE p < n
    <3>1. ~(p >= n) /\ n >= p BY <2>1, <2>4
    <3> QED BY <1>3, <2>2, <2>4, <3>1 DEF SameStream
  <2> QED BY <2>1, <2>3, <2>4
<1>4. ASSUME NEW p \in Packets, NEW n \in Int, n - 1 \in Packets, map.next = Number(n)
      PROVE  SameStream(map, Number(p))
  <2>1. p \in Int /\ p >= 1 /\ n - 1 >= 1 /\ n - 1 <= Window BY <1>0, <1>4
  <2>2. n >= 2 /\ n <= 2 * Window /\ n - p <= Window BY <1>0, <2>1
  <2> QED BY <1>3, <1>4, <2>2
<1>5. ASSUME NEW p \in Packets, NEW d \in Packets, NEW k \in 1..Window,
             map.next = Number(d + k), map.next = 0
      PROVE  SameStream(map, Number(p))
  <2> DEFINE n == d + k
  <2>1. /\ p \in Int /\ p >= 1 /\ d \in Int /\ d >= 1 /\ d <= MaxPacket /\ d <= Window
        /\ k \in Int /\ k >= 1 /\ k <= Window
    BY <1>0
  <2>2. n \in Int /\ n >= 2 /\ n <= 2 * Window /\ n - Window <= MaxPacket
    BY <1>0, <2>1
  <2> HIDE DEF n
  <2>3. map.next = Number(n) /\ Number(n) = 0 BY <1>5 DEF n
  <2>4. n - p <= Window
    <3> SUFFICES ASSUME n - p > Window PROVE FALSE BY <1>0, <2>1, <2>2
    <3>1. n - Window \in 2..MaxPacket BY <1>0, <2>1, <2>2
    <3>2. Number(n - Window) = Minus(0, Window) BY <1>0, <2>2, <2>3, NumberMinus
    <3>3. Minus(0, Window) = Mod - Window
      <4>0. Mod - Window \in 0..(Mod - 1) /\ Mod \in Int /\ Mod > 0 /\ Window \in Int
        <5> HIDE DEF Mod
        <5> QED BY <1>0
      <4> HIDE DEF Mod
      <4>1. (Mod * (-1) + (Mod - Window)) % Mod = Mod - Window BY <4>0, Remainder
      <4>2. Mod * (-1) + (Mod - Window) = 0 - Window BY <4>0
      <4> QED BY <4>1, <4>2 DEF Minus
    <3> QED BY <3>1, <3>2, <3>3 DEF Short
  <2> QED BY <1>3, <2>2, <2>3, <2>4
<1>6. ASSUME H # {}, NEW p \in InHand PROVE SameStream(map, Number(p))
  <2>0. p \in Packets BY <1>1
  <2>1. CASE Unshifted(map, dropped, delivered)
    <3>1. dropped = {} BY <2>1 DEF Unshifted
    <3>2. delivered # {} BY <1>6, <3>1 DEF Handled
    <3>3. PICK d \in delivered, k \in 1..Window :
             map.next = Number(d[2] + k) /\ (k = 1 \/ map.next = 0)
      BY <2>1, <3>2 DEF Unshifted
    <3>4. d[2] \in Packets BY <1>2
    <3>5. CASE k = 1
      <4> DEFINE n == d[2] + 1
      <4>1. n \in Int /\ n - 1 \in Packets
        <5>1. d[2] \in Int BY <1>0, <3>4
        <5>2. n \in Int /\ n - 1 = d[2] BY <5>1
        <5> QED BY <3>4, <5>2
      <4>2. map.next = Number(n) BY <3>3, <3>5
      <4> HIDE DEF n
      <4> QED BY <1>4, <2>0, <4>1, <4>2
    <3>6. CASE map.next = 0 BY <1>5, <2>0, <3>3, <3>4, <3>6
    <3> QED BY <3>3, <3>5, <3>6
  <2>2. CASE Shifting(map, dropped, delivered, 4 * Window + 1)
    <3>1. PICK n \in Int : n - 1 \in H /\ map.next = Number(n) BY <2>2 DEF Shifting
    <3>2. n - 1 \in Packets BY <1>2, <3>1
    <3> QED BY <1>4, <2>0, <3>1, <3>2
  <2> QED BY <2>1, <2>2 DEF Exact, MapExact
<1>7. ASSUME NEW p \in InHand \cup Cached PROVE CloseTo(p, dropped, delivered)
  <2> SUFFICES ASSUME NEW q \in H PROVE p - q <= 3 * Window /\ q - p <= 3 * Window
    BY DEF CloseTo
  <2>1. p \in Packets /\ q \in Packets BY <1>1, <1>2
  <2>2. p \in Int /\ q \in Int /\ p >= 1 /\ q >= 1 /\ p <= Window /\ q <= Window
    BY <1>0, <2>1
  <2> QED BY <1>0, <2>2
<1>8. ASSUME NEW i \in DOMAIN map.entries
      PROVE  Minus(map.next, map.entries[i].first) <= 3 * Window
  <2>1. map.entries # <<>> BY <1>8
  <2>2. Shifting(map, dropped, delivered, 4 * Window + 1)
    BY <2>1 DEF Exact, MapExact, Unshifted
  <2>3. PICK n \in Int : /\ n - 1 \in H /\ map.next = Number(n)
                         /\ Ranges(map, dropped, n, 4 * Window + 1)
    BY <2>2 DEF Shifting
  <2> DEFINE x == map.entries[i].count
  <2>4. PICK f \in Int, c \in Nat :
           Covers(dropped, map.entries[i], f, c) /\ f + x <= n
    BY <2>3 DEF Ranges
  <2>5. f >= 1 - Window /\ map.entries[i].first = Number(f) BY <2>4 DEF Covers
  <2>6. x \in Int /\ x >= 0
    <3>1. map.entries[i] \in Interval BY <1>1, IntervalTyped
    <3> QED BY <3>1, Modulus DEF Interval
  <2> HIDE DEF x
  <2>7. n - 1 >= 1 /\ n - 1 <= Window BY <1>0, <1>2, <2>3
  <2>8. n - f \in 0..(Mod - 1) /\ n - f <= 3 * Window
    <3> HIDE DEF Mod
    <3> QED BY <1>0, <2>4, <2>5, <2>6, <2>7
  <2> QED BY <2>3, <2>5, <2>8, NumberMinus
<1> QED BY <1>6, <1>7, <1>8 DEF Steady, RecentIntervals

(* In a stream of no more packets than the window, the numbering is exact
   without further conditions, and so are retransmissions: the map is never
   reset. *)
THEOREM ShortStreamsExact ==
    Short => (Spec => [](Steady /\ NumberingExact /\ RetransmissionExact))
<1> SUFFICES ASSUME Short
             PROVE  Spec => [](Steady /\ NumberingExact /\ RetransmissionExact)
  OBVIOUS
<1>1. TypeInv /\ Exact => Steady BY ShortSteady
<1>2. TypeInv /\ Exact /\ [Next]_vars => Exact' BY <1>1, ExactStep
<1> HIDE DEF Short
<1> QED
  BY <1>1, <1>2, ExactInit, NumberingFollows, RetransmissionFollows, OriginAlways,
     Typed, PTL DEF Spec
=============================================================================
