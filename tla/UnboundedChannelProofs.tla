----------------------- MODULE UnboundedChannelProofs -----------------------
(* The channel never loses a wakeup, keeps the order of what each producer
   puts, and implements the abstract queue (its safety part), for any set of
   producers and any number of puts. *)
EXTENDS UnboundedChannel, SequenceTheorems, TLAPS

\* The types of all the variables are preserved by every step of Put, of the
\* consumer's receive and of Get.
THEOREM TypeCorrect == Spec => []TypeOK
<1> USE MaxPutsAssumption DEF TypeOK
<1>1. Init => TypeOK
  <2>1. 0 \in 0..MaxPuts
    OBVIOUS
  <2>2. ASSUME Init PROVE puts \in [Producers -> 0..MaxPuts]
    BY <2>1, <2>2 DEF Init
  <2>3. ASSUME Init PROVE queue \in Seq(Item) /\ delivered \in Seq(Item)
    BY <2>3, EmptySeq DEF Init
  <2>4. ASSUME Init PROVE token \in BOOLEAN /\ fetching \in BOOLEAN
    BY <2>4, Zenon DEF Init
  <2>5. ASSUME Init PROVE signalling \subseteq Producers
    BY <2>5 DEF Init
  <2> QED
    BY <2>2, <2>3, <2>4, <2>5
<1>2. TypeOK /\ [Next]_vars => TypeOK'
  <2> SUFFICES ASSUME TypeOK, [Next]_vars PROVE TypeOK'
    OBVIOUS
  <2>1. ASSUME NEW p \in Producers, PutLocked(p) PROVE TypeOK'
    <3>1. puts[p] + 1 \in 1..MaxPuts
      BY <2>1 DEF PutLocked
    <3>2. <<p, puts[p] + 1>> \in Item
      BY <3>1 DEF Item
    <3>3. queue' \in Seq(Item)
      BY <2>1, <3>2 DEF PutLocked
    <3>4. puts' \in [Producers -> 0..MaxPuts]
      BY <2>1, <3>1 DEF PutLocked
    <3> QED
      BY <2>1, <3>3, <3>4 DEF PutLocked
  <2>2. ASSUME NEW p \in Producers, PutSignal(p) PROVE TypeOK'
    BY <2>2 DEF PutSignal
  <2>3. CASE Receive
    BY <2>3 DEF Receive
  <2>4. CASE Get
    <3>1. delivered' \in Seq(Item) /\ queue' \in Seq(Item)
      BY <2>4, ConcatProperties, EmptySeq DEF Get
    <3> QED
      BY <2>4, <3>1 DEF Get
  <2>5. CASE UNCHANGED vars
    BY <2>5 DEF vars
  <2> QED
    BY <2>1, <2>2, <2>3, <2>4, <2>5 DEF Next
<1> QED
  BY <1>1, <1>2, PTL DEF Spec

(* No wakeup is lost.  The invariant is inductive given the types: only a Put
   into an empty queue makes the queue non-empty, and that Put is then due to
   signal; a signal is consumed only by a receive, which is followed by a Get,
   and a Get empties the queue. *)
THEOREM WakeupSafety == Spec => []NoLostWakeup
<1>1. Init => NoLostWakeup
  BY DEF Init, NoLostWakeup
<1>2. TypeOK /\ NoLostWakeup /\ [Next]_vars => NoLostWakeup'
  <2> SUFFICES ASSUME TypeOK, NoLostWakeup, [Next]_vars PROVE NoLostWakeup'
    OBVIOUS
  <2> USE DEF NoLostWakeup
  <2>1. ASSUME NEW p \in Producers, PutLocked(p) PROVE NoLostWakeup'
    BY <2>1 DEF PutLocked
  <2>2. ASSUME NEW p \in Producers, PutSignal(p) PROVE NoLostWakeup'
    BY <2>2 DEF PutSignal
  <2>3. CASE Receive
    BY <2>3 DEF Receive
  <2>4. CASE Get
    BY <2>4 DEF Get
  <2>5. CASE UNCHANGED vars
    BY <2>5 DEF vars
  <2> QED
    BY <2>1, <2>2, <2>3, <2>4, <2>5 DEF Next
<1> QED
  BY <1>1, <1>2, TypeCorrect, PTL DEF Spec

(* What was delivered and what is queued, together, are what the producers put,
   in the order of each.  A Put appends the next element of its producer to
   them, and a Get, whatever Puts it overlaps, moves elements from the one to
   the other and leaves them as they are together. *)
THEOREM OrderKept == Spec => []ProducerOrder
<1> DEFINE all == delivered \o queue
<1>1. Init => ProducerOrder
  <2> SUFFICES ASSUME Init PROVE ProducerOrder
    OBVIOUS
  <2>1. all = <<>>
    BY DEF Init
  <2>2. \A x \in Item : ~(x[2] <= puts[x[1]])
    BY MaxPutsAssumption DEF Init, Item
  <2> QED
    BY <2>1, <2>2 DEF ProducerOrder
<1>2. TypeOK /\ ProducerOrder /\ [Next]_vars => ProducerOrder'
  <2> SUFFICES ASSUME TypeOK, ProducerOrder, [Next]_vars PROVE ProducerOrder'
    OBVIOUS
  <2>1. ASSUME NEW p \in Producers, PutLocked(p) PROVE ProducerOrder'
    <3> DEFINE n == puts[p] + 1
    <3>1. n \in 1..MaxPuts /\ <<p, n>> \in Item
      BY <2>1, MaxPutsAssumption DEF PutLocked, TypeOK, Item
    <3>2. /\ all \in Seq(Item) /\ all' = Append(all, <<p, n>>)
          /\ Len(all) \in Nat /\ DOMAIN all = 1..Len(all)
      BY <2>1, <3>1 DEF PutLocked, TypeOK
    <3>3. /\ DOMAIN all' = 1..(Len(all) + 1)
          /\ \A i \in DOMAIN all : all'[i] = all[i]
          /\ all'[Len(all) + 1] = <<p, n>>
      BY <3>1, <3>2
    <3>4. \A i \in DOMAIN all :
             all[i] \in Item /\ all[i][2] <= puts[all[i][1]]
      BY <3>2 DEF ProducerOrder
    <3>5. puts' = [puts EXCEPT ![p] = n] /\ puts \in [Producers -> 0..MaxPuts]
      BY <2>1 DEF PutLocked, TypeOK
    <3>6. \A i, j \in DOMAIN all' :
             i < j /\ all'[i][1] = all'[j][1] => all'[i][2] < all'[j][2]
      <4>1. \A i \in DOMAIN all : all[i][1] = p => all[i][2] < n
        BY <3>4, <3>5, MaxPutsAssumption DEF Item
      <4>2. \A i, j \in DOMAIN all :
               i < j /\ all[i][1] = all[j][1] => all[i][2] < all[j][2]
        BY DEF ProducerOrder
      <4> HIDE DEF all
      <4> QED
        BY <3>2, <3>3, <4>1, <4>2
    <3>7. {all'[i] : i \in DOMAIN all'} = {all[i] : i \in DOMAIN all} \cup {<<p, n>>}
      <4> HIDE DEF all
      <4> QED
        BY <3>2, <3>3
    <3>8. {x \in Item : x[2] <= puts'[x[1]]}
             = {x \in Item : x[2] <= puts[x[1]]} \cup {<<p, n>>}
      <4>1. ASSUME NEW x \in Item
            PROVE  x[2] <= puts'[x[1]] <=> x[2] <= puts[x[1]] \/ x = <<p, n>>
        <5>1. x[1] \in Producers /\ x[2] \in 1..MaxPuts /\ x = <<x[1], x[2]>>
          BY DEF Item
        <5> QED
          BY <3>1, <3>5, <5>1, MaxPutsAssumption
      <4> QED
        BY <3>1, <4>1
    <3> QED
      BY <3>6, <3>7, <3>8 DEF ProducerOrder
  <2>2. ASSUME NEW p \in Producers, PutSignal(p) PROVE ProducerOrder'
    BY <2>2 DEF PutSignal, ProducerOrder
  <2>3. CASE Receive
    BY <2>3 DEF Receive, ProducerOrder
  <2>4. CASE Get
    <3>1. all' = all /\ puts' = puts
      <4>1. delivered' \o <<>> = delivered'
        BY <2>4 DEF Get, TypeOK
      <4> QED
        BY <2>4, <4>1 DEF Get
    <3> QED
      BY <3>1 DEF ProducerOrder
  <2>5. CASE UNCHANGED vars
    BY <2>5 DEF vars, ProducerOrder
  <2> QED
    BY <2>1, <2>2, <2>3, <2>4, <2>5 DEF Next
<1> QED
  BY <1>1, <1>2, TypeCorrect, PTL DEF Spec

(* Every step of the channel is a step of the abstract queue or leaves it
   unchanged: the first half of Put accepts the element, Get delivers, and the
   signalling is invisible.  A Get of an empty queue is a stutter. *)
THEOREM RefinesFifo == Spec => Abstract!Safety
<1>1. Init => Abstract!Init
  BY DEF Init, Abstract!Init
<1>2. TypeOK /\ TypeOK' /\ [Next]_vars => [Abstract!Next]_(Abstract!vars)
  <2> SUFFICES ASSUME TypeOK, TypeOK', [Next]_vars
               PROVE  Abstract!Next \/ UNCHANGED <<queue, delivered>>
    BY DEF Abstract!vars
  <2>1. ASSUME NEW p \in Producers, PutLocked(p) PROVE Abstract!Next
    <3>1. <<p, puts[p] + 1>> \in Item
      BY <2>1, MaxPutsAssumption DEF PutLocked, TypeOK, Item
    <3>2. Abstract!Accept(<<p, puts[p] + 1>>)
      BY <2>1 DEF PutLocked, Abstract!Accept
    <3> QED
      BY <3>1, <3>2 DEF Abstract!Next
  <2>2. ASSUME NEW p \in Producers, PutSignal(p)
        PROVE  UNCHANGED <<queue, delivered>>
    BY <2>2 DEF PutSignal
  <2>3. CASE Receive
    BY <2>3 DEF Receive
  <2>4. CASE Get
    <3>1. CASE queue = <<>>
      BY <2>4, <3>1 DEF Get, TypeOK
    <3>2. CASE queue # <<>>
      BY <2>4, <3>2 DEF Get, Abstract!Deliver, Abstract!Next
    <3> QED
      BY <3>1, <3>2
  <2>5. CASE UNCHANGED vars
    BY <2>5 DEF vars
  <2> QED
    BY <2>1, <2>2, <2>3, <2>4, <2>5 DEF Next
<1> QED
  BY <1>1, <1>2, TypeCorrect, PTL DEF Spec, Abstract!Safety
=============================================================================
