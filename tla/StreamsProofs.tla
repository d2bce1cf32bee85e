---------------------------- MODULE StreamsProofs ----------------------------
(* Proofs about module Streams, for any clients, streams, tracks and bounds. *)
EXTENDS Streams, SequenceTheorems, FiniteSetTheorems, TLAPS

(***************************************************************************)
(* What the actions are made of.                                           *)
(***************************************************************************)

(* A down connection remains one, whatever is negotiated. *)
LEMMA DownTyping ==
    /\ NoDown \in Down /\ NewDown \in Down
    /\ \A d \in Down, restart \in BOOLEAN : Negotiate(d, restart) \in Down
    /\ \A d \in Down, ts \in SUBSET Tracks : [d EXCEPT !.tracks = ts] \in Down
    /\ \A d \in Down, ts \in {None} \cup SUBSET Tracks :
          [d EXCEPT !.requested = ts] \in Down
    /\ \A d \in Down : [d EXCEPT !.offered = FALSE] \in Down
<1>1. NoDown \in Down /\ NewDown \in Down BY DEF NoDown, NewDown, Down
<1>2. \A d \in Down, restart \in BOOLEAN : Negotiate(d, restart) \in Down
  BY DEF Negotiate, Down
<1>3. \A d \in Down, ts \in SUBSET Tracks : [d EXCEPT !.tracks = ts] \in Down
  BY DEF Down
<1>4. \A d \in Down, ts \in {None} \cup SUBSET Tracks :
          [d EXCEPT !.requested = ts] \in Down
  BY DEF Down
<1>5. \A d \in Down : [d EXCEPT !.offered = FALSE] \in Down
  BY DEF Down
<1> QED BY <1>1, <1>2, <1>3, <1>4, <1>5

LEMMA ActionTyping ==
    /\ \A u \in Streams, live \in BOOLEAN, ts \in SUBSET Tracks,
          r \in Streams \cup {None} : Push(u, live, ts, r) \in Action
    /\ \A c \in Clients, u \in Streams \cup {None} : Request(c, u) \in Action
    /\ \A u \in Streams : Failed(u) \in Action
BY DEF Push, Request, Failed, Action

(* An action put on some queues. *)
LEMMA PutAllTyping ==
    ASSUME queue \in [Clients -> Seq(Action)], NEW cs, NEW a \in Action
    PROVE  PutAll(cs, a) \in [Clients -> Seq(Action)]
<1>1. \A c \in Clients : Append(queue[c], a) \in Seq(Action)
  BY AppendProperties
<1> QED BY <1>1 DEF PutAll

(* The first action of a queue is one, and so are the others. *)
LEMMA HeadTyping ==
    ASSUME queue \in [Clients -> Seq(Action)], NEW c \in Clients,
           queue[c] # <<>>
    PROVE  /\ Head(queue[c]) \in Action
           /\ Tail(queue[c]) \in Seq(Action)
BY HeadTailProperties

LEMMA DoneTyping ==
    ASSUME queue \in [Clients -> Seq(Action)], NEW c \in Clients,
           queue[c] # <<>>, Done(c)
    PROVE  queue' \in [Clients -> Seq(Action)]
BY HeadTyping DEF Done

LEMMA PushFields ==
    ASSUME NEW a \in Action, a.type = "push"
    PROVE  /\ a.up \in Streams /\ a.live \in BOOLEAN
           /\ a.tracks \in SUBSET Tracks /\ a.replace \in Streams \cup {None}
BY DEF Action

LEMMA RequestFields ==
    ASSUME NEW a \in Action, a.type = "request"
    PROVE  a.target \in Clients /\ a.up \in Streams \cup {None}
BY DEF Action

(* What a stream's owner is asked to push. *)
LEMMA PushesTyping ==
    ASSUME TypeOK, NEW us \in SUBSET Streams,
           NEW order \in [1..Cardinality(us) -> us]
    PROVE  Pushes(order) \in Seq(Action)
<1>1. Cardinality(us) \in Nat
  <2>1. IsFiniteSet(us) BY StreamsAssumption, FS_Subset
  <2> QED BY <2>1, FS_CardinalityType
<1>2. \A i \in 1..Cardinality(us) :
        Push(order[i], TRUE, tracks[order[i]], replace[order[i]]) \in Action
  BY ActionTyping DEF TypeOK
<1>3. Pushes(order) \in [1..Cardinality(us) -> Action]
  BY <1>2 DEF Pushes
<1> QED BY <1>1, <1>3, SeqDef

(***************************************************************************)
(* Type correctness.                                                       *)
(***************************************************************************)

LEMMA InitTyping == Init => TypeOK
<1> SUFFICES ASSUME Init PROVE TypeOK OBVIOUS
<1>1. queue \in [Clients -> Seq(Action)]
  BY EmptySeq DEF Init
<1>2. down \in [Clients -> [Streams -> Down]]
  BY DownTyping DEF Init
<1>3. budget \in 0..MaxBudget BY BudgetAssumption DEF Init
<1>4. requested \in [Clients -> SUBSET Tracks]
  BY DEF Init
<1> QED BY <1>1, <1>2, <1>3, <1>4, StreamsAssumption DEF Init, TypeOK, NoOffer

\* What the publisher and the goroutines of pushConn do.
PublisherStep ==
    \/ \E c \in Clients, u \in Streams :
          \/ \E r \in Streams \cup {None} : Offer(c, u, r)
          \/ CloseUp(c, u) \/ LeaveCloses(c, u)
    \/ \E c \in Clients : OfferAccepted(c)
    \/ \E u \in Streams, t \in Tracks :
          TrackAdded(u, t) \/ TrackAnnounced(u, t)
    \/ \E x \in timers : TimerFires(x) \/ TimerTells(x)

LEMMA PublisherTyping ==
    ASSUME TypeOK, PublisherStep
    PROVE  TypeOK'
<1> USE StreamsAssumption
<1>1. ASSUME NEW c \in Clients, NEW u \in Streams,
             NEW r \in Streams \cup {None}, Offer(c, u, r)
      PROVE  TypeOK'
  <2>1. [up |-> u, by |-> None, cs |-> Others(c), stage |-> "sleeping",
         tracks |-> {}, replace |-> None] \in Timer
    BY DEF Timer, Others, TypeOK
  <2> QED BY <1>1, <2>1 DEF Offer, TypeOK, downVars
<1>2. ASSUME NEW c \in Clients, NEW u \in Streams,
             CloseUp(c, u) \/ LeaveCloses(c, u)
      PROVE  TypeOK'
  <2>1. Push(u, FALSE, {}, replace[u]) \in Action
    BY ActionTyping DEF TypeOK
  <2>2. queue' \in [Clients -> Seq(Action)]
    <3>1. queue' = PutAll(Others(c), Push(u, FALSE, {}, replace[u]))
      BY <1>2, Zenon DEF CloseUp, LeaveCloses, DelUp
    <3>2. queue \in [Clients -> Seq(Action)] BY DEF TypeOK
    <3> QED BY <2>1, <3>1, <3>2, PutAllTyping, Zenon
  <2>3. state' \in [Streams -> {"new", "up", "closed", "replaced"}]
    BY <1>2 DEF CloseUp, LeaveCloses, DelUp, TypeOK
  <2> QED BY <1>2, <2>2, <2>3 DEF CloseUp, LeaveCloses, TypeOK, downVars
<1>3. ASSUME NEW c \in Clients, OfferAccepted(c) PROVE TypeOK'
  BY <1>3 DEF OfferAccepted, TypeOK, downVars, NoOffer
<1>4. ASSUME NEW u \in Streams, NEW t \in Tracks, TrackAdded(u, t)
      PROVE  TypeOK'
  <2>1. tracks' \in [Streams -> SUBSET Tracks]
        /\ arriving' \subseteq Streams \X Tracks
    BY <1>4 DEF TrackAdded, TypeOK
  <2>2. budget' \in 0..MaxBudget
    BY <1>4, BudgetAssumption DEF TrackAdded, Spend, TypeOK
  <2> QED BY <1>4, <2>1, <2>2 DEF TrackAdded, TypeOK, downVars
<1>5. ASSUME NEW u \in Streams, NEW t \in Tracks, TrackAnnounced(u, t)
      PROVE  TypeOK'
  <2>1. [up |-> u, by |-> t, cs |-> Others(Owner[u]), stage |-> "sleeping",
         tracks |-> {}, replace |-> None] \in Timer
    BY DEF Timer, Others, TypeOK
  <2>2. timers' \subseteq Timer /\ pushed' \in [Streams -> BOOLEAN]
        /\ panicked' \in BOOLEAN
    <3> DEFINE x == [up |-> u, by |-> t, cs |-> Others(Owner[u]),
                     stage |-> "sleeping", tracks |-> {}, replace |-> None]
    <3>1. CASE Owner[u] \in members
      <4>1. timers' = timers \cup {x} /\ pushed' = [pushed EXCEPT ![u] = FALSE]
            /\ UNCHANGED panicked
        BY <1>5, <3>1, Zenon DEF TrackAnnounced
      <4> HIDE DEF x
      <4> QED BY <4>1, <2>1 DEF TypeOK, x
    <3>2. CASE Owner[u] \notin members
      BY <1>5, <3>2 DEF TrackAnnounced, TypeOK
    <3> QED BY <3>1, <3>2
  <2> QED BY <1>5, <2>2 DEF TrackAnnounced, TypeOK, downVars
<1>6. ASSUME NEW x \in timers, TimerFires(x) PROVE TypeOK'
  <2>1. x \in Timer BY DEF TypeOK
  <2>2. x.up \in Streams BY <2>1 DEF Timer
  <2>3. Telling(x, replace[x.up]) \subseteq Timer
    <3>1. tracks[x.up] \in SUBSET Tracks
          /\ replace[x.up] \in Streams \cup {None}
      BY <2>2 DEF TypeOK
    <3> DEFINE y == [x EXCEPT !.stage = "telling",
                            !.tracks = tracks[x.up], !.replace = replace[x.up]]
    <3>2. y \in Timer BY <2>1, <3>1 DEF Timer
    <3> HIDE DEF y
    <3>3. Telling(x, replace[x.up]) \subseteq {y} BY DEF Telling, y
    <3> QED BY <3>2, <3>3
  <2>4. timers' \subseteq Timer
    BY <1>6, <2>3 DEF TimerFires, TypeOK
  <2> QED BY <1>6, <2>2, <2>4 DEF TimerFires, TypeOK, downVars
<1>7. ASSUME NEW x \in timers, TimerTells(x) PROVE TypeOK'
  <2>1. Push(x.up, TRUE, x.tracks, x.replace) \in Action
    BY ActionTyping DEF TypeOK, Timer
  <2>2. queue' \in [Clients -> Seq(Action)]
    BY <1>7, <2>1, PutAllTyping DEF TimerTells, TypeOK
  <2> QED BY <1>7, <2>2 DEF TimerTells, TypeOK, upVars, downVars
<1> QED BY <1>1, <1>2, <1>3, <1>4, <1>5, <1>6, <1>7 DEF PublisherStep

\* Joining, leaving, and the messages from receivers' browsers.
ReceiverStep ==
    \/ \E c \in Clients :
          \/ Join(c) \/ Leave(c) \/ LeaveDone(c)
          \/ \E ts \in Choices : SetRequested(c, ts)
    \/ \E c \in Clients, u \in Streams :
          \/ \E ts \in {None} \cup Choices : SetRequestedStream(c, u, ts)
          \/ Abort(c, u) \/ Answer(c, u) \/ Renegotiate(c, u)
          \/ ConnectionFails(c, u)

LEMMA SpendTyping ==
    ASSUME TypeOK, NEW kind, Spend(kind)
    PROVE  budget' \in 0..MaxBudget
BY BudgetAssumption DEF Spend, TypeOK

LEMMA ReceiverTyping ==
    ASSUME TypeOK, ReceiverStep
    PROVE  TypeOK'
<1>1. ASSUME NEW c \in Clients, Join(c) \/ Leave(c) PROVE TypeOK'
  <2>1. budget' \in 0..MaxBudget BY <1>1, SpendTyping DEF Join, Leave
  <2> QED BY <1>1, <2>1 DEF Join, Leave, Ready, TypeOK, upVars, downVars
<1>2. ASSUME NEW c \in Clients, LeaveDone(c) PROVE TypeOK'
  <2>1. down' \in [Clients -> [Streams -> Down]]
        /\ browser' \in [Clients -> SUBSET Streams]
        /\ requested' \in [Clients -> SUBSET Tracks]
    BY <1>2, DownTyping DEF LeaveDone, TypeOK
  <2> QED BY <1>2, <2>1 DEF LeaveDone, TypeOK, upVars
<1>3. ASSUME NEW c \in Clients, NEW ts \in Choices, SetRequested(c, ts)
      PROVE  TypeOK'
  <2>1. budget' \in 0..MaxBudget BY <1>3, SpendTyping DEF SetRequested
  <2>2. queue' \in [Clients -> Seq(Action)]
    BY <1>3, ActionTyping, PutAllTyping DEF SetRequested, TypeOK
  <2>3. requested' \in [Clients -> SUBSET Tracks]
    BY <1>3, StreamsAssumption DEF SetRequested, TypeOK
  <2> QED BY <1>3, <2>1, <2>2, <2>3
          DEF SetRequested, TypeOK, upVars, downVars
<1>4. ASSUME NEW c \in Clients, NEW u \in Streams,
             NEW ts \in {None} \cup Choices, SetRequestedStream(c, u, ts)
      PROVE  TypeOK'
  <2>1. budget' \in 0..MaxBudget BY <1>4, SpendTyping DEF SetRequestedStream
  <2>2. queue' \in [Clients -> Seq(Action)]
    <3>1. Request(c, u) \in Action BY ActionTyping
    <3>2. queue' = PutAll({Owner[u]}, Request(c, u))
      BY <1>4, Zenon DEF SetRequestedStream
    <3>3. queue \in [Clients -> Seq(Action)] BY DEF TypeOK
    <3> QED BY <3>1, <3>2, <3>3, PutAllTyping, Zenon
  <2>3. [down[c][u] EXCEPT !.requested = ts] \in Down
    <3>1. down[c][u] \in Down BY DEF TypeOK
    <3>2. ts \in {None} \cup SUBSET Tracks BY StreamsAssumption
    <3> QED BY <3>1, <3>2, DownTyping, Zenon
  <2>4. down' \in [Clients -> [Streams -> Down]]
    <3>1. down' = [down EXCEPT ![c][u] = [@ EXCEPT !.requested = ts]]
      BY <1>4, Zenon DEF SetRequestedStream
    <3>2. down \in [Clients -> [Streams -> Down]] BY DEF TypeOK
    <3> QED BY <2>3, <3>1, <3>2
  <2> QED BY <1>4, <2>1, <2>2, <2>4 DEF SetRequestedStream, TypeOK, upVars
<1>5. ASSUME NEW c \in Clients, NEW u \in Streams, Abort(c, u)
      PROVE  TypeOK'
  <2>1. budget' \in 0..MaxBudget BY <1>5, SpendTyping DEF Abort
  <2>2. down' \in [Clients -> [Streams -> Down]]
        /\ browser' \in [Clients -> SUBSET Streams]
    BY <1>5, DownTyping DEF Abort, CloseDown, TypeOK
  <2> QED BY <1>5, <2>1, <2>2 DEF Abort, TypeOK, upVars
<1>6. ASSUME NEW c \in Clients, NEW u \in Streams, Answer(c, u)
      PROVE  TypeOK'
  <2> DEFINE d == [down[c][u] EXCEPT !.offered = FALSE]
  <2>1. d \in Down BY DownTyping DEF TypeOK
  <2>2. Negotiate(d, d.needed = "restart") \in Down BY <2>1, DownTyping
  <2>3. Shown(c, u, d, None) \in SUBSET Streams BY DEF Shown, TypeOK
  <2>4. down' \in [Clients -> [Streams -> Down]]
        /\ browser' \in [Clients -> SUBSET Streams]
    <3> HIDE DEF d
    <3>1. CASE d.needed # "no"
      <4>1. down' = [down EXCEPT ![c][u] = Negotiate(d, d.needed = "restart")]
            /\ browser' = [browser EXCEPT ![c] = Shown(c, u, d, None)]
        BY <1>6, <3>1 DEF Answer, d
      <4> QED BY <4>1, <2>2, <2>3 DEF TypeOK
    <3>2. CASE ~(d.needed # "no")
      <4>1. down' = [down EXCEPT ![c][u] = d] /\ UNCHANGED browser
        BY <1>6, <3>2 DEF Answer, d
      <4> QED BY <4>1, <2>1 DEF TypeOK
    <3> QED BY <3>1, <3>2
  <2> QED BY <1>6, <2>4 DEF Answer, TypeOK, upVars
<1>7. ASSUME NEW c \in Clients, NEW u \in Streams, Renegotiate(c, u)
      PROVE  TypeOK'
  <2>1. budget' \in 0..MaxBudget BY <1>7, SpendTyping DEF Renegotiate
  <2>2. Negotiate(down[c][u], TRUE) \in Down
    <3>1. down[c][u] \in Down BY DEF TypeOK
    <3> QED BY <3>1, DownTyping, Zenon
  <2>3. Shown(c, u, down[c][u], None) \in SUBSET Streams
    BY DEF Shown, TypeOK
  <2>4. down' \in [Clients -> [Streams -> Down]]
        /\ browser' \in [Clients -> SUBSET Streams]
    BY <1>7, <2>2, <2>3 DEF Renegotiate, TypeOK
  <2> QED BY <1>7, <2>1, <2>4 DEF Renegotiate, TypeOK, upVars
<1>8. ASSUME NEW c \in Clients, NEW u \in Streams, ConnectionFails(c, u)
      PROVE  TypeOK'
  <2>1. budget' \in 0..MaxBudget BY <1>8, SpendTyping DEF ConnectionFails
  <2>2. queue' \in [Clients -> Seq(Action)]
    BY <1>8, ActionTyping, PutAllTyping DEF ConnectionFails, TypeOK
  <2> QED BY <1>8, <2>1, <2>2 DEF ConnectionFails, TypeOK, upVars, downVars
<1> QED BY <1>1, <1>2, <1>3, <1>4, <1>5, <1>6, <1>7, <1>8 DEF ReceiverStep

LEMMA HandlePushTyping ==
    ASSUME TypeOK, NEW c \in Clients, HandlePush(c)
    PROVE  TypeOK'
<1> DEFINE a == Head(queue[c])
           u == a.up
           r == a.replace
           wanted == Wanted(c, a)
           rest == IF r = None THEN down[c]
                               ELSE [down[c] EXCEPT ![r] = NoDown]
           old == IF rest[u].open THEN rest[u] ELSE NewDown
           new == [old EXCEPT !.tracks = wanted]
<1>1. a \in Action /\ a.type = "push" /\ queue[c] # <<>>
  BY HeadTyping DEF HandlePush, HandleNext, TypeOK
<1>2. u \in Streams /\ r \in Streams \cup {None} /\ a.tracks \in SUBSET Tracks
  BY <1>1, PushFields
<1>3. wanted \in SUBSET Tracks BY <1>2 DEF Wanted
<1>4. rest \in [Streams -> Down] BY <1>2, DownTyping DEF TypeOK
<1>5. old \in Down BY <1>2, <1>4, DownTyping
<1>6. new \in Down BY <1>3, <1>5, DownTyping
<1>7. Negotiate(new, FALSE) \in Down BY <1>6, DownTyping
<1>8. Shown(c, u, new, r) \in SUBSET Streams BY <1>2 DEF Shown, TypeOK
<1>9. queue' \in [Clients -> Seq(Action)]
  BY <1>1, DoneTyping DEF HandlePush, TypeOK
<1>10. \/ /\ down' = [down EXCEPT ![c] = [rest EXCEPT ![u] = NoDown]]
          /\ browser' = [browser EXCEPT ![c] = @ \ {u, r}]
       \/ /\ down' = [down EXCEPT ![c] = rest]
          /\ browser' = [browser EXCEPT ![c] = @ \ {r}]
       \/ /\ down' = [down EXCEPT ![c] =
                         [rest EXCEPT ![u] = Negotiate(new, FALSE)]]
          /\ browser' = [browser EXCEPT ![c] = Shown(c, u, new, r)]
  BY Zenon DEF HandlePush
<1>11. down' \in [Clients -> [Streams -> Down]]
       /\ browser' \in [Clients -> SUBSET Streams]
  <2>1. NoDown \in Down BY DownTyping
  <2>2. \A f \in [Streams -> Down] :
           [down EXCEPT ![c] = f] \in [Clients -> [Streams -> Down]]
    BY DEF TypeOK
  <2>3. \A bs \in SUBSET Streams :
           [browser EXCEPT ![c] = bs] \in [Clients -> SUBSET Streams]
    BY DEF TypeOK
  <2>4. [rest EXCEPT ![u] = NoDown] \in [Streams -> Down]
        /\ [rest EXCEPT ![u] = Negotiate(new, FALSE)] \in [Streams -> Down]
    <3> HIDE DEF a, u, rest, new
    <3> QED BY <1>4, <1>7, <2>1
  <2>5. browser[c] \ {u, r} \in SUBSET Streams
        /\ browser[c] \ {r} \in SUBSET Streams
    BY DEF TypeOK
  <2> HIDE DEF a, u, r, wanted, rest, old, new
  <2>6. CASE /\ down' = [down EXCEPT ![c] = [rest EXCEPT ![u] = NoDown]]
             /\ browser' = [browser EXCEPT ![c] = @ \ {u, r}]
    BY <2>2, <2>3, <2>4, <2>5, <2>6
  <2>7. CASE /\ down' = [down EXCEPT ![c] = rest]
             /\ browser' = [browser EXCEPT ![c] = @ \ {r}]
    BY <1>4, <2>2, <2>3, <2>5, <2>7
  <2>8. CASE /\ down' = [down EXCEPT ![c] =
                            [rest EXCEPT ![u] = Negotiate(new, FALSE)]]
             /\ browser' = [browser EXCEPT ![c] = Shown(c, u, new, r)]
    BY <1>8, <2>2, <2>3, <2>4, <2>8
  <2> QED BY <1>10, <2>6, <2>7, <2>8
<1> QED BY <1>9, <1>11 DEF HandlePush, TypeOK, upVars

LEMMA HandleRequestTyping ==
    ASSUME TypeOK, NEW c \in Clients, HandleRequest(c)
    PROVE  TypeOK'
<1> DEFINE a == Head(queue[c])
           us == {u \in Up(c) : a.up \in {None, u}}
<1>1. a \in Action /\ a.type = "request" /\ Tail(queue[c]) \in Seq(Action)
  BY HeadTyping DEF HandleRequest, HandleNext, TypeOK
<1>2. a.target \in Clients BY <1>1, RequestFields
<1>3. us \subseteq Streams BY DEF Up
<1>4. queue' \in [Clients -> Seq(Action)]
  <2>1. PICK order \in [1..Cardinality(us) -> us] :
            queue' = [x \in Clients |->
                         (IF x = c THEN Tail(queue[x]) ELSE queue[x])
                         \o IF x = a.target THEN Pushes(order) ELSE <<>>]
    BY Zenon DEF HandleRequest
  <2>2. Pushes(order) \in Seq(Action) BY <1>3, PushesTyping
  <2>3. \A x \in Clients :
           /\ (IF x = c THEN Tail(queue[x]) ELSE queue[x]) \in Seq(Action)
           /\ (IF x = a.target THEN Pushes(order) ELSE <<>>) \in Seq(Action)
    BY <1>1, <2>2, EmptySeq DEF TypeOK
  <2> QED BY <2>1, <2>3, ConcatProperties
<1> QED BY <1>4 DEF HandleRequest, TypeOK, upVars, downVars

LEMMA HandleFailedTyping ==
    ASSUME TypeOK, NEW c \in Clients, HandleFailed(c)
    PROVE  TypeOK'
<1> DEFINE u == Head(queue[c]).up
           d == down[c][u]
<1>1. Head(queue[c]) \in Action /\ Head(queue[c]).type = "failed"
      /\ queue[c] # <<>> /\ Tail(queue[c]) \in Seq(Action)
  BY HeadTyping DEF HandleFailed, HandleNext, TypeOK
<1>2. u \in Streams BY <1>1 DEF Action
<1>3. d \in Down BY <1>2 DEF TypeOK
<1>4. Negotiate(d, TRUE) \in Down BY <1>3, DownTyping
<1>5. Shown(c, u, d, None) \in SUBSET Streams BY <1>2 DEF Shown, TypeOK
<1>6. Push(u, TRUE, d.tracks, None) \in Action
  BY <1>2, <1>3, ActionTyping DEF Down
<1>7. CASE d.open
  <2>1. /\ down' = [down EXCEPT ![c][u] = Negotiate(d, TRUE)]
        /\ browser' = [browser EXCEPT ![c] = Shown(c, u, d, None)]
        /\ queue' = [queue EXCEPT ![c] =
                        Append(Tail(@), Push(u, TRUE, d.tracks, None))]
    BY <1>7, Zenon DEF HandleFailed
  <2>2. Append(Tail(queue[c]), Push(u, TRUE, d.tracks, None)) \in Seq(Action)
    BY <1>1, <1>6, AppendProperties
  <2>3. queue' \in [Clients -> Seq(Action)] BY <2>1, <2>2 DEF TypeOK
  <2>4. down' \in [Clients -> [Streams -> Down]]
        /\ browser' \in [Clients -> SUBSET Streams]
    <3> HIDE DEF u, d
    <3> QED BY <1>2, <1>4, <1>5, <2>1 DEF TypeOK
  <2> QED BY <2>3, <2>4 DEF HandleFailed, TypeOK, upVars
<1>8. CASE ~d.open
  <2>1. Done(c) /\ UNCHANGED downVars BY <1>8, Zenon DEF HandleFailed
  <2>2. queue' \in [Clients -> Seq(Action)]
    BY <1>1, <2>1, DoneTyping DEF TypeOK
  <2> QED BY <2>1, <2>2 DEF HandleFailed, TypeOK, upVars, downVars
<1> QED BY <1>7, <1>8

LEMMA HandleWrongGroupTyping ==
    ASSUME TypeOK, NEW c \in Clients, HandleWrongGroup(c)
    PROVE  TypeOK'
<1>1. queue[c] # <<>> BY DEF HandleWrongGroup, HandleNext
<1>2. queue' \in [Clients -> Seq(Action)]
  BY <1>1, DoneTyping DEF HandleWrongGroup, TypeOK
<1> QED BY <1>2 DEF HandleWrongGroup, TypeOK, upVars, downVars

(* The actions of the module, sorted as they are above. *)
LEMMA Steps ==
    ASSUME Next
    PROVE  \/ PublisherStep \/ ReceiverStep
           \/ \E c \in Clients : HandleAction(c)
BY DEF Next, Message, Loop, PublisherStep, ReceiverStep

LEMMA StepTyping ==
    ASSUME TypeOK, Next
    PROVE  TypeOK'
<1>1. ASSUME NEW c \in Clients, HandleAction(c) PROVE TypeOK'
  BY <1>1, HandlePushTyping, HandleRequestTyping, HandleFailedTyping,
     HandleWrongGroupTyping DEF HandleAction
<1> QED BY <1>1, Steps, PublisherTyping, ReceiverTyping

(* The variables keep their types, whatever is published, requested and
   closed, and in whatever order announcements are handled. *)
THEOREM TypeCorrect == Spec => []TypeOK
<1>1. TypeOK /\ UNCHANGED vars => TypeOK'
  BY DEF TypeOK, vars, upVars, downVars
<1> QED BY <1>1, InitTyping, StepTyping, PTL DEF Spec

(***************************************************************************)
(* Offers.                                                                 *)
(***************************************************************************)

\* OfferCurrent, for one connection.
Current(d) == d.open => /\ d.sent = d.tracks \/ d.needed # "no"
                        /\ d.needed # "no" => d.offered

(* Whatever has changed before, negotiate makes an offer or remembers it. *)
LEMMA Negotiated ==
    \A d \in Down, restart \in BOOLEAN : Current(Negotiate(d, restart))
BY DEF Negotiate, Current, Down

LEMMA ClosedCurrent == Current(NoDown)
BY DEF NoDown, Current

(* The steps that concern down connections. *)
LEMMA DownSteps ==
    ASSUME Next
    PROVE  \/ UNCHANGED down
           \/ \E c \in Clients :
                 \/ LeaveDone(c) \/ HandlePush(c) \/ HandleFailed(c)
                 \/ \E u \in Streams :
                       \/ \E ts \in {None} \cup Choices :
                             SetRequestedStream(c, u, ts)
                       \/ Abort(c, u) \/ Answer(c, u) \/ Renegotiate(c, u)
<1>1. PublisherStep => UNCHANGED down
  BY DEF PublisherStep, Offer, CloseUp, LeaveCloses, OfferAccepted, TrackAdded,
         TrackAnnounced, TimerFires, TimerTells, downVars
<1>2. \A c, ts, u :
         Join(c) \/ Leave(c) \/ SetRequested(c, ts) \/ ConnectionFails(c, u)
         => UNCHANGED down
  BY DEF Join, Leave, SetRequested, ConnectionFails, downVars
<1>3. \A c \in Clients :
         HandleRequest(c) \/ HandleWrongGroup(c) => UNCHANGED down
  BY DEF HandleRequest, HandleWrongGroup, downVars
<1>4. CASE PublisherStep BY <1>1, <1>4
<1>5. CASE ReceiverStep BY <1>2, <1>5, Zenon DEF ReceiverStep
<1>6. CASE \E c \in Clients : HandleAction(c)
  BY <1>3, <1>6, Zenon DEF HandleAction
<1> QED BY <1>4, <1>5, <1>6, Steps

(* What handling a push does to the down connections: one is closed, or left
   as it is, or negotiated, and others may have been deleted before. *)
PushChanges(c, a, rest, d) ==
    /\ a = Head(queue[c]) /\ a.type = "push"
    /\ \A x \in Streams : rest[x] \in {down[c][x], NoDown}
    /\ \/ down' = [down EXCEPT ![c] = [rest EXCEPT ![a.up] = NoDown]]
       \/ a.live /\ down' = [down EXCEPT ![c] = rest]
       \/ /\ a.live /\ CanAdd(c, a.up)
          /\ down' = [down EXCEPT ![c] =
                         [rest EXCEPT ![a.up] = Negotiate(d, FALSE)]]

LEMMA PushedDown ==
    ASSUME TypeOK, NEW c \in Clients, HandlePush(c)
    PROVE  \E a \in Action, rest \in [Streams -> Down], d \in Down :
              PushChanges(c, a, rest, d)
<1> DEFINE a == Head(queue[c])
           u == a.up
           r == a.replace
           wanted == Wanted(c, a)
           rest == IF r = None THEN down[c]
                               ELSE [down[c] EXCEPT ![r] = NoDown]
           old == IF rest[u].open THEN rest[u] ELSE NewDown
           new == [old EXCEPT !.tracks = wanted]
<1>1. a \in Action /\ a.type = "push" /\ a = Head(queue[c])
  BY HeadTyping DEF HandlePush, HandleNext, TypeOK
<1>2. u \in Streams /\ r \in Streams \cup {None} /\ a.tracks \in SUBSET Tracks
      /\ a.live \in BOOLEAN
  BY <1>1, PushFields
<1>3. wanted \in SUBSET Tracks BY <1>2 DEF Wanted
<1>4. rest \in [Streams -> Down]
      /\ \A x \in Streams : rest[x] \in {down[c][x], NoDown}
  BY <1>2, DownTyping DEF TypeOK
<1>5. old \in Down BY <1>2, <1>4, DownTyping
<1>6. new \in Down BY <1>3, <1>5, DownTyping
<1>7. wanted # {} => a.live BY <1>2 DEF Wanted
<1>8. \/ down' = [down EXCEPT ![c] = [rest EXCEPT ![u] = NoDown]]
      \/ wanted # {} /\ down' = [down EXCEPT ![c] = rest]
      \/ /\ wanted # {} /\ CanAdd(c, u)
         /\ down' = [down EXCEPT ![c] =
                        [rest EXCEPT ![u] = Negotiate(new, FALSE)]]
  BY Zenon DEF HandlePush
<1> HIDE DEF a, r, wanted, rest, old, new
<1>9. \/ down' = [down EXCEPT ![c] = [rest EXCEPT ![a.up] = NoDown]]
      \/ a.live /\ down' = [down EXCEPT ![c] = rest]
      \/ /\ a.live /\ CanAdd(c, a.up)
         /\ down' = [down EXCEPT ![c] =
                        [rest EXCEPT ![a.up] = Negotiate(new, FALSE)]]
  BY <1>7, <1>8, Zenon
<1>10. PushChanges(c, a, rest, new)
  BY <1>1, <1>4, <1>9, Zenon DEF PushChanges
<1> QED BY <1>1, <1>4, <1>6, <1>10, Zenon

LEMMA StepOffers ==
    ASSUME TypeOK, OfferCurrent, Next
    PROVE  OfferCurrent'
<1> SUFFICES ASSUME NEW x \in Clients, NEW y \in Streams
             PROVE  Current(down'[x][y])
  BY DEF OfferCurrent, Current
<1>1. down \in [Clients -> [Streams -> Down]] BY DEF TypeOK
<1>2. \A c \in Clients, u \in Streams :
         down[c][u] \in Down /\ Current(down[c][u])
  BY <1>1 DEF OfferCurrent, Current
<1>3. \A c \in Clients, u \in Streams : \A d :
         Current(d) /\ down' = [down EXCEPT ![c][u] = d] => Current(down'[x][y])
  BY <1>1, <1>2
<1>4. CASE UNCHANGED down BY <1>2, <1>4
<1>5. ASSUME NEW c \in Clients, LeaveDone(c) PROVE Current(down'[x][y])
  BY <1>1, <1>2, <1>5, ClosedCurrent DEF LeaveDone
<1>6. ASSUME NEW c \in Clients, HandlePush(c) PROVE Current(down'[x][y])
  <2>1. PICK a \in Action, rest \in [Streams -> Down], d \in Down :
              PushChanges(c, a, rest, d)
    BY <1>6, PushedDown
  <2>2. \A z \in Streams : Current(rest[z])
    BY <1>2, <2>1, ClosedCurrent DEF PushChanges
  <2>3. Current(Negotiate(d, FALSE)) BY Negotiated
  <2>4. a.up \in Streams BY <2>1, PushFields DEF PushChanges
  <2>5. \A f \in [Streams -> Down] :
           (\A z \in Streams : Current(f[z])) /\ down' = [down EXCEPT ![c] = f]
           => Current(down'[x][y])
    BY <1>1, <1>2
  <2>6. [rest EXCEPT ![a.up] = NoDown] \in [Streams -> Down]
        /\ \A z \in Streams : Current([rest EXCEPT ![a.up] = NoDown][z])
    BY <2>2, <2>4, ClosedCurrent, DownTyping
  <2>7. [rest EXCEPT ![a.up] = Negotiate(d, FALSE)] \in [Streams -> Down]
        /\ \A z \in Streams :
              Current([rest EXCEPT ![a.up] = Negotiate(d, FALSE)][z])
    BY <2>2, <2>3, <2>4, DownTyping
  <2> QED BY <2>1, <2>2, <2>5, <2>6, <2>7 DEF PushChanges
<1>7. ASSUME NEW c \in Clients, HandleFailed(c) PROVE Current(down'[x][y])
  <2> DEFINE u == Head(queue[c]).up
             d == down[c][u]
  <2>1. u \in Streams
    BY <1>7, HeadTyping DEF HandleFailed, HandleNext, TypeOK, Action
  <2>2. Current(Negotiate(d, TRUE)) BY <1>2, <2>1, Negotiated
  <2>3. UNCHANGED down \/ down' = [down EXCEPT ![c][u] = Negotiate(d, TRUE)]
    BY <1>7, Zenon DEF HandleFailed, downVars
  <2> HIDE DEF u, d
  <2> QED BY <1>3, <1>4, <2>1, <2>2, <2>3
<1>8. ASSUME NEW c \in Clients, NEW u \in Streams,
             \/ \E ts \in {None} \cup Choices : SetRequestedStream(c, u, ts)
             \/ Abort(c, u) \/ Answer(c, u) \/ Renegotiate(c, u)
      PROVE  Current(down'[x][y])
  <2>1. ASSUME NEW ts, SetRequestedStream(c, u, ts)
        PROVE  Current(down'[x][y])
    <3>1. Current([down[c][u] EXCEPT !.requested = ts])
      BY <1>2 DEF Current, Down
    <3>2. down' = [down EXCEPT ![c][u] = [down[c][u] EXCEPT !.requested = ts]]
      BY <1>1, <2>1 DEF SetRequestedStream
    <3> QED BY <1>3, <3>1, <3>2
  <2>2. CASE Abort(c, u)
    BY <1>3, <2>2, ClosedCurrent DEF Abort, CloseDown
  <2>3. CASE Answer(c, u)
    <3> DEFINE d == [down[c][u] EXCEPT !.offered = FALSE]
    <3>1. d \in Down BY <1>2, DownTyping
    <3>2. CASE d.needed # "no"
      <4>1. down' = [down EXCEPT ![c][u] = Negotiate(d, d.needed = "restart")]
        BY <2>3, <3>2, Zenon DEF Answer
      <4>2. Current(Negotiate(d, d.needed = "restart")) BY <3>1, Negotiated
      <4> HIDE DEF d
      <4> QED BY <1>3, <4>1, <4>2
    <3>3. CASE d.needed = "no"
      <4>1. down' = [down EXCEPT ![c][u] = d]
        BY <2>3, <3>3, Zenon DEF Answer
      <4>2. Current(d) BY <1>2, <3>3 DEF Current, Down
      <4> HIDE DEF d
      <4> QED BY <1>3, <4>1, <4>2
    <3> QED BY <3>2, <3>3
  <2>4. CASE Renegotiate(c, u)
    <3>1. down' = [down EXCEPT ![c][u] = Negotiate(down[c][u], TRUE)]
      BY <2>4, Zenon DEF Renegotiate
    <3>2. Current(Negotiate(down[c][u], TRUE)) BY <1>2, Negotiated
    <3> QED BY <1>3, <3>1, <3>2
  <2> QED BY <1>8, <2>1, <2>2, <2>3, <2>4
<1> QED BY <1>4, <1>5, <1>6, <1>7, <1>8, DownSteps

(* A receiver has been offered exactly the tracks it is sent, or the flag
   negotiationNeeded and the answer that is awaited see to it: no change that
   is made during a negotiation is forgotten. *)
THEOREM OffersCurrent == Spec => []OfferCurrent
<1>1. Init => OfferCurrent
  BY ClosedCurrent DEF Init, OfferCurrent, Current
<1>2. OfferCurrent /\ UNCHANGED vars => OfferCurrent'
  BY DEF OfferCurrent, vars, downVars
<1> QED BY <1>1, <1>2, StepOffers, TypeCorrect, PTL DEF Spec

(***************************************************************************)
(* Closed streams.                                                         *)
(***************************************************************************)

\* Nobody is told of its own streams, nor asked by itself.
Proper(c, a) == /\ a.type = "push" => Owner[a.up] # c
                /\ a.type = "request" => a.target # c

Addressed == /\ \A c \in Clients : \A a \in Range(queue[c]) : Proper(c, a)
             /\ \A x \in timers : Owner[x.up] \notin x.cs
             /\ \A c \in Clients, u \in Streams :
                   down[c][u].open => Owner[u] # c

\* The announcement that u is closed is in a client's queue.
IsClose(a, u) == a.type = "push" /\ a.up = u /\ ~a.live
Closing(c, u) == \E a \in Range(queue[c]) : IsClose(a, u)

\* The inductive form of NoOrphan.
Accounted == \A c \in Clients, u \in Streams :
                down[c][u].open => /\ c \in members
                                   /\ state[u] = "closed" => Closing(c, u)

(* The set of actions in a queue, as the operations on sequences change it. *)
LEMMA TailRange ==
    ASSUME NEW S, NEW q \in Seq(S), q # <<>>
    PROVE  Range(q) = {Head(q)} \cup Range(Tail(q))
<1>1. Head(q) \in S /\ Tail(q) \in Seq(S) BY HeadTailProperties
<1>2. Len(q) \in Nat /\ Len(q) > 0 BY EmptySeq, LenProperties
<1>3. Len(Tail(q)) = Len(q) - 1
      /\ \A i \in 1..Len(Tail(q)) : Tail(q)[i] = q[i + 1]
  BY HeadTailProperties
<1>4. Head(q) = q[1] OBVIOUS
<1>5. Range(q) = {q[i] : i \in 1..Len(q)}
      /\ Range(Tail(q)) = {Tail(q)[i] : i \in 1..Len(Tail(q))}
  BY <1>1, RangeEquality
<1>6. \A i \in 1..Len(q) : q[i] = Head(q) \/ q[i] \in Range(Tail(q))
  <2> SUFFICES ASSUME NEW i \in 1..Len(q), i # 1 PROVE q[i] \in Range(Tail(q))
    BY <1>4
  <2>1. i - 1 \in 1..Len(Tail(q)) BY <1>2, <1>3
  <2>2. q[i] = Tail(q)[i - 1] BY <1>3, <2>1
  <2> QED BY <1>5, <2>1, <2>2
<1>7. \A i \in 1..Len(Tail(q)) : Tail(q)[i] \in Range(q)
  BY <1>2, <1>3, <1>5
<1>8. Head(q) \in Range(q)
  <2>1. 1 \in 1..Len(q) BY <1>2
  <2> QED BY <1>4, <1>5, <2>1
<1> QED BY <1>5, <1>6, <1>7, <1>8

LEMMA AppendRange ==
    ASSUME NEW S
    PROVE  \A q \in Seq(S), a \in S : Range(Append(q, a)) = Range(q) \cup {a}
<1> TAKE q \in Seq(S), a \in S
<1>1. <<a>> \in Seq(S) OBVIOUS
<1>2. Append(q, a) = q \o <<a>> BY AppendIsConcat
<1>3. Range(<<a>>) = {a} BY DEF Range
<1>4. Range(q \o <<a>>) = Range(q) \cup Range(<<a>>)
  BY <1>1, RangeConcatenation, ZenonT(30)
<1> QED BY <1>2, <1>3, <1>4

LEMMA EmptyRange == Range(<<>>) = {}
BY DEF Range

(* What a step does to the queues: what it adds is properly addressed, and
   only a client that handles its first action removes one. *)
QueueStep == \A x \in Clients :
    /\ \A a \in Range(queue'[x]) : a \in Range(queue[x]) \/ Proper(x, a)
    /\ \A a \in Range(queue[x]) :
          a \in Range(queue'[x]) \/ (a = Head(queue[x]) /\ HandleAction(x))

LEMMA PutAllSteps ==
    ASSUME TypeOK, NEW cs, NEW a \in Action, \A x \in cs : Proper(x, a),
           queue' = PutAll(cs, a)
    PROVE  QueueStep
<1>1. queue \in [Clients -> Seq(Action)] BY DEF TypeOK
<1>2. ASSUME NEW x \in Clients
      PROVE  \/ queue'[x] = queue[x]
             \/ x \in cs /\ Range(queue'[x]) = Range(queue[x]) \cup {a}
  <2>1. CASE x \in cs
    <3>1. queue'[x] = Append(queue[x], a) BY <2>1 DEF PutAll
    <3>2. queue[x] \in Seq(Action) BY <1>1
    <3> QED BY <2>1, <3>1, <3>2, AppendRange
  <2>2. CASE x \notin cs BY <2>2 DEF PutAll
  <2> QED BY <2>1, <2>2
<1> QED BY <1>2 DEF QueueStep

LEMMA UnchangedQueue ==
    ASSUME UNCHANGED queue
    PROVE  QueueStep
BY DEF QueueStep

LEMMA DoneSteps ==
    ASSUME TypeOK, NEW c \in Clients, queue[c] # <<>>, Done(c),
           HandleAction(c)
    PROVE  QueueStep
<1>1. queue[c] \in Seq(Action) BY DEF TypeOK
<1>2. Range(queue[c]) = {Head(queue[c])} \cup Range(Tail(queue[c]))
  BY <1>1, TailRange, Zenon
<1>3. \A x \in Clients : queue'[x] = IF x = c THEN Tail(queue[x]) ELSE queue[x]
  BY DEF Done, TypeOK
<1> QED BY <1>2, <1>3 DEF QueueStep

LEMMA PublisherQueues ==
    ASSUME TypeOK, Addressed, PublisherStep
    PROVE  QueueStep
<1>1. ASSUME NEW c \in Clients, NEW u \in Streams,
             CloseUp(c, u) \/ LeaveCloses(c, u)
      PROVE  QueueStep
  <2>1. queue' = PutAll(Others(c), Push(u, FALSE, {}, replace[u]))
        /\ Owner[u] = c
    BY <1>1 DEF CloseUp, LeaveCloses, DelUp, Up
  <2>2. Push(u, FALSE, {}, replace[u]) \in Action
    BY ActionTyping DEF TypeOK
  <2>3. \A x \in Others(c) : Proper(x, Push(u, FALSE, {}, replace[u]))
    BY <2>1 DEF Proper, Push, Others
  <2> QED BY <2>1, <2>2, <2>3, PutAllSteps, Zenon
<1>2. ASSUME NEW x \in timers, TimerTells(x) PROVE QueueStep
  <2> DEFINE a == Push(x.up, TRUE, x.tracks, x.replace)
  <2>1. a \in Action BY ActionTyping DEF TypeOK, Timer
  <2>2. \A y \in x.cs : Proper(y, a) BY DEF Addressed, Proper, Push
  <2>3. queue' = PutAll(x.cs, a) BY <1>2, Zenon DEF TimerTells
  <2> QED BY <2>1, <2>2, <2>3, PutAllSteps, Zenon
<1>3. ASSUME NEW c \in Clients, NEW u \in Streams,
             NEW r \in Streams \cup {None}, Offer(c, u, r)
      PROVE  QueueStep
  BY <1>3, UnchangedQueue DEF Offer
<1>4. ASSUME NEW c \in Clients, OfferAccepted(c) PROVE QueueStep
  BY <1>4, UnchangedQueue DEF OfferAccepted
<1>5. ASSUME NEW u \in Streams, NEW t \in Tracks,
             TrackAdded(u, t) \/ TrackAnnounced(u, t)
      PROVE  QueueStep
  BY <1>5, UnchangedQueue DEF TrackAdded, TrackAnnounced
<1>6. ASSUME NEW x \in timers, TimerFires(x) PROVE QueueStep
  BY <1>6, UnchangedQueue DEF TimerFires
<1> QED BY <1>1, <1>2, <1>3, <1>4, <1>5, <1>6 DEF PublisherStep

LEMMA ReceiverQueues ==
    ASSUME TypeOK, Addressed, ReceiverStep
    PROVE  QueueStep
<1>1. ASSUME NEW c \in Clients, Join(c) \/ Leave(c) \/ LeaveDone(c)
      PROVE  QueueStep
  BY <1>1, UnchangedQueue DEF Join, Leave, LeaveDone
<1>2. ASSUME NEW c \in Clients, NEW ts \in Choices, SetRequested(c, ts)
      PROVE  QueueStep
  <2>1. Request(c, None) \in Action BY ActionTyping
  <2>2. \A x \in Others(c) : Proper(x, Request(c, None))
    BY DEF Proper, Request, Others
  <2>3. queue' = PutAll(Others(c), Request(c, None))
    BY <1>2 DEF SetRequested
  <2> QED BY <2>1, <2>2, <2>3, PutAllSteps
<1>3. ASSUME NEW c \in Clients, NEW u \in Streams,
             NEW ts \in {None} \cup Choices, SetRequestedStream(c, u, ts)
      PROVE  QueueStep
  <2>1. Request(c, u) \in Action BY ActionTyping
  <2>2. \A x \in {Owner[u]} : Proper(x, Request(c, u))
    BY <1>3 DEF SetRequestedStream, Addressed, Proper, Request
  <2>3. queue' = PutAll({Owner[u]}, Request(c, u))
    BY <1>3, Zenon DEF SetRequestedStream
  <2> QED BY <2>1, <2>2, <2>3, PutAllSteps
<1>4. ASSUME NEW c \in Clients, NEW u \in Streams,
             Abort(c, u) \/ Answer(c, u) \/ Renegotiate(c, u)
      PROVE  QueueStep
  BY <1>4, UnchangedQueue, Zenon DEF Abort, Answer, Renegotiate
<1>5. ASSUME NEW c \in Clients, NEW u \in Streams, ConnectionFails(c, u)
      PROVE  QueueStep
  <2>1. Failed(u) \in Action BY ActionTyping
  <2>2. \A x \in {c} : Proper(x, Failed(u)) BY DEF Proper, Failed
  <2>3. queue' = PutAll({c}, Failed(u)) BY <1>5, Zenon DEF ConnectionFails
  <2> QED BY <2>1, <2>2, <2>3, PutAllSteps
<1> QED BY <1>1, <1>2, <1>3, <1>4, <1>5, Zenon DEF ReceiverStep

LEMMA RequestQueues ==
    ASSUME TypeOK, Addressed, NEW c \in Clients, HandleRequest(c)
    PROVE  QueueStep
<1> DEFINE a == Head(queue[c])
           us == {u \in Up(c) : a.up \in {None, u}}
<1>1. a \in Action /\ a.type = "request" /\ Tail(queue[c]) \in Seq(Action)
      /\ queue[c] \in Seq(Action) /\ queue[c] # <<>>
  BY HeadTyping DEF HandleRequest, HandleNext, TypeOK
<1>2. Range(queue[c]) = {a} \cup Range(Tail(queue[c]))
  BY <1>1, TailRange, Zenon
<1>3. a.target # c BY <1>1, <1>2 DEF Addressed, Proper
<1>4. PICK order \in [1..Cardinality(us) -> us] :
          queue' = [x \in Clients |->
                       (IF x = c THEN Tail(queue[x]) ELSE queue[x])
                       \o IF x = a.target THEN Pushes(order) ELSE <<>>]
  BY Zenon DEF HandleRequest
<1>5. Pushes(order) \in Seq(Action)
  <2>1. us \in SUBSET Streams BY DEF Up
  <2> QED BY <2>1, PushesTyping, Zenon
<1>6. \A b \in Range(Pushes(order)) : Proper(a.target, b)
  <2> SUFFICES ASSUME NEW i \in 1..Cardinality(us)
               PROVE  Proper(a.target, Pushes(order)[i])
    BY DEF Range, Pushes
  <2>1. order[i] \in us OBVIOUS
  <2>2. Owner[order[i]] = c BY <2>1 DEF Up
  <2>3. Pushes(order)[i] = Push(order[i], TRUE, tracks[order[i]],
                                replace[order[i]])
    BY DEF Pushes
  <2> QED BY <1>3, <2>2, <2>3 DEF Proper, Push
<1> DEFINE left(x) == IF x = c THEN Tail(queue[x]) ELSE queue[x]
           sent(x) == IF x = a.target THEN Pushes(order) ELSE <<>>
<1>7. \A x \in Clients : Range(queue'[x]) = Range(left(x)) \cup Range(sent(x))
  <2> SUFFICES ASSUME NEW x \in Clients
               PROVE  Range(queue'[x]) = Range(left(x)) \cup Range(sent(x))
    OBVIOUS
  <2>1. left(x) \in Seq(Action) BY <1>1 DEF TypeOK
  <2>2. sent(x) \in Seq(Action) BY <1>5, EmptySeq
  <2>3. queue'[x] = left(x) \o sent(x) BY <1>4
  <2> HIDE DEF left, sent
  <2> QED BY <2>1, <2>2, <2>3, RangeConcatenation, ZenonT(30)
<1>8. \A x \in Clients : \A b \in Range(sent(x)) : Proper(x, b)
  BY <1>6, EmptyRange
<1>9. \A x \in Clients : /\ Range(left(x)) \subseteq Range(queue[x])
                         /\ \A b \in Range(queue[x]) :
                               b \in Range(left(x)) \/ (b = a /\ x = c)
  BY <1>2
<1>10. HandleAction(c) BY DEF HandleAction
<1> HIDE DEF left, sent
<1> QED BY <1>7, <1>8, <1>9, <1>10 DEF QueueStep

LEMMA FailedQueues ==
    ASSUME TypeOK, Addressed, NEW c \in Clients, HandleFailed(c)
    PROVE  QueueStep
<1> DEFINE u == Head(queue[c]).up
           d == down[c][u]
           a == Push(u, TRUE, d.tracks, None)
<1>1. Head(queue[c]) \in Action /\ Head(queue[c]).type = "failed"
      /\ queue[c] # <<>> /\ Tail(queue[c]) \in Seq(Action)
      /\ queue[c] \in Seq(Action)
  BY HeadTyping DEF HandleFailed, HandleNext, TypeOK
<1>2. u \in Streams BY <1>1 DEF Action
<1>3. HandleAction(c) BY DEF HandleAction
<1>4. CASE d.open
  <2>1. queue' = [queue EXCEPT ![c] = Append(Tail(@), a)]
    BY <1>4, Zenon DEF HandleFailed
  <2>2. a \in Action
    <3>1. d \in Down BY <1>2 DEF TypeOK
    <3>2. d.tracks \in SUBSET Tracks BY <3>1 DEF Down
    <3> QED BY <1>2, <3>2, ActionTyping
  <2>3. Proper(c, a) BY <1>2, <1>4 DEF Addressed, Proper, Push
  <2> HIDE DEF a, d
  <2>4. Range(Append(Tail(queue[c]), a)) = Range(Tail(queue[c])) \cup {a}
    <3>1. Tail(queue[c]) \in Seq(Action) BY <1>1
    <3> DEFINE t == Tail(queue[c])
    <3>2. t \in Seq(Action) BY <3>1
    <3> HIDE DEF t
    <3>3. Range(Append(t, a)) = Range(t) \cup {a} BY <2>2, <3>2, AppendRange
    <3> QED BY <3>3, Zenon DEF t
  <2>5. Range(queue[c]) = {Head(queue[c])} \cup Range(Tail(queue[c]))
    BY <1>1, TailRange, Zenon
  <2>6. \A x \in Clients :
           queue'[x] = IF x = c THEN Append(Tail(queue[x]), a) ELSE queue[x]
    BY <2>1 DEF TypeOK
  <2> QED BY <1>3, <2>3, <2>4, <2>5, <2>6 DEF QueueStep
<1>5. CASE ~d.open
  <2>1. Done(c) BY <1>5, Zenon DEF HandleFailed
  <2> QED BY <1>1, <1>3, <2>1, DoneSteps
<1> QED BY <1>4, <1>5

LEMMA QueueSteps ==
    ASSUME TypeOK, Addressed, Next
    PROVE  QueueStep
<1>1. ASSUME NEW c \in Clients, HandlePush(c) PROVE QueueStep
  BY <1>1, DoneSteps DEF HandlePush, HandleNext, HandleAction
<1>2. ASSUME NEW c \in Clients, HandleWrongGroup(c) PROVE QueueStep
  BY <1>2, DoneSteps DEF HandleWrongGroup, HandleNext, HandleAction
<1> QED BY <1>1, <1>2, RequestQueues, FailedQueues, PublisherQueues,
           ReceiverQueues, Steps DEF HandleAction

(* Where an open down connection comes from: it was open before, or a stream
   that is not closed was pushed.  It does not survive the announcement of its
   end, nor its client's departure. *)
OpenOrigin(c, u) ==
    /\ \/ down[c][u].open
       \/ /\ HandlePush(c) /\ state[u] = "up"
          /\ Head(queue[c]).type = "push" /\ Head(queue[c]).up = u
    /\ HandlePush(c) => ~IsClose(Head(queue[c]), u)
    /\ ~LeaveDone(c)

LEMMA NegotiateOpen ==
    \A d \in Down, restart \in BOOLEAN :
        Negotiate(d, restart).open = d.open
BY DEF Negotiate, Down

LEMMA NoDownClosed == ~NoDown.open
BY DEF NoDown

LEMMA OpenOrigins ==
    ASSUME TypeOK, Next, NEW c \in Clients, NEW u \in Streams, down'[c][u].open
    PROVE  OpenOrigin(c, u)
<1>1. down \in [Clients -> [Streams -> Down]] BY DEF TypeOK
<1>2. ~LeaveDone(c) BY <1>1, NoDownClosed DEF LeaveDone
<1>3. CASE HandlePush(c)
  <2>1. PICK a \in Action, rest \in [Streams -> Down], d \in Down :
              PushChanges(c, a, rest, d)
    BY <1>3, PushedDown
  <2>2. a.up \in Streams /\ a = Head(queue[c]) /\ a.type = "push"
    BY <2>1, PushFields DEF PushChanges
  <2>3. rest[u].open => down[c][u].open
    BY <2>1, NoDownClosed DEF PushChanges
  <2>4. CASE down' = [down EXCEPT ![c] = [rest EXCEPT ![a.up] = NoDown]]
    <3>1. u # a.up /\ rest[u].open
      BY <1>1, <2>2, <2>4, NoDownClosed
    <3> QED BY <1>2, <2>2, <2>3, <3>1 DEF OpenOrigin, IsClose
  <2>5. CASE a.live /\ down' = [down EXCEPT ![c] = rest]
    <3>1. rest[u].open BY <1>1, <2>5
    <3> QED BY <1>2, <2>2, <2>3, <2>5, <3>1 DEF OpenOrigin, IsClose
  <2>6. CASE /\ a.live /\ CanAdd(c, a.up)
             /\ down' = [down EXCEPT ![c] =
                            [rest EXCEPT ![a.up] = Negotiate(d, FALSE)]]
    <3>1. u # a.up => rest[u].open BY <1>1, <2>2, <2>6
    <3>2. u = a.up => down[c][u].open \/ state[u] = "up"
      BY <2>6 DEF CanAdd
    <3> QED BY <1>2, <1>3, <2>2, <2>3, <2>6, <3>1, <3>2 DEF OpenOrigin, IsClose
  <2> QED BY <2>1, <2>4, <2>5, <2>6 DEF PushChanges
<1>4. CASE ~HandlePush(c)
  <2> SUFFICES down[c][u].open BY <1>2, <1>4 DEF OpenOrigin
  <2>1. CASE UNCHANGED down BY <2>1
  <2>2. ASSUME NEW x \in Clients, x # c, LeaveDone(x) PROVE down[c][u].open
    BY <1>1, <2>2 DEF LeaveDone
  <2>3. ASSUME NEW x \in Clients, x # c, HandlePush(x) PROVE down[c][u].open
    <3>1. \E f : down' = [down EXCEPT ![x] = f]
      BY <2>3, PushedDown DEF PushChanges
    <3> QED BY <1>1, <2>3, <3>1
  <2>4. \A x \in Clients, y \in Streams : \A d :
           down' = [down EXCEPT ![x][y] = d] /\ (d.open => down[x][y].open)
           => down[c][u].open
    BY <1>1
  <2>5. ASSUME NEW x \in Clients, HandleFailed(x) PROVE down[c][u].open
    <3> DEFINE y == Head(queue[x]).up
               d == down[x][y]
    <3>1. y \in Streams
      BY <2>5, HeadTyping DEF HandleFailed, HandleNext, TypeOK, Action
    <3>2. Negotiate(d, TRUE).open = d.open BY <1>1, <3>1, NegotiateOpen
    <3>3. UNCHANGED down \/ down' = [down EXCEPT ![x][y] = Negotiate(d, TRUE)]
      BY <2>5, Zenon DEF HandleFailed, downVars
    <3> HIDE DEF y
    <3> QED BY <2>1, <2>4, <3>1, <3>2, <3>3
  <2>6. ASSUME NEW x \in Clients, NEW y \in Streams,
               \/ \E ts \in {None} \cup Choices : SetRequestedStream(x, y, ts)
               \/ Abort(x, y) \/ Answer(x, y) \/ Renegotiate(x, y)
        PROVE  down[c][u].open
    <3>1. down[x][y] \in Down BY <1>1
    <3>2. ASSUME NEW ts, SetRequestedStream(x, y, ts) PROVE down[c][u].open
      <4>1. down' = [down EXCEPT ![x][y] = [down[x][y] EXCEPT !.requested = ts]]
        BY <1>1, <3>2 DEF SetRequestedStream
      <4>2. [down[x][y] EXCEPT !.requested = ts].open = down[x][y].open
        BY <3>1 DEF Down
      <4> QED BY <2>4, <4>1, <4>2
    <3>3. CASE Abort(x, y)
      BY <2>4, <3>3, NoDownClosed DEF Abort, CloseDown
    <3>4. CASE Answer(x, y)
      <4> DEFINE d == [down[x][y] EXCEPT !.offered = FALSE]
      <4>1. d \in Down /\ d.open = down[x][y].open
        BY <3>1, DownTyping DEF Down
      <4>2. Negotiate(d, d.needed = "restart").open = d.open
        BY <4>1, NegotiateOpen
      <4>3. \/ down' = [down EXCEPT ![x][y] = Negotiate(d, d.needed = "restart")]
            \/ down' = [down EXCEPT ![x][y] = d]
        BY <3>4, Zenon DEF Answer
      <4> HIDE DEF d
      <4> QED BY <2>4, <4>1, <4>2, <4>3
    <3>5. CASE Renegotiate(x, y)
      <4>1. down' = [down EXCEPT ![x][y] = Negotiate(down[x][y], TRUE)]
        BY <3>5, Zenon DEF Renegotiate
      <4>2. Negotiate(down[x][y], TRUE).open = down[x][y].open
        BY <3>1, NegotiateOpen
      <4> QED BY <2>4, <4>1, <4>2
    <3> QED BY <2>6, <3>2, <3>3, <3>4, <3>5
  <2> QED BY <1>2, <1>4, <2>1, <2>2, <2>3, <2>5, <2>6, DownSteps
<1> QED BY <1>3, <1>4

LEMMA HeadInRange ==
    ASSUME TypeOK, NEW c \in Clients, queue[c] # <<>>
    PROVE  Head(queue[c]) \in Range(queue[c])
<1>1. queue[c] \in Seq(Action) BY DEF TypeOK
<1> QED BY <1>1, TailRange

(* The goroutines of pushConn that a step starts, or continues. *)
LEMMA StepTimers ==
    ASSUME TypeOK, Addressed, Next
    PROVE  \A x \in timers' : Owner[x.up] \notin x.cs
<1>1. \A x \in timers : Owner[x.up] \notin x.cs BY DEF Addressed
<1>2. CASE UNCHANGED timers BY <1>1, <1>2
<1>3. ASSUME NEW c \in Clients, NEW u \in Streams,
             NEW r \in Streams \cup {None}, Offer(c, u, r)
      PROVE  \A x \in timers' : Owner[x.up] \notin x.cs
  <2> DEFINE y == [up |-> u, by |-> None, cs |-> Others(c),
                   stage |-> "sleeping", tracks |-> {}, replace |-> None]
  <2>1. timers' = timers \cup {y} BY <1>3 DEF Offer
  <2>2. Owner[y.up] \notin y.cs BY <1>3 DEF Offer, Others
  <2> QED BY <1>1, <2>1, <2>2
<1>4. ASSUME NEW u \in Streams, NEW t \in Tracks, TrackAnnounced(u, t)
      PROVE  \A x \in timers' : Owner[x.up] \notin x.cs
  <2> DEFINE y == [up |-> u, by |-> t, cs |-> Others(Owner[u]),
                   stage |-> "sleeping", tracks |-> {}, replace |-> None]
  <2>1. timers' \subseteq timers \cup {y} BY <1>4 DEF TrackAnnounced
  <2>2. Owner[y.up] \notin y.cs BY DEF Others
  <2> QED BY <1>1, <2>1, <2>2
<1>5. ASSUME NEW x \in timers, TimerFires(x)
      PROVE  \A z \in timers' : Owner[z.up] \notin z.cs
  <2> DEFINE y == [x EXCEPT !.stage = "telling",
                            !.tracks = tracks[x.up], !.replace = replace[x.up]]
  <2>1. timers' \subseteq timers \cup {y} BY <1>5 DEF TimerFires, Telling
  <2>2. x \in Timer BY DEF TypeOK
  <2>3. y.up = x.up /\ y.cs = x.cs BY <2>2 DEF Timer
  <2> HIDE DEF y
  <2> QED BY <1>1, <2>1, <2>3
<1>6. ASSUME NEW x \in timers, TimerTells(x)
      PROVE  \A z \in timers' : Owner[z.up] \notin z.cs
  BY <1>1, <1>6 DEF TimerTells
<1>7. PublisherStep =>
         \/ UNCHANGED timers
         \/ \E c \in Clients, u \in Streams :
               \E r \in Streams \cup {None} : Offer(c, u, r)
         \/ \E u \in Streams, t \in Tracks : TrackAnnounced(u, t)
         \/ \E x \in timers : TimerFires(x) \/ TimerTells(x)
  BY DEF PublisherStep, CloseUp, LeaveCloses, OfferAccepted, TrackAdded
<1>8. ReceiverStep => UNCHANGED timers
  BY DEF ReceiverStep, Join, Leave, LeaveDone, SetRequested,
         SetRequestedStream, Abort, Answer, Renegotiate, ConnectionFails
<1>9. \A c \in Clients : HandleAction(c) => UNCHANGED timers
  BY DEF HandleAction, HandlePush, HandleRequest, HandleFailed,
         HandleWrongGroup
<1> QED BY <1>2, <1>3, <1>4, <1>5, <1>6, <1>7, <1>8, <1>9, Steps

LEMMA StepAddressed ==
    ASSUME TypeOK, Addressed, Next
    PROVE  Addressed'
<1>1. \A c \in Clients : \A a \in Range(queue'[c]) : Proper(c, a)
  BY QueueSteps DEF QueueStep, Addressed
<1>2. ASSUME NEW c \in Clients, NEW u \in Streams, down'[c][u].open
      PROVE  Owner[u] # c
  <2>1. OpenOrigin(c, u) BY <1>2, OpenOrigins
  <2>2. CASE down[c][u].open BY <2>2 DEF Addressed
  <2>3. CASE HandlePush(c) /\ Head(queue[c]).type = "push"
             /\ Head(queue[c]).up = u
    <3>1. queue[c] # <<>> BY <2>3 DEF HandlePush, HandleNext
    <3>2. Proper(c, Head(queue[c])) BY <3>1, HeadInRange DEF Addressed
    <3> QED BY <2>3, <3>2 DEF Proper
  <2> QED BY <2>1, <2>2, <2>3 DEF OpenOrigin
<1> QED BY <1>1, <1>2, StepTimers DEF Addressed, Proper

(* A stream is closed by its owner, who tells the others, and clients leave
   the group by LeaveDone. *)
LEMMA Closings ==
    ASSUME TypeOK, Next, NEW u \in Streams, state[u] # "closed",
           state'[u] = "closed"
    PROVE  queue' = PutAll(Others(Owner[u]), Push(u, FALSE, {}, replace[u]))
           /\ UNCHANGED <<down, members>>
<1>1. ASSUME NEW c \in Clients, NEW x \in Streams,
             CloseUp(c, x) \/ LeaveCloses(c, x)
      PROVE  queue' = PutAll(Others(Owner[u]), Push(u, FALSE, {}, replace[u]))
             /\ UNCHANGED <<down, members>>
  <2>1. x = u BY <1>1 DEF CloseUp, LeaveCloses, DelUp, TypeOK
  <2>2. Owner[u] = c BY <1>1, <2>1 DEF CloseUp, LeaveCloses, Up
  <2> QED BY <1>1, <2>1, <2>2, Zenon DEF CloseUp, LeaveCloses, DelUp, downVars
<1>2. \A c \in Clients, x \in Streams, r \in Streams \cup {None} :
         ~Offer(c, x, r)
  BY DEF Offer, TypeOK
<1>3. \A c \in Clients : ~OfferAccepted(c)
  BY DEF OfferAccepted, TypeOK
<1>4. \A x \in Streams, t \in Tracks : ~TrackAdded(x, t) /\ ~TrackAnnounced(x, t)
  BY DEF TrackAdded, TrackAnnounced
<1>5. \A x \in timers : ~TimerFires(x) /\ ~TimerTells(x)
  BY DEF TimerFires, TimerTells, upVars
<1>6. ~ReceiverStep
  BY DEF ReceiverStep, Join, Leave, LeaveDone, SetRequested,
         SetRequestedStream, Abort, Answer, Renegotiate, ConnectionFails,
         upVars
<1>7. \A c \in Clients : ~HandleAction(c)
  BY DEF HandleAction, HandlePush, HandleRequest, HandleFailed,
         HandleWrongGroup, upVars
<1> QED BY <1>1, <1>2, <1>3, <1>4, <1>5, <1>6, <1>7, Steps DEF PublisherStep

LEMMA Departures ==
    ASSUME Next, NEW c \in Clients, c \in members, c \notin members'
    PROVE  LeaveDone(c)
<1>1. ~PublisherStep
  BY DEF PublisherStep, Offer, CloseUp, LeaveCloses, OfferAccepted, TrackAdded,
         TrackAnnounced, TimerFires, TimerTells
<1>2. \A x \in Clients : ~HandleAction(x)
  BY DEF HandleAction, HandlePush, HandleRequest, HandleFailed,
         HandleWrongGroup
<1>3. ReceiverStep => \E x \in Clients : LeaveDone(x)
  BY DEF ReceiverStep, Join, Leave, SetRequested,
         SetRequestedStream, Abort, Answer, Renegotiate, ConnectionFails
<1> QED BY <1>1, <1>2, <1>3, Steps DEF LeaveDone

LEMMA StepAccounted ==
    ASSUME TypeOK, Addressed, Accounted, Next
    PROVE  Accounted'
<1> SUFFICES ASSUME NEW c \in Clients, NEW u \in Streams, down'[c][u].open
             PROVE  /\ c \in members'
                    /\ state'[u] = "closed" =>
                          \E a \in Range(queue'[c]) : IsClose(a, u)
  BY DEF Accounted, Closing, IsClose
<1>1. OpenOrigin(c, u) BY OpenOrigins
<1>2. c \in members BY <1>1 DEF OpenOrigin, Accounted, HandlePush
<1>3. c \in members' BY <1>1, <1>2, Departures DEF OpenOrigin
<1>4. CASE state[u] = "closed" /\ state'[u] = "closed"
  <2>1. down[c][u].open BY <1>1, <1>4 DEF OpenOrigin
  <2>2. PICK a \in Range(queue[c]) : IsClose(a, u)
    BY <1>4, <2>1 DEF Accounted, Closing
  <2>3. a \in Range(queue'[c]) \/ (a = Head(queue[c]) /\ HandleAction(c))
    BY QueueSteps DEF QueueStep
  <2>4. ~(a = Head(queue[c]) /\ HandleAction(c))
    BY <1>1, <1>2, <2>2 DEF OpenOrigin, HandleAction, HandleNext,
       HandleRequest, HandleFailed, HandleWrongGroup, IsClose
  <2> QED BY <1>3, <2>2, <2>3, <2>4
<1>5. CASE state[u] # "closed" /\ state'[u] = "closed"
  <2> DEFINE a == Push(u, FALSE, {}, replace[u])
  <2>1. queue' = PutAll(Others(Owner[u]), a) /\ UNCHANGED <<down, members>>
    BY <1>5, Closings
  <2>2. Owner[u] # c BY <2>1 DEF Addressed
  <2>3. queue'[c] = Append(queue[c], a) BY <1>2, <2>1, <2>2 DEF PutAll, Others
  <2>4. a \in Action /\ queue[c] \in Seq(Action) BY ActionTyping DEF TypeOK
  <2>5. IsClose(a, u) BY DEF IsClose, Push
  <2> HIDE DEF a
  <2>6. a \in Range(queue'[c]) BY <2>3, <2>4, AppendRange
  <2> QED BY <1>3, <2>5, <2>6
<1> QED BY <1>3, <1>4, <1>5

(* A connection to a receiver does not survive the stream that it forwards:
   os.ErrClosed (rtpconn.go:556) and the announcement of the end, which is
   queued behind all others, leave none behind, whatever is under way when the
   stream is closed. *)
THEOREM NoneOrphaned == Spec => []NoOrphan
<1> DEFINE Inv == TypeOK /\ Addressed /\ Accounted
<1>1. Init => Inv
  <2> SUFFICES ASSUME Init PROVE Inv OBVIOUS
  <2>1. \A c \in Clients, u \in Streams : ~down[c][u].open
    BY NoDownClosed DEF Init
  <2>2. \A c \in Clients : Range(queue[c]) = {}
    BY EmptyRange DEF Init
  <2> QED BY <2>1, <2>2, InitTyping DEF Init, Addressed, Accounted
<1>2. Inv /\ [Next]_vars => Inv'
  <2>1. CASE Next BY <2>1, StepTyping, StepAddressed, StepAccounted
  <2>2. CASE UNCHANGED vars
    BY <2>2 DEF vars, upVars, downVars, TypeOK, Addressed, Accounted, Closing,
                IsClose, Proper
  <2> QED BY <2>1, <2>2
<1>3. Inv => NoOrphan
  BY EmptyRange DEF NoOrphan, Quiet, Accounted, Closing
<1> QED BY <1>1, <1>2, <1>3, PTL DEF Spec

(***************************************************************************)
(* The browser.                                                            *)
(***************************************************************************)

\* A stream that is to be replaced is no longer up.
Gone(r) == r = None \/ state[r] \in {"closed", "replaced"}

Superseded ==
    /\ \A u \in Streams : Gone(replace[u])
    /\ \A x \in timers : Gone(x.replace)
    /\ \A c \in Clients : \A a \in Range(queue[c]) :
          a.type = "push" => Gone(a.replace)
    /\ \A c \in Clients : LET r == offering[c].replace
                          IN r # None => Owner[r] = c /\ state[r] # "new"

\* An announcement that a stream replaces another comes after the announcement
\* that this one is closed, if there is one.
Behind(q) == \A i, j \in 1..Len(q) :
                i < j /\ q[i].type = "push" => ~IsClose(q[j], q[i].replace)
Announced == \A c \in Clients : Behind(queue[c])

\* BrowserExact, for a connection, whether the browser has the stream, and the
\* stream's state.
Exact(d, b, s) == /\ d.offered => d.open
                  /\ d.open => b
                  /\ b => d.open \/ s = "replaced"
Shows == \A c \in Clients, u \in Streams :
            Exact(down[c][u], u \in browser[c], state[u])

(* Once a stream is closed or replaced, it remains so. *)
LEMMA Ends ==
    ASSUME TypeOK, Next, NEW u \in Streams, state[u] # "new"
    PROVE  /\ state'[u] # "new"
           /\ state[u] \in {"closed", "replaced"} => state'[u] = state[u]
<1>1. ASSUME NEW c \in Clients, NEW x \in Streams,
             \/ CloseUp(c, x) \/ LeaveCloses(c, x)
             \/ \E r \in Streams \cup {None} : Offer(c, x, r)
      PROVE  /\ state'[u] # "new"
             /\ state[u] \in {"closed", "replaced"} => state'[u] = state[u]
  BY <1>1 DEF CloseUp, LeaveCloses, DelUp, Up, Offer, TypeOK
<1>2. ASSUME NEW c \in Clients, OfferAccepted(c)
      PROVE  /\ state'[u] # "new"
             /\ state[u] \in {"closed", "replaced"} => state'[u] = state[u]
  BY <1>2 DEF OfferAccepted, Up, TypeOK
<1>3. ASSUME UNCHANGED state
      PROVE  /\ state'[u] # "new"
             /\ state[u] \in {"closed", "replaced"} => state'[u] = state[u]
  BY <1>3
<1>4. \A x \in Streams, t \in Tracks :
         TrackAdded(x, t) \/ TrackAnnounced(x, t) => UNCHANGED state
  BY DEF TrackAdded, TrackAnnounced
<1>5. \A x \in timers : TimerFires(x) \/ TimerTells(x) => UNCHANGED state
  BY DEF TimerFires, TimerTells, upVars
<1>6. ReceiverStep => UNCHANGED state
  BY ZenonT(30) DEF ReceiverStep, Join, Leave, LeaveDone, SetRequested,
         SetRequestedStream, Abort, Answer, Renegotiate, ConnectionFails,
         upVars
<1>7. \A c \in Clients : HandleAction(c) => UNCHANGED state
  BY DEF HandleAction, HandlePush, HandleRequest, HandleFailed,
         HandleWrongGroup, upVars
<1> QED BY <1>1, <1>2, <1>3, <1>4, <1>5, <1>6, <1>7, Steps DEF PublisherStep

(* In particular, what was gone remains so. *)
LEMMA StillGone ==
    ASSUME TypeOK, Next, NEW r \in Streams \cup {None}, Gone(r)
    PROVE  Gone(r)'
<1>1. CASE r = None BY <1>1 DEF Gone
<1>2. CASE r \in Streams /\ state[r] \in {"closed", "replaced"}
  BY <1>2, Ends DEF Gone
<1> QED BY <1>1, <1>2, StreamsAssumption DEF Gone

\* What a step does to a queue: an action may be taken from it, and others are
\* put at its end.
Sound(a) == a.type = "push" => Gone(a.replace) /\ (a.live \/ state[a.up] = "up")
Extended(x) ==
    \E q, s \in Seq(Action) :
        /\ queue'[x] = q \o s
        /\ q = queue[x] \/ (queue[x] # <<>> /\ q = Tail(queue[x]))
        /\ \A a \in Range(s) : Sound(a)

(* Queues keep the order of announcements when they are extended. *)
LEMMA Extension ==
    ASSUME TypeOK, Superseded, Announced, NEW x \in Clients, Extended(x)
    PROVE  /\ Behind(queue'[x])
           /\ \A a \in Range(queue'[x]) : a.type = "push" => Gone(a.replace)
<1> PICK q \in Seq(Action), s \in Seq(Action) :
        /\ queue'[x] = q \o s
        /\ q = queue[x] \/ (queue[x] # <<>> /\ q = Tail(queue[x]))
        /\ \A a \in Range(s) : Sound(a)
  BY DEF Extended
<1>1. queue[x] \in Seq(Action) /\ Behind(queue[x])
      /\ \A a \in Range(queue[x]) : a.type = "push" => Gone(a.replace)
  BY DEF TypeOK, Announced, Superseded
<1>2. Range(q) \subseteq Range(queue[x])
  <2>1. queue[x] # <<>> =>
           Range(queue[x]) = {Head(queue[x])} \cup Range(Tail(queue[x]))
    BY <1>1, TailRange, Zenon
  <2>2. CASE q = queue[x] BY <2>2
  <2>3. CASE queue[x] # <<>> /\ q = Tail(queue[x]) BY <2>1, <2>3, Zenon
  <2> QED BY <2>2, <2>3
<1>3. Behind(q)
  <2>1. CASE queue[x] # <<>> /\ q = Tail(queue[x])
    <3>1. Len(queue[x]) \in Nat /\ Len(q) = Len(queue[x]) - 1
          /\ \A i \in 1..Len(q) : q[i] = queue[x][i + 1]
      BY <1>1, <2>1, HeadTailProperties, LenProperties
    <3>2. \A i \in 1..Len(q) : i + 1 \in 1..Len(queue[x]) BY <3>1
    <3> SUFFICES ASSUME NEW i \in 1..Len(q), NEW j \in 1..Len(q),
                        i < j, q[i].type = "push"
                 PROVE  ~IsClose(q[j], q[i].replace)
      BY DEF Behind
    <3>3. q[i] = queue[x][i + 1] /\ q[j] = queue[x][j + 1] /\ i + 1 < j + 1
      BY <3>1
    <3> QED BY <1>1, <3>2, <3>3 DEF Behind
  <2> QED BY <1>1, <2>1
<1>4. \A a \in Range(q) \cup Range(s) : a.type = "push" => Gone(a.replace)
  BY <1>1, <1>2 DEF Sound
<1>5. /\ Len(q) \in Nat /\ Len(s) \in Nat /\ Len(q \o s) = Len(q) + Len(s)
      /\ \A i \in 1..Len(q) : (q \o s)[i] = q[i] /\ q[i] \in Range(q)
      /\ \A i \in (Len(q) + 1)..(Len(q) + Len(s)) :
            /\ (q \o s)[i] = s[i - Len(q)]
            /\ s[i - Len(q)] \in Range(s) /\ s[i - Len(q)] \in Action
  <2>1. Range(q) = {q[i] : i \in 1..Len(q)} /\ Range(s) = {s[i] : i \in 1..Len(s)}
    BY RangeEquality
  <2>2. /\ Len(q) \in Nat /\ Len(s) \in Nat /\ Len(q \o s) = Len(q) + Len(s)
        /\ \A i \in 1..(Len(q) + Len(s)) :
              (q \o s)[i] = IF i <= Len(q) THEN q[i] ELSE s[i - Len(q)]
    BY ConcatProperties, LenProperties
  <2>3. \A i \in (Len(q) + 1)..(Len(q) + Len(s)) : i - Len(q) \in 1..Len(s)
    BY <2>2
  <2>4. \A i \in 1..Len(s) : s[i] \in Action BY ElementOfSeq
  <2> QED BY <2>1, <2>2, <2>3, <2>4
<1>6. Range(q \o s) = Range(q) \cup Range(s) BY RangeConcatenation
<1>7. Behind(q \o s)
  <2> SUFFICES ASSUME NEW i \in 1..Len(q \o s), NEW j \in 1..Len(q \o s),
                      i < j, (q \o s)[i].type = "push",
                      IsClose((q \o s)[j], (q \o s)[i].replace)
               PROVE  FALSE
    BY DEF Behind
  <2> DEFINE a == (q \o s)[i]
             b == (q \o s)[j]
  <2>1. a \in Range(q) \cup Range(s)
    BY <1>5
  <2>2. Gone(a.replace) BY <1>4, <2>1
  <2>3. CASE j \in 1..Len(q)
    <3>1. i \in 1..Len(q) BY <1>5, <2>3
    <3> QED BY <1>3, <1>5, <2>3, <3>1 DEF Behind
  <2>4. CASE j \in (Len(q) + 1)..(Len(q) + Len(s))
    <3>1. b \in Range(s) /\ b \in Action BY <1>5, <2>4
    <3>2. b.type = "push" /\ b.up = a.replace /\ ~b.live BY DEF IsClose
    <3>3. state[b.up] = "up" BY <3>1, <3>2 DEF Sound
    <3>4. b.up \in Streams BY <3>1, <3>2, PushFields
    <3> QED BY <2>2, <3>2, <3>3, <3>4, StreamsAssumption DEF Gone
  <2> QED BY <1>5, <2>3, <2>4
<1> QED BY <1>4, <1>6, <1>7

(* An action put on some queues. *)
LEMMA PutExtends ==
    ASSUME TypeOK, NEW cs, NEW a \in Action, Sound(a), queue' = PutAll(cs, a),
           NEW x \in Clients
    PROVE  Extended(x)
<1>1. queue[x] \in Seq(Action) /\ <<>> \in Seq(Action) /\ <<a>> \in Seq(Action)
  BY EmptySeq DEF TypeOK
<1>2. CASE x \in cs
  <2>1. queue'[x] = queue[x] \o <<a>> BY <1>1, <1>2, AppendIsConcat DEF PutAll
  <2>2. Range(<<a>>) = {a} BY DEF Range
  <2>3. \A b \in Range(<<a>>) : Sound(b) BY <2>2
  <2> QED BY <1>1, <2>1, <2>3, Zenon DEF Extended
<1>3. CASE x \notin cs
  <2>1. queue'[x] = queue[x] \o <<>>
    BY <1>1, <1>3, ConcatEmptySeq DEF PutAll
  <2> QED BY <1>1, <2>1, EmptyRange, Zenon DEF Extended
<1> QED BY <1>2, <1>3

(* No action put on any. *)
LEMMA UnchangedExtends ==
    ASSUME TypeOK, UNCHANGED queue, NEW x \in Clients
    PROVE  Extended(x)
<1>1. queue[x] \in Seq(Action) /\ <<>> \in Seq(Action)
  BY EmptySeq DEF TypeOK
<1>2. queue'[x] = queue[x] \o <<>> BY <1>1, ConcatEmptySeq
<1> QED BY <1>1, <1>2, EmptyRange, Zenon DEF Extended

(* An action taken from a queue. *)
LEMMA DoneExtends ==
    ASSUME TypeOK, NEW c \in Clients, queue[c] # <<>>, Done(c), NEW x \in Clients
    PROVE  Extended(x)
<1>1. queue[x] \in Seq(Action) /\ <<>> \in Seq(Action)
  BY EmptySeq DEF TypeOK
<1>2. queue'[x] = IF x = c THEN Tail(queue[x]) ELSE queue[x]
  BY DEF Done, TypeOK
<1>3. CASE x = c
  <2>1. Tail(queue[x]) \in Seq(Action) BY <1>3, HeadTyping DEF TypeOK
  <2>2. queue'[x] = Tail(queue[x]) \o <<>>
    BY <1>2, <1>3, <2>1, ConcatEmptySeq
  <2> QED BY <1>1, <1>3, <2>1, <2>2, EmptyRange, Zenon DEF Extended
<1>4. CASE x # c
  <2>1. queue'[x] = queue[x] \o <<>> BY <1>1, <1>2, <1>4, ConcatEmptySeq
  <2> QED BY <1>1, <2>1, EmptyRange, Zenon DEF Extended
<1> QED BY <1>3, <1>4

(* The streams that are pushed to a client that has asked for them. *)
LEMMA RequestExtends ==
    ASSUME TypeOK, Superseded, NEW c \in Clients, HandleRequest(c),
           NEW x \in Clients
    PROVE  Extended(x)
<1> DEFINE a == Head(queue[c])
           us == {u \in Up(c) : a.up \in {None, u}}
<1>1. queue[c] # <<>> /\ Tail(queue[c]) \in Seq(Action)
      /\ queue[x] \in Seq(Action) /\ <<>> \in Seq(Action)
  BY HeadTyping, EmptySeq DEF HandleRequest, HandleNext, TypeOK
<1>2. PICK order \in [1..Cardinality(us) -> us] :
          queue' = [y \in Clients |->
                       (IF y = c THEN Tail(queue[y]) ELSE queue[y])
                       \o IF y = a.target THEN Pushes(order) ELSE <<>>]
  BY Zenon DEF HandleRequest
<1>3. us \in SUBSET Streams BY DEF Up
<1>4. Pushes(order) \in Seq(Action) BY <1>3, PushesTyping, Zenon
<1>5. \A b \in Range(Pushes(order)) : Sound(b)
  <2> SUFFICES ASSUME NEW i \in 1..Cardinality(us) PROVE Sound(Pushes(order)[i])
    BY DEF Range, Pushes
  <2>1. order[i] \in Streams BY <1>3
  <2>2. Gone(replace[order[i]]) BY <2>1 DEF Superseded
  <2>3. Pushes(order)[i] = Push(order[i], TRUE, tracks[order[i]],
                                replace[order[i]])
    BY DEF Pushes
  <2> QED BY <2>2, <2>3 DEF Sound, Push
<1> DEFINE q == IF x = c THEN Tail(queue[x]) ELSE queue[x]
           s == IF x = a.target THEN Pushes(order) ELSE <<>>
<1>6. q \in Seq(Action) /\ s \in Seq(Action)
      /\ (q = queue[x] \/ (queue[x] # <<>> /\ q = Tail(queue[x])))
  BY <1>1, <1>4
<1>7. queue'[x] = q \o s BY <1>2, Zenon
<1>8. \A b \in Range(s) : Sound(b)
  BY <1>5, EmptyRange, Zenon
<1> HIDE DEF q, s
<1> QED BY <1>6, <1>7, <1>8, Zenon DEF Extended

(* The stream that a client pushes to itself when a connection has failed. *)
LEMMA FailedExtends ==
    ASSUME TypeOK, NEW c \in Clients, HandleFailed(c), NEW x \in Clients
    PROVE  Extended(x)
<1> DEFINE u == Head(queue[c]).up
           d == down[c][u]
           a == Push(u, TRUE, d.tracks, None)
<1>1. Head(queue[c]) \in Action /\ Head(queue[c]).type = "failed"
      /\ queue[c] # <<>> /\ Tail(queue[c]) \in Seq(Action)
      /\ queue[x] \in Seq(Action) /\ <<>> \in Seq(Action)
  BY HeadTyping, EmptySeq DEF HandleFailed, HandleNext, TypeOK
<1>2. u \in Streams BY <1>1 DEF Action
<1>3. CASE d.open
  <2>1. queue' = [queue EXCEPT ![c] = Append(Tail(@), a)]
    BY <1>3, Zenon DEF HandleFailed
  <2>2. a \in Action
    <3>1. d \in Down BY <1>2 DEF TypeOK
    <3>2. d.tracks \in SUBSET Tracks BY <3>1 DEF Down
    <3> QED BY <1>2, <3>2, ActionTyping
  <2>3. Sound(a) BY DEF Sound, Gone, Push
  <2> HIDE DEF a, d
  <2>4. <<a>> \in Seq(Action) /\ Range(<<a>>) = {a} BY <2>2 DEF Range
  <2>5. \A b \in Range(<<a>>) : Sound(b) BY <2>3, <2>4
  <2>6. CASE x = c
    <3> DEFINE t == Tail(queue[c])
    <3>1. t \in Seq(Action) BY <1>1
    <3>2. queue'[c] = Append(t, a) BY <2>1 DEF TypeOK
    <3> HIDE DEF t
    <3>3. queue'[c] = t \o <<a>> BY <2>2, <3>1, <3>2, AppendIsConcat
    <3> QED BY <1>1, <2>4, <2>5, <2>6, <3>1, <3>3, Zenon DEF Extended, t
  <2>7. CASE x # c
    <3>1. queue'[x] = queue[x] \o <<>>
      BY <1>1, <2>1, <2>7, ConcatEmptySeq DEF TypeOK
    <3> QED BY <1>1, <3>1, EmptyRange, Zenon DEF Extended
  <2> QED BY <2>6, <2>7
<1>4. CASE ~d.open
  <2>1. Done(c) BY <1>4, Zenon DEF HandleFailed
  <2> QED BY <1>1, <2>1, DoneExtends
<1> QED BY <1>3, <1>4

(* That is all that steps do to queues. *)
LEMMA Extends ==
    ASSUME TypeOK, Superseded, Next, NEW x \in Clients
    PROVE  Extended(x)
<1>1. ASSUME NEW c \in Clients, NEW u \in Streams,
             CloseUp(c, u) \/ LeaveCloses(c, u)
      PROVE  Extended(x)
  <2> DEFINE a == Push(u, FALSE, {}, replace[u])
  <2>1. queue' = PutAll(Others(c), a) /\ state[u] = "up"
    BY <1>1 DEF CloseUp, LeaveCloses, DelUp, Up
  <2>2. a \in Action BY ActionTyping DEF TypeOK
  <2>3. Sound(a) BY <2>1 DEF Superseded, Sound, Push
  <2> HIDE DEF a
  <2> QED BY <2>1, <2>2, <2>3, PutExtends
<1>2. ASSUME NEW y \in timers, TimerTells(y) PROVE Extended(x)
  <2> DEFINE a == Push(y.up, TRUE, y.tracks, y.replace)
  <2>1. a \in Action BY ActionTyping DEF TypeOK, Timer
  <2>2. Sound(a) BY DEF Superseded, Sound, Push
  <2>3. queue' = PutAll(y.cs, a) BY <1>2, Zenon DEF TimerTells
  <2> HIDE DEF a
  <2> QED BY <2>1, <2>2, <2>3, PutExtends
<1>3. PublisherStep =>
         \/ UNCHANGED queue
         \/ \E c \in Clients, u \in Streams : CloseUp(c, u) \/ LeaveCloses(c, u)
         \/ \E y \in timers : TimerTells(y)
  BY DEF PublisherStep, Offer, OfferAccepted, TrackAdded, TrackAnnounced,
         TimerFires
<1>4. ASSUME NEW c \in Clients, NEW ts \in Choices, SetRequested(c, ts)
      PROVE  Extended(x)
  <2>1. queue' = PutAll(Others(c), Request(c, None)) BY <1>4 DEF SetRequested
  <2>2. Request(c, None) \in Action /\ Sound(Request(c, None))
    BY ActionTyping DEF Sound, Request
  <2> QED BY <2>1, <2>2, PutExtends
<1>5. ASSUME NEW c \in Clients, NEW u \in Streams, NEW ts,
             SetRequestedStream(c, u, ts)
      PROVE  Extended(x)
  <2>1. queue' = PutAll({Owner[u]}, Request(c, u))
    BY <1>5, Zenon DEF SetRequestedStream
  <2>2. Request(c, u) \in Action /\ Sound(Request(c, u))
    BY ActionTyping DEF Sound, Request
  <2> QED BY <2>1, <2>2, PutExtends
<1>6. ASSUME NEW c \in Clients, NEW u \in Streams, ConnectionFails(c, u)
      PROVE  Extended(x)
  <2>1. queue' = PutAll({c}, Failed(u)) BY <1>6, Zenon DEF ConnectionFails
  <2>2. Failed(u) \in Action /\ Sound(Failed(u))
    BY ActionTyping DEF Sound, Failed
  <2> QED BY <2>1, <2>2, PutExtends
<1>7. ReceiverStep =>
         \/ UNCHANGED queue
         \/ \E c \in Clients, ts \in Choices : SetRequested(c, ts)
         \/ \E c \in Clients, u \in Streams :
               \/ \E ts \in {None} \cup Choices : SetRequestedStream(c, u, ts)
               \/ ConnectionFails(c, u)
  BY Zenon DEF ReceiverStep, Join, Leave, LeaveDone, Abort, Answer, Renegotiate
<1>8. ASSUME NEW c \in Clients, HandlePush(c) \/ HandleWrongGroup(c)
      PROVE  Extended(x)
  BY <1>8, DoneExtends DEF HandlePush, HandleWrongGroup, HandleNext
<1>9. UNCHANGED queue => Extended(x) BY UnchangedExtends
<1>10. CASE PublisherStep BY <1>1, <1>2, <1>3, <1>9, <1>10
<1>11. CASE ReceiverStep BY <1>4, <1>5, <1>6, <1>7, <1>9, <1>11, Zenon
<1>12. CASE \E c \in Clients : HandleAction(c)
  BY <1>8, <1>12, RequestExtends, FailedExtends DEF HandleAction
<1> QED BY <1>10, <1>11, <1>12, Steps

(* What is announced to replace another stream is decided by gotOffer, when
   that one is deleted, and copied from there. *)
LEMMA StepSuperseded ==
    ASSUME TypeOK, Superseded, Announced, Next
    PROVE  Superseded'
<1> DEFINE Later(r) == r = None \/ state'[r] \in {"closed", "replaced"}
<1>0. \A r \in Streams \cup {None} : Gone(r) => Later(r)
  BY StillGone DEF Gone
<1>1. \A c \in Clients : \A a \in Range(queue'[c]) :
         a.type = "push" => Later(a.replace)
  <2> SUFFICES ASSUME NEW c \in Clients, NEW a \in Range(queue'[c]), a.type = "push"
               PROVE  Later(a.replace)
    OBVIOUS
  <2>1. Gone(a.replace) BY Extends, Extension
  <2>2. queue'[c] \in Seq(Action)
    BY StepTyping DEF TypeOK
  <2>3. Range(queue'[c]) \subseteq Action
    <3>1. Range(queue'[c]) = {queue'[c][i] : i \in 1..Len(queue'[c])}
      BY <2>2, RangeEquality
    <3>2. \A i \in 1..Len(queue'[c]) : queue'[c][i] \in Action
      BY <2>2, ElementOfSeq
    <3> QED BY <3>1, <3>2
  <2>4. a.replace \in Streams \cup {None} BY <2>3, PushFields
  <2> QED BY <1>0, <2>1, <2>4
<1>2. \A c \in Clients : LET r == offering'[c].replace
                         IN r # None => Owner[r] = c /\ state'[r] # "new"
  <2>1. \A c \in Clients : LET r == offering[c].replace
                           IN r # None => Owner[r] = c /\ state'[r] # "new"
    BY Ends DEF TypeOK, Superseded
  <2>2. ASSUME NEW c \in Clients, NEW u \in Streams,
               NEW r \in Streams \cup {None}, Offer(c, u, r)
        PROVE  \A x \in Clients : LET s == offering'[x].replace
                                  IN s # None => Owner[s] = x /\ state'[s] # "new"
    <3>1. offering' = [offering EXCEPT ![c] = [up |-> u, replace |-> r]]
          /\ (r # None => Owner[r] = c /\ state[r] # "new")
      BY <2>2 DEF Offer
    <3>2. r # None => state'[r] # "new" BY <3>1, Ends
    <3> QED BY <2>1, <3>1, <3>2 DEF TypeOK
  <2>3. ASSUME NEW c \in Clients, OfferAccepted(c)
        PROVE  \A x \in Clients : LET s == offering'[x].replace
                                  IN s # None => Owner[s] = x /\ state'[s] # "new"
    BY <2>1, <2>3 DEF OfferAccepted, NoOffer, TypeOK
  <2>4. PublisherStep =>
           \/ UNCHANGED offering
           \/ \E c \in Clients, u \in Streams :
                 \E r \in Streams \cup {None} : Offer(c, u, r)
           \/ \E c \in Clients : OfferAccepted(c)
    BY DEF PublisherStep, CloseUp, LeaveCloses, TrackAdded, TrackAnnounced,
           TimerFires, TimerTells
  <2>5. ReceiverStep => UNCHANGED offering
    BY DEF ReceiverStep, Join, Leave, LeaveDone, SetRequested,
           SetRequestedStream, Abort, Answer, Renegotiate, ConnectionFails
  <2>6. \A c \in Clients : HandleAction(c) => UNCHANGED offering
    BY DEF HandleAction, HandlePush, HandleRequest, HandleFailed,
           HandleWrongGroup
  <2> QED BY <2>1, <2>2, <2>3, <2>4, <2>5, <2>6, Steps
<1>3. \A u \in Streams : Later(replace'[u])
  <2>1. \A u \in Streams : Later(replace[u])
    BY <1>0 DEF TypeOK, Superseded
  <2>2. ASSUME NEW c \in Clients, OfferAccepted(c)
        PROVE  \A x \in Streams : Later(replace'[x])
    <3> DEFINE u == offering[c].up
               r == offering[c].replace
    <3>1. u \in Streams /\ r \in Streams \cup {None}
      BY <2>2 DEF OfferAccepted, TypeOK
    <3>2. replace' = [replace EXCEPT ![u] = r]
          /\ state' = IF r \in Up(c) THEN [state EXCEPT ![r] = "replaced"]
                                     ELSE state
      BY <2>2, Zenon DEF OfferAccepted
    <3>3. r # None => Owner[r] = c /\ state[r] # "new" BY DEF Superseded
    <3> HIDE DEF u, r
    <3>4. Later(r) BY <3>1, <3>2, <3>3 DEF Up, TypeOK
    <3> HIDE DEF Later
    <3> QED BY <2>1, <3>1, <3>2, <3>4 DEF TypeOK
  <2>3. ASSUME NEW x \in timers, TimerFires(x)
        PROVE  \A u \in Streams : Later(replace'[u])
    <3>1. \A u \in Streams : replace'[u] \in {replace[u], None}
      BY <2>3 DEF TimerFires, TypeOK
    <3> QED BY <2>1, <3>1
  <2>4. PublisherStep =>
           \/ UNCHANGED replace
           \/ \E c \in Clients : OfferAccepted(c)
           \/ \E x \in timers : TimerFires(x)
    BY DEF PublisherStep, Offer, CloseUp, LeaveCloses, TrackAdded,
           TrackAnnounced, TimerTells, upVars
  <2>5. ReceiverStep => UNCHANGED replace
    BY DEF ReceiverStep, Join, Leave, LeaveDone, SetRequested,
           SetRequestedStream, Abort, Answer, Renegotiate, ConnectionFails,
           upVars
  <2>6. \A c \in Clients : HandleAction(c) => UNCHANGED replace
    BY DEF HandleAction, HandlePush, HandleRequest, HandleFailed,
           HandleWrongGroup, upVars
  <2> QED BY <2>1, <2>2, <2>3, <2>4, <2>5, <2>6, Steps
<1>4. \A x \in timers' : Later(x.replace)
  <2>1. \A x \in timers : Later(x.replace)
    BY <1>0 DEF TypeOK, Timer, Superseded
  <2>2. \A c, u, r : Offer(c, u, r) =>
           timers' \subseteq timers \cup
              {[up |-> u, by |-> None, cs |-> Others(c),
                stage |-> "sleeping", tracks |-> {}, replace |-> None]}
    BY DEF Offer
  <2>3. \A u, t : TrackAnnounced(u, t) =>
           timers' \subseteq timers \cup
              {[up |-> u, by |-> t, cs |-> Others(Owner[u]),
                stage |-> "sleeping", tracks |-> {}, replace |-> None]}
    BY DEF TrackAnnounced
  <2>4. ASSUME NEW x \in timers, TimerFires(x)
        PROVE  \A y \in timers' : Later(y.replace)
    <3>1. x \in Timer BY DEF TypeOK
    <3> DEFINE y == [x EXCEPT !.stage = "telling",
                              !.tracks = tracks[x.up], !.replace = replace[x.up]]
    <3>2. timers' \subseteq timers \cup {y} BY <2>4 DEF TimerFires, Telling
    <3>3. y.replace = replace[x.up] /\ x.up \in Streams BY <3>1 DEF Timer
    <3>4. Later(replace[x.up]) BY <1>0, <3>3 DEF Superseded, TypeOK
    <3> HIDE DEF y, Later
    <3> QED BY <2>1, <3>2, <3>3, <3>4
  <2>5. PublisherStep =>
           \/ timers' \subseteq timers
           \/ \E c \in Clients, u \in Streams :
                 \E r \in Streams \cup {None} : Offer(c, u, r)
           \/ \E u \in Streams, t \in Tracks : TrackAnnounced(u, t)
           \/ \E x \in timers : TimerFires(x)
    BY DEF PublisherStep, CloseUp, LeaveCloses, OfferAccepted, TrackAdded,
           TimerTells
  <2>6. ReceiverStep => UNCHANGED timers
    BY DEF ReceiverStep, Join, Leave, LeaveDone, SetRequested,
           SetRequestedStream, Abort, Answer, Renegotiate, ConnectionFails
  <2>7. \A c \in Clients : HandleAction(c) => UNCHANGED timers
    BY DEF HandleAction, HandlePush, HandleRequest, HandleFailed,
           HandleWrongGroup
  <2> QED BY <2>1, <2>2, <2>3, <2>4, <2>5, <2>6, <2>7, Steps
<1> QED BY <1>1, <1>2, <1>3, <1>4 DEF Superseded, Gone

(* The order of announcements is kept. *)
LEMMA StepAnnounced ==
    ASSUME TypeOK, Superseded, Announced, Next
    PROVE  Announced'
<1>1. \A c \in Clients : Behind(queue'[c]) BY Extends, Extension
<1> QED BY <1>1 DEF Announced, Behind, IsClose

(* A closed connection shows nothing, and negotiations keep connections open. *)
LEMMA NegotiateExact ==
    \A d \in Down, restart \in BOOLEAN :
        d.open => /\ Negotiate(d, restart).open
                  /\ \A s : Exact(Negotiate(d, restart), TRUE, s)
BY DEF Negotiate, Down, Exact

\* What a step does to a connection and in the browser.
ExactAfter(x, y) == Exact(down'[x][y], y \in browser'[x], state[y])

(* An offer that follows for an open connection, or none. *)
LEMMA OfferExact ==
    ASSUME TypeOK, Shows, NEW c \in Clients, NEW u \in Streams,
           NEW e \in Down, e.open, NEW restart \in BOOLEAN, down[c][u].open,
           down' = [down EXCEPT ![c][u] = Negotiate(e, restart)],
           browser' = [browser EXCEPT ![c] = Shown(c, u, e, None)],
           NEW x \in Clients, NEW y \in Streams
    PROVE  ExactAfter(x, y)
<1>1. Exact(down[x][y], y \in browser[x], state[y]) BY DEF Shows
<1>2. u \in browser[c] BY DEF Shows, Exact
<1>3. down \in [Clients -> [Streams -> Down]]
      /\ browser \in [Clients -> SUBSET Streams]
  BY DEF TypeOK
<1>4. Shown(c, u, e, None) = browser[c]
  BY <1>2, <1>3, StreamsAssumption DEF Shown
<1>5. browser' = browser BY <1>3, <1>4
<1>6. CASE x = c /\ y = u
  <2>1. down'[x][y] = Negotiate(e, restart) BY <1>3, <1>6
  <2>2. Exact(Negotiate(e, restart), TRUE, state[y]) BY NegotiateExact
  <2>3. y \in browser'[x] BY <1>2, <1>5, <1>6
  <2> QED BY <2>1, <2>2, <2>3 DEF ExactAfter, Exact
<1>7. CASE ~(x = c /\ y = u)
  <2>1. down'[x][y] = down[x][y] BY <1>3, <1>7
  <2> QED BY <1>1, <1>5, <2>1 DEF ExactAfter
<1> QED BY <1>6, <1>7

(* The stream that is replaced is not announced as closed any more. *)
LEMMA ReplacedOnly ==
    ASSUME TypeOK, Superseded, Announced, Accounted, Shows, NEW c \in Clients,
           queue[c] # <<>>, Head(queue[c]).type = "push", Head(queue[c]).live,
           Head(queue[c]).replace \in browser[c]
    PROVE  state[Head(queue[c]).replace] = "replaced"
<1> DEFINE a == Head(queue[c])
           r == a.replace
<1>1. a \in Action /\ queue[c] \in Seq(Action) BY HeadTyping DEF TypeOK
<1>2. r \in Streams BY StreamsAssumption DEF TypeOK
<1>3. r # None /\ Gone(r)
  BY <1>2, HeadInRange, StreamsAssumption DEF Superseded
<1>4. down[c][r].open \/ state[r] = "replaced"
  BY <1>2 DEF Shows, Exact
<1> SUFFICES ASSUME down[c][r].open, state[r] = "closed" PROVE FALSE
  BY <1>3, <1>4 DEF Gone
<1>5. PICK b \in Range(queue[c]) : IsClose(b, r)
  BY <1>2 DEF Accounted, Closing
<1>6. Len(queue[c]) \in Nat \ {0} /\ queue[c][1] = a
  BY <1>1, EmptySeq
<1>7. PICK j \in 1..Len(queue[c]) : queue[c][j] = b
  BY <1>1, <1>5, RangeEquality
<1>8. j # 1 BY <1>5, <1>6, <1>7 DEF IsClose
<1>9. Behind(queue[c]) BY DEF Announced
<1>10. 1 \in 1..Len(queue[c]) /\ 1 < j BY <1>6, <1>7, <1>8
<1> QED BY <1>5, <1>6, <1>7, <1>9, <1>10 DEF Behind

(* pushDownConn, in each of its outcomes. *)
LEMMA PushExact ==
    ASSUME TypeOK, Superseded, Announced, Accounted, Shows,
           NEW c \in Clients, HandlePush(c), NEW x \in Clients, NEW y \in Streams
    PROVE  ExactAfter(x, y)
<1> DEFINE a == Head(queue[c])
           u == a.up
           r == a.replace
           wanted == Wanted(c, a)
           rest == IF r = None THEN down[c] ELSE [down[c] EXCEPT ![r] = NoDown]
           old == IF rest[u].open THEN rest[u] ELSE NewDown
           new == [old EXCEPT !.tracks = wanted]
<1>1. a \in Action /\ a.type = "push" /\ queue[c] # <<>>
  BY HeadTyping DEF HandlePush, HandleNext, TypeOK
<1>2. u \in Streams /\ r \in Streams \cup {None} /\ a.tracks \in SUBSET Tracks
      /\ a.live \in BOOLEAN
  BY <1>1, PushFields
<1>3. wanted \in SUBSET Tracks /\ (wanted # {} => a.live) BY <1>2 DEF Wanted
<1>4. rest \in [Streams -> Down]
      /\ \A z \in Streams : rest[z] = IF z = r THEN NoDown ELSE down[c][z]
  BY <1>2, DownTyping, StreamsAssumption DEF TypeOK
<1>5. old \in Down /\ old.open /\ (old.offered => old = rest[u] /\ rest[u].open)
  BY <1>2, <1>4, DownTyping DEF NewDown, NoDown
<1>6. new \in Down /\ new.open /\ new.offered = old.offered
  <2> HIDE DEF old, wanted
  <2> QED BY <1>3, <1>5 DEF Down
<1>7. \/ /\ down' = [down EXCEPT ![c] = [rest EXCEPT ![u] = NoDown]]
         /\ browser' = [browser EXCEPT ![c] = @ \ {u, r}]
      \/ /\ down' = [down EXCEPT ![c] = rest]
         /\ browser' = [browser EXCEPT ![c] = @ \ {r}]
      \/ /\ wanted # {}
         /\ down' = [down EXCEPT ![c] = [rest EXCEPT ![u] = Negotiate(new, FALSE)]]
         /\ browser' = [browser EXCEPT ![c] = Shown(c, u, new, r)]
  BY Zenon DEF HandlePush
<1>8. down \in [Clients -> [Streams -> Down]]
      /\ browser \in [Clients -> SUBSET Streams]
  BY DEF TypeOK
<1>9. Exact(down[x][y], y \in browser[x], state[y]) BY DEF Shows
<1>10. \A s : Exact(NoDown, FALSE, s) BY DEF NoDown, Exact
<1>11. CASE x # c
  <2>1. down'[x] = down[x] /\ browser'[x] = browser[x] BY <1>7, <1>8, <1>11
  <2> QED BY <1>9, <2>1 DEF ExactAfter
<1>13. wanted # {} /\ r \in browser[c] => state[r] = "replaced"
  BY <1>1, <1>3, ReplacedOnly
<1> HIDE DEF a, u, r, wanted, rest, old, new
<1>14. CASE x = c /\ /\ down' = [down EXCEPT ![c] = [rest EXCEPT ![u] = NoDown]]
                     /\ browser' = [browser EXCEPT ![c] = @ \ {u, r}]
  <2>1. down'[x][y] = IF y = u \/ y = r THEN NoDown ELSE down[x][y]
    BY <1>2, <1>4, <1>8, <1>14
  <2>2. y \in browser'[x] <=> y \in browser[x] /\ y # u /\ y # r
    BY <1>8, <1>14
  <2> QED BY <1>9, <1>10, <2>1, <2>2 DEF ExactAfter, Exact
<1>15. CASE x = c /\ /\ down' = [down EXCEPT ![c] = rest]
                     /\ browser' = [browser EXCEPT ![c] = @ \ {r}]
  <2>1. down'[x][y] = IF y = r THEN NoDown ELSE down[x][y]
    BY <1>2, <1>4, <1>8, <1>15
  <2>2. y \in browser'[x] <=> y \in browser[x] /\ y # r
    BY <1>8, <1>15
  <2> QED BY <1>9, <1>10, <2>1, <2>2 DEF ExactAfter, Exact
<1>16. CASE /\ x = c /\ wanted # {}
            /\ down' = [down EXCEPT ![c] = [rest EXCEPT ![u] = Negotiate(new, FALSE)]]
            /\ browser' = [browser EXCEPT ![c] = Shown(c, u, new, r)]
  <2>1. down'[x][y] = IF y = u THEN Negotiate(new, FALSE)
                      ELSE IF y = r THEN NoDown ELSE down[x][y]
    BY <1>2, <1>4, <1>8, <1>16
  <2>2. browser'[x] = IF new.offered THEN browser[x]
                      ELSE (browser[x] \ {r}) \cup {u}
    BY <1>8, <1>16 DEF Shown
  <2>3. CASE y = u
    <3>1. new.offered => u \in browser[x]
      <4>1. new.offered => u # r /\ down[c][u].open
        BY <1>2, <1>4, <1>5, <1>6, NoDownClosed
      <4> QED BY <1>2, <1>16, <4>1 DEF Shows, Exact
    <3>2. y \in browser'[x] BY <2>2, <2>3, <3>1
    <3>3. Exact(Negotiate(new, FALSE), TRUE, state[y]) BY <1>6, NegotiateExact
    <3> QED BY <2>1, <2>3, <3>2, <3>3 DEF ExactAfter, Exact
  <2>4. CASE y # u /\ y = r
    <3>1. y \in browser'[x] => state[y] = "replaced"
      BY <1>13, <1>16, <2>2, <2>4
    <3>2. down'[x][y] = NoDown BY <2>1, <2>4
    <3> QED BY <1>10, <3>1, <3>2 DEF ExactAfter, Exact
  <2>5. CASE y # u /\ y # r
    <3>1. down'[x][y] = down[x][y] /\ (y \in browser'[x] <=> y \in browser[x])
      BY <2>1, <2>2, <2>5
    <3> QED BY <1>9, <3>1 DEF ExactAfter, Exact
  <2> QED BY <2>3, <2>4, <2>5
<1> QED BY <1>7, <1>11, <1>14, <1>15, <1>16

(* The steps that concern the browsers. *)
LEMMA BrowserSteps ==
    ASSUME Next
    PROVE  \/ UNCHANGED downVars
           \/ \E c \in Clients :
                 \/ LeaveDone(c) \/ HandlePush(c) \/ HandleFailed(c)
                 \/ \E u \in Streams :
                       \/ \E ts \in {None} \cup Choices :
                             SetRequestedStream(c, u, ts)
                       \/ Abort(c, u) \/ Answer(c, u) \/ Renegotiate(c, u)
<1>1. PublisherStep => UNCHANGED downVars
  BY DEF PublisherStep, Offer, CloseUp, LeaveCloses, OfferAccepted, TrackAdded,
         TrackAnnounced, TimerFires, TimerTells
<1>2. \A c, ts, u :
         Join(c) \/ Leave(c) \/ SetRequested(c, ts) \/ ConnectionFails(c, u)
         => UNCHANGED downVars
  BY DEF Join, Leave, SetRequested, ConnectionFails
<1>3. \A c \in Clients :
         HandleRequest(c) \/ HandleWrongGroup(c) => UNCHANGED downVars
  BY DEF HandleRequest, HandleWrongGroup
<1>4. CASE PublisherStep BY <1>1, <1>4
<1>5. CASE ReceiverStep BY <1>2, <1>5, Zenon DEF ReceiverStep
<1>6. CASE \E c \in Clients : HandleAction(c)
  BY <1>3, <1>6, Zenon DEF HandleAction
<1> QED BY <1>4, <1>5, <1>6, Steps

(* Messages from the browser. *)
LEMMA MessageExact ==
    ASSUME TypeOK, Shows, NEW c \in Clients, NEW u \in Streams,
           \/ \E ts \in {None} \cup Choices : SetRequestedStream(c, u, ts)
           \/ Abort(c, u) \/ Answer(c, u) \/ Renegotiate(c, u),
           NEW x \in Clients, NEW y \in Streams
    PROVE  ExactAfter(x, y)
<1>1. /\ down \in [Clients -> [Streams -> Down]] /\ down[c][u] \in Down
      /\ browser \in [Clients -> SUBSET Streams]
      /\ Exact(down[c][u], u \in browser[c], state[u])
      /\ Exact(down[x][y], y \in browser[x], state[y])
  BY DEF TypeOK, Shows
<1>2. ASSUME NEW d, down' = [down EXCEPT ![c][u] = d], UNCHANGED browser,
             Exact(d, u \in browser[c], state[u])
      PROVE  ExactAfter(x, y)
  BY <1>1, <1>2 DEF ExactAfter
<1>3. ASSUME NEW ts, SetRequestedStream(c, u, ts) PROVE ExactAfter(x, y)
  <2> DEFINE d == [down[c][u] EXCEPT !.requested = ts]
  <2>1. down' = [down EXCEPT ![c][u] = d] /\ UNCHANGED browser
    BY <1>1, <1>3 DEF SetRequestedStream
  <2>2. Exact(d, u \in browser[c], state[u]) BY <1>1 DEF Exact, Down
  <2> HIDE DEF d
  <2> QED BY <1>2, <2>1, <2>2
<1>4. CASE Abort(c, u)
  BY <1>1, <1>4 DEF Abort, CloseDown, ExactAfter, Exact, NoDown
<1>5. CASE Answer(c, u)
  <2> DEFINE d == [down[c][u] EXCEPT !.offered = FALSE]
  <2>1. down[c][u].open BY <1>1, <1>5 DEF Answer, Exact
  <2>2. d \in Down /\ d.open /\ Exact(d, u \in browser[c], state[u])
    BY <1>1, <2>1 DEF Down, Exact
  <2>3. \/ /\ down' = [down EXCEPT ![c][u] = Negotiate(d, d.needed = "restart")]
           /\ browser' = [browser EXCEPT ![c] = Shown(c, u, d, None)]
        \/ down' = [down EXCEPT ![c][u] = d] /\ UNCHANGED browser
    BY <1>5, Zenon DEF Answer
  <2> HIDE DEF d
  <2> QED BY <1>2, <2>1, <2>2, <2>3, OfferExact
<1>6. CASE Renegotiate(c, u)
  <2> DEFINE d == down[c][u]
  <2>1. d \in Down /\ d.open BY <1>1, <1>6 DEF Renegotiate
  <2>2. /\ down' = [down EXCEPT ![c][u] = Negotiate(d, TRUE)]
        /\ browser' = [browser EXCEPT ![c] = Shown(c, u, d, None)]
    BY <1>6, Zenon DEF Renegotiate
  <2> QED BY <2>1, <2>2, OfferExact
<1> QED BY <1>3, <1>4, <1>5, <1>6

(* The connections and the browsers agree after every step. *)
LEMMA StepShows ==
    ASSUME TypeOK, Superseded, Announced, Accounted, Shows, Next
    PROVE  Shows'
<1> SUFFICES ASSUME NEW x \in Clients, NEW y \in Streams
             PROVE  Exact(down'[x][y], y \in browser'[x], state'[y])
  BY DEF Shows, Exact
<1>1. /\ down \in [Clients -> [Streams -> Down]]
      /\ browser \in [Clients -> SUBSET Streams]
      /\ Exact(down[x][y], y \in browser[x], state[y])
  BY DEF TypeOK, Shows
<1>2. ExactAfter(x, y)
  <2>1. CASE UNCHANGED downVars BY <1>1, <2>1 DEF downVars, ExactAfter
  <2>2. ASSUME NEW c \in Clients, LeaveDone(c) PROVE ExactAfter(x, y)
    BY <1>1, <2>2 DEF LeaveDone, ExactAfter, Exact, NoDown
  <2>3. ASSUME NEW c \in Clients, HandleFailed(c) PROVE ExactAfter(x, y)
    <3> DEFINE u == Head(queue[c]).up
               d == down[c][u]
    <3>1. u \in Streams
      BY <2>3, HeadTyping DEF HandleFailed, HandleNext, TypeOK, Action
    <3>2. CASE ~d.open
      <4>1. UNCHANGED downVars BY <2>3, <3>2, Zenon DEF HandleFailed
      <4> QED BY <2>1, <4>1
    <3>3. CASE d.open
      <4>1. /\ down' = [down EXCEPT ![c][u] = Negotiate(d, TRUE)]
            /\ browser' = [browser EXCEPT ![c] = Shown(c, u, d, None)]
        BY <2>3, <3>3, Zenon DEF HandleFailed
      <4>2. d \in Down BY <1>1, <3>1
      <4> HIDE DEF u
      <4> QED BY <3>1, <3>3, <4>1, <4>2, OfferExact
    <3> QED BY <3>2, <3>3
  <2> QED BY <2>1, <2>2, <2>3, PushExact, MessageExact, BrowserSteps
<1>3. state[y] = "replaced" => state'[y] = "replaced" BY Ends
<1> QED BY <1>2, <1>3 DEF ExactAfter, Exact

(* What a browser has been offered and not told to close is what the server
   sends to it, in every state: the deletion of a stream, the loss of its source
   and the departure of its receiver reach the browser in the step in which the
   connection is deleted.  That a stream that another one replaces is not taken
   for one that was closed depends on the order of the announcements. *)
THEOREM BrowsersExact == Spec => []BrowserExact
<1> DEFINE Inv == TypeOK /\ Addressed /\ Accounted
                  /\ Superseded /\ Announced /\ Shows
<1>1. Init => Inv
  <2> SUFFICES ASSUME Init PROVE Inv OBVIOUS
  <2>1. \A c \in Clients, u \in Streams :
           ~down[c][u].open /\ ~down[c][u].offered /\ u \notin browser[c]
    BY DEF Init, NoDown
  <2>2. \A c \in Clients : Range(queue[c]) = {} /\ queue[c] = <<>>
    BY EmptyRange DEF Init
  <2>3. Addressed /\ Accounted BY <2>1, <2>2 DEF Init, Addressed, Accounted
  <2>4. Superseded BY <2>2 DEF Init, Superseded, Gone, NoOffer
  <2>5. Announced
    <3>1. Len(<<>>) = 0 BY EmptySeq
    <3> QED BY <2>2, <3>1 DEF Announced, Behind
  <2>6. Shows BY <2>1 DEF Shows, Exact
  <2> QED BY <2>3, <2>4, <2>5, <2>6, InitTyping
<1>2. Inv /\ [Next]_vars => Inv'
  <2> SUFFICES ASSUME Inv, [Next]_vars PROVE Inv' OBVIOUS
  <2>1. CASE Next
    BY <2>1, StepTyping, StepAddressed, StepAccounted, StepSuperseded,
       StepAnnounced, StepShows
  <2>2. CASE UNCHANGED vars
    <3>1. TypeOK' /\ Addressed' /\ Accounted'
      BY <2>2 DEF vars, upVars, downVars, TypeOK, Addressed, Accounted,
                  Closing, IsClose, Proper
    <3>2. Superseded' BY <2>2 DEF vars, upVars, Superseded, Gone
    <3>3. Announced' BY <2>2 DEF vars, Announced, Behind, IsClose
    <3>4. Shows' BY <2>2 DEF vars, upVars, downVars, Shows, Exact
    <3> QED BY <3>1, <3>2, <3>3, <3>4
  <2> QED BY <2>1, <2>2
<1>3. Inv => BrowserExact
  BY DEF BrowserExact, Shows, Exact
<1> QED BY <1>1, <1>2, <1>3, PTL DEF Spec
=============================================================================
