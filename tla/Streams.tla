------------------------------- MODULE Streams -------------------------------
(***************************************************************************)
(* rtpconn/webclient.go and rtpconn/rtpconn.go: how the streams that a     *)
(* client publishes reach the other clients of its group.  The publisher's *)
(* loop, the goroutines that announce a stream 200 ms after it changed,    *)
(* and the loops of the receivers work on it concurrently; they exchange   *)
(* the actions of module WebClient's queues.                               *)
(*                                                                         *)
(* The module follows one group, whose table of clients (module Group) is  *)
(* just a set here.  Stream identifiers are never used twice, all streams  *)
(* have the same label, and an answer belongs to the last offer.  A client *)
(* handles its actions one by one; that it takes them from the queue in    *)
(* batches only restricts when a message may come between two of them.     *)
(*                                                                         *)
(* Definitions marked "Mutation" are mistakes that the properties must     *)
(* notice, and not part of the model.                                      *)
(***************************************************************************)
EXTENDS Naturals, Sequences, FiniteSets

CONSTANTS Clients, Streams,
          Owner,         \* the client that publishes each stream
          Tracks,        \* the kinds of tracks a stream may have
          Choices,       \* bound: the sets of tracks that browsers request
          None,          \* no stream, no track, no override
          Present,       \* the clients in the group when the model starts,
          Asked,         \* and those of them that have requested everything
          Kinds,         \* bound: the kinds of outside events that happen,
          MaxBudget      \* and how many events in all

ASSUME StreamsAssumption == /\ IsFiniteSet(Streams)
                            /\ Owner \in [Streams -> Clients]
                            /\ Asked \subseteq Present /\ Present \subseteq Clients
                            /\ Choices \subseteq SUBSET Tracks
                            /\ None \notin Streams
                            /\ None \notin Tracks
                            /\ \A ts \in SUBSET Tracks : ts # None
ASSUME BudgetAssumption == MaxBudget \in Nat

VARIABLES
    members,    \* the clients of the group
    leaving,    \* those that are in leaveGroup
    state,      \* of a stream: "new", "up" while in c.up, then "closed",
                \* or "replaced" if it was deleted by gotOffer
    pushed,     \* up.pushed
    replace,    \* up.replace
    tracks,     \* up.tracks
    offering,   \* [up, replace] of a client in the middle of gotOffer
    arriving,   \* the tracks that OnTrack has added and not yet announced
    timers,     \* the goroutines of pushConn
    requested,  \* c.requested
    down,       \* c.down
    queue,      \* c.actions
    browser,    \* the streams that the client's browser receives
    budget,     \* what is left of MaxBudget
    panicked    \* a goroutine has panicked, which ends the server

upVars == <<state, pushed, replace, tracks>>
downVars == <<down, browser>>
vars == <<members, leaving, upVars, offering, arriving, timers, requested,
          downVars, queue, budget, panicked>>

NoOffer == [up |-> None, replace |-> None]

\* A down connection: sent is history, the tracks of the last offer.
NoDown == [open |-> FALSE, tracks |-> {}, requested |-> None,
           offered |-> FALSE, needed |-> "no", sent |-> {}]
NewDown == [NoDown EXCEPT !.open = TRUE]
Down == [open : BOOLEAN, tracks : SUBSET Tracks,
         requested : {None} \cup SUBSET Tracks, offered : BOOLEAN,
         needed : {"no", "yes", "restart"}, sent : SUBSET Tracks]

\* The actions; live is false when a stream is announced to be closed.
Push(u, live, ts, r) == [type |-> "push", up |-> u, live |-> live,
                         tracks |-> ts, replace |-> r]
Request(c, u) == [type |-> "request", target |-> c, up |-> u]
\* Mutation: the action is misspelt.
FailedMisspelt(u) == [type |-> "fail", up |-> u]
Failed(u) == [type |-> "failed", up |-> u]
Action == [type : {"push"}, up : Streams, live : BOOLEAN,
           tracks : SUBSET Tracks, replace : Streams \cup {None}]
          \cup [type : {"request"}, target : Clients,
                up : Streams \cup {None}]
          \cup [type : {"failed"}, up : Streams]

\* A goroutine of pushConn: why it was started, whom it will tell, whether it
\* sleeps or has copied what it will push.
Timer == [up : Streams, by : Tracks \cup {None}, cs : SUBSET Clients,
          stage : {"sleeping", "telling"},
          tracks : SUBSET Tracks, replace : Streams \cup {None}]

\* Nothing is published yet; those who have joined may have asked for what
\* will be.
Init == /\ members = Present
        /\ leaving = {}
        /\ state = [u \in Streams |-> "new"]
        /\ pushed = [u \in Streams |-> FALSE]
        /\ replace = [u \in Streams |-> None]
        /\ tracks = [u \in Streams |-> {}]
        /\ offering = [c \in Clients |-> NoOffer]
        /\ arriving = {}
        /\ timers = {}
        /\ requested = [c \in Clients |-> IF c \in Asked THEN Tracks ELSE {}]
        /\ down = [c \in Clients |-> [u \in Streams |-> NoDown]]
        /\ queue = [c \in Clients |-> <<>>]
        /\ browser = [c \in Clients |-> {}]
        /\ budget = MaxBudget
        /\ panicked = FALSE
-----------------------------------------------------------------------------
(* Helpers. *)

Spend(kind) == /\ kind \in Kinds
               /\ budget > 0 /\ budget' = budget - 1

\* g.GetClients(c)
Others(c) == members \ {c}

\* The client is in the group, and its loop is between two messages or
\* actions.
Ready(c) == /\ ~panicked
            /\ c \in members \ leaving /\ offering[c] = NoOffer

Up(c) == {u \in Streams : Owner[u] = c /\ state[u] = "up"}

PutAll(cs, a) == [c \in Clients |-> IF c \in cs THEN Append(queue[c], a)
                                               ELSE queue[c]]

\* Mutation: a change during a negotiation is not remembered.
NegotiateForgetting(d, restart) ==
    IF d.offered
    THEN [d EXCEPT !.needed = IF restart THEN "restart" ELSE @]
    ELSE [d EXCEPT !.offered = TRUE, !.needed = "no", !.sent = d.tracks]

\* negotiate: an offer, unless one is outstanding, in which case it is noted
\* that another one is needed.
Negotiate(d, restart) ==
    IF d.offered
    THEN [d EXCEPT !.needed = IF restart THEN "restart"
                              ELSE IF @ = "no" THEN "yes" ELSE @]
    ELSE [d EXCEPT !.offered = TRUE, !.needed = "no", !.sent = d.tracks]

\* Its effect on a client's browser, which closes the stream that is replaced
\* when it gets the offer.
Shown(c, u, d, r) == IF d.offered THEN browser[c]
                                  ELSE (browser[c] \ {r}) \cup {u}

\* Mutation: the browser is not told.
CloseDownSilently(c, u) == /\ down' = [down EXCEPT ![c][u] = NoDown]
                           /\ UNCHANGED browser

\* closeDownConn
CloseDown(c, u) == /\ down' = [down EXCEPT ![c][u] = NoDown]
                   /\ browser' = [browser EXCEPT ![c] = @ \ {u}]
-----------------------------------------------------------------------------
(* The publisher. *)

\* gotOffer up to addUpConn: a new connection, the first announcement of which
\* is scheduled for those who are in the group now.
Offer(c, u, r) ==
    /\ Ready(c)
    /\ Owner[u] = c /\ state[u] = "new"
    /\ r \in {None} \cup {x \in Streams : Owner[x] = c /\ state[x] # "new"}
    /\ state' = [state EXCEPT ![u] = "up"]
    /\ timers' = timers \cup
                    {[up |-> u, by |-> None, cs |-> Others(c),
                      stage |-> "sleeping", tracks |-> {}, replace |-> None]}
    /\ offering' = [offering EXCEPT ![c] = [up |-> u, replace |-> r]]
    /\ UNCHANGED <<members, leaving, pushed, replace, tracks, arriving,
                   requested, downVars, queue, budget, panicked>>

\* The rest of gotOffer: the stream that is replaced is deleted, and nobody
\* told of it.
OfferAccepted(c) ==
    LET u == offering[c].up
        r == offering[c].replace
    IN /\ ~panicked /\ u # None
       /\ offering' = [offering EXCEPT ![c] = NoOffer]
       /\ replace' = [replace EXCEPT ![u] = r]
       /\ state' = IF r \in Up(c) THEN [state EXCEPT ![r] = "replaced"]
                                  ELSE state
       /\ UNCHANGED <<members, leaving, pushed, tracks, arriving, timers,
                      requested, downVars, queue, budget, panicked>>

\* delUpConn, when the receivers are to be told.
DelUp(c, u) ==
    /\ state' = [state EXCEPT ![u] = "closed"]
    /\ queue' = PutAll(Others(c), Push(u, FALSE, {}, replace[u]))

\* The publisher closes a stream, or is no longer allowed to publish it.
CloseUp(c, u) ==
    /\ Ready(c) /\ u \in Up(c)
    /\ DelUp(c, u)
    /\ UNCHANGED <<members, leaving, pushed, replace, tracks, offering,
                   arriving, timers, requested, downVars, budget, panicked>>

\* The OnTrack callback, in a goroutine of its own: a track is added...
TrackAdded(u, t) ==
    /\ ~panicked
    /\ state[u] = "up" /\ offering[Owner[u]].up # u
    /\ t \notin tracks[u] /\ Spend("track")
    /\ tracks' = [tracks EXCEPT ![u] = @ \cup {t}]
    /\ arriving' = arriving \cup {<<u, t>>}
    /\ UNCHANGED <<members, leaving, state, pushed, replace, offering, timers,
                   requested, downVars, queue, panicked>>

\* ...and another announcement scheduled.  The publisher may have left the
\* group: its c.Group() is nil then.
TrackAnnounced(u, t) ==
    LET c == Owner[u]
    IN /\ ~panicked
       /\ <<u, t>> \in arriving
       /\ arriving' = arriving \ {<<u, t>>}
       /\ IF c \in members
          THEN /\ timers' = timers \cup
                     {[up |-> u, by |-> t, cs |-> Others(c),
                       stage |-> "sleeping", tracks |-> {}, replace |-> None]}
               /\ pushed' = [pushed EXCEPT ![u] = FALSE]
               /\ UNCHANGED panicked
          ELSE /\ panicked' = TRUE
               /\ UNCHANGED <<timers, pushed>>
       /\ UNCHANGED <<members, leaving, state, replace, tracks, offering,
                      requested, downVars, queue, budget>>
-----------------------------------------------------------------------------
(* The goroutine of pushConn. *)

\* A goroutine that has nobody to tell is done.
Telling(x, r) == IF x.cs = {} THEN {}
                 ELSE {[x EXCEPT !.stage = "telling",
                                 !.tracks = tracks[x.up], !.replace = r]}

\* It wakes up.  If another one has pushed the stream since it was scheduled,
\* it has nothing to do.  If not, pushConnNow copies what is to be pushed.
\* The mutex is released before pushConnNow takes it again and sets up.pushed
\* again: the step stands for the second section, before which nothing is
\* copied.
TimerFires(x) ==
    LET u == x.up
    IN /\ ~panicked /\ x.stage = "sleeping"
       /\ pushed' = [pushed EXCEPT ![u] = TRUE]
       /\ timers' = (timers \ {x}) \cup
                       IF pushed[u] THEN {} ELSE Telling(x, replace[u])
       /\ replace' = [replace EXCEPT ![u] = IF pushed[u] THEN @ ELSE None]
       /\ UNCHANGED <<members, leaving, state, tracks, offering, arriving,
                      requested, downVars, queue, budget, panicked>>

\* The rest of pushConnNow, without the mutex.
TimerTells(x) ==
    /\ ~panicked /\ x.stage = "telling"
    /\ timers' = timers \ {x}
    /\ queue' = PutAll(x.cs, Push(x.up, TRUE, x.tracks, x.replace))
    /\ UNCHANGED <<members, leaving, upVars, offering, arriving, requested,
                   downVars, budget, panicked>>
-----------------------------------------------------------------------------
(* Membership. *)

Join(c) == /\ ~panicked
           /\ c \notin members
           /\ Spend("join")
           /\ members' = members \cup {c}
           /\ UNCHANGED <<leaving, upVars, offering, arriving, timers,
                          requested, downVars, queue, panicked>>

\* leaveGroup closes what the client publishes, one stream after the other...
Leave(c) == /\ Ready(c) /\ Spend("leave")
            /\ leaving' = leaving \cup {c}
            /\ UNCHANGED <<members, upVars, offering, arriving, timers,
                           requested, downVars, queue, panicked>>

LeaveCloses(c, u) ==
    /\ ~panicked
    /\ c \in leaving /\ u \in Up(c)
    /\ DelUp(c, u)
    /\ UNCHANGED <<members, leaving, pushed, replace, tracks, offering,
                   arriving, timers, requested, downVars, budget, panicked>>

\* ...then what it receives, and only then deletes the client from the group.
LeaveDone(c) ==
    /\ ~panicked
    /\ c \in leaving /\ Up(c) = {}
    /\ leaving' = leaving \ {c}
    /\ members' = members \ {c}
    /\ down' = [down EXCEPT ![c] = [u \in Streams |-> NoDown]]
    /\ browser' = [browser EXCEPT ![c] = {}]
    /\ requested' = [requested EXCEPT ![c] = {}]
    /\ UNCHANGED <<upVars, offering, arriving, timers, queue, budget, panicked>>
-----------------------------------------------------------------------------
(* Messages from a receiver's browser. *)

\* setRequested: everybody is asked to push its streams to this client.
SetRequested(c, ts) ==
    /\ Ready(c) /\ Spend("request")
    /\ requested' = [requested EXCEPT ![c] = ts]
    /\ queue' = PutAll(Others(c), Request(c, None))
    /\ UNCHANGED <<members, leaving, upVars, offering, arriving, timers,
                   downVars, panicked>>

\* setRequestedStream, for a stream that the client receives; None, a null
\* request, takes the choice back.  A stream that has just been closed ends
\* the connection instead.
SetRequestedStream(c, u, ts) ==
    /\ Ready(c) /\ Spend("adjust")
    /\ down[c][u].open
    /\ down' = [down EXCEPT ![c][u].requested = ts]
    /\ queue' = PutAll({Owner[u]}, Request(c, u))
    /\ UNCHANGED <<members, leaving, upVars, offering, arriving, timers,
                   requested, browser, panicked>>

Abort(c, u) ==
    /\ Ready(c) /\ Spend("adjust")
    /\ CloseDown(c, u)
    /\ UNCHANGED <<members, leaving, upVars, offering, arriving, timers,
                   requested, queue, panicked>>

\* The answer to an offer: the next offer follows if one is needed.
Answer(c, u) ==
    LET d == [down[c][u] EXCEPT !.offered = FALSE]
    IN /\ Ready(c)
       /\ down[c][u].offered
       /\ IF d.needed # "no"
          THEN /\ down' = [down EXCEPT ![c][u] =
                              Negotiate(d, d.needed = "restart")]
               /\ browser' = [browser EXCEPT ![c] = Shown(c, u, d, None)]
          ELSE /\ down' = [down EXCEPT ![c][u] = d]
               /\ UNCHANGED browser
       /\ UNCHANGED <<members, leaving, upVars, offering, arriving, timers,
                      requested, queue, budget, panicked>>

\* The browser asks for a new negotiation.
Renegotiate(c, u) ==
    LET d == down[c][u]
    IN /\ Ready(c) /\ Spend("fail")
       /\ d.open
       /\ down' = [down EXCEPT ![c][u] = Negotiate(d, TRUE)]
       /\ browser' = [browser EXCEPT ![c] = Shown(c, u, d, None)]
       /\ UNCHANGED <<members, leaving, upVars, offering, arriving, timers,
                      requested, queue, panicked>>

\* The server finds that a connection to a receiver has failed.
ConnectionFails(c, u) ==
    /\ ~panicked
    /\ down[c][u].open
    /\ Spend("fail")
    /\ queue' = PutAll({c}, Failed(u))
    /\ UNCHANGED <<members, leaving, upVars, offering, arriving, timers,
                   requested, downVars, panicked>>
-----------------------------------------------------------------------------
(* Actions queued by other goroutines. *)

HandleNext(c, type) == /\ ~panicked
                       /\ offering[c] = NoOffer /\ c \notin leaving
                       /\ queue[c] # <<>> /\ Head(queue[c]).type = type

Done(c) == queue' = [queue EXCEPT ![c] = Tail(@)]

\* requestedTracks: what a client wants of a stream that is pushed to it.  The
\* choice made for a single stream also holds for the one that replaces it.
Wanted(c, a) ==
    LET old == IF a.replace # None THEN down[c][a.replace] ELSE down[c][a.up]
    IN IF ~a.live THEN {}
       ELSE a.tracks \cap IF old.requested # None THEN old.requested
                                                  ELSE requested[c]

\* Mutation: a stream is not asked whether it has been closed.
CanAddLate(c, u) == TRUE

\* rtpUpConnection.AddLocal, called by addDownConn for a new connection.
CanAdd(c, u) == down[c][u].open \/ state[u] = "up"

\* pushDownConn.
HandlePush(c) ==
    LET a == Head(queue[c])
        u == a.up
        r == a.replace
        wanted == Wanted(c, a)
        \* What is left once the replaced stream is deleted...
        rest == IF r = None THEN down[c] ELSE [down[c] EXCEPT ![r] = NoDown]
        old == IF rest[u].open THEN rest[u] ELSE NewDown
        new == [old EXCEPT !.tracks = wanted]
    IN /\ HandleNext(c, "push") /\ c \in members
       /\ Done(c)
       /\ \/ /\ wanted = {}
             /\ down' = [down EXCEPT ![c] = [rest EXCEPT ![u] = NoDown]]
             /\ browser' = [browser EXCEPT ![c] = @ \ {u, r}]
          \/ /\ wanted # {} /\ ~CanAdd(c, u)
             /\ down' = [down EXCEPT ![c] = rest]
             /\ browser' = [browser EXCEPT ![c] = @ \ {r}]
          \/ /\ wanted # {} /\ CanAdd(c, u) /\ old.tracks = wanted
             /\ down' = [down EXCEPT ![c] = rest]
             /\ browser' = [browser EXCEPT ![c] = @ \ {r}]
          \/ /\ wanted # {} /\ CanAdd(c, u) /\ old.tracks # wanted
             /\ down' = [down EXCEPT ![c] =
                            [rest EXCEPT ![u] = Negotiate(new, FALSE)]]
             /\ browser' = [browser EXCEPT ![c] = Shown(c, u, new, r)]
       /\ UNCHANGED <<members, leaving, upVars, offering, arriving, timers,
                      requested, budget, panicked>>

Pushes(order) == [i \in DOMAIN order |->
                     Push(order[i], TRUE, tracks[order[i]], replace[order[i]])]

\* requestConnsAction: the client that asked is sent all streams, or one.  In
\* a map's order, which is any.
HandleRequest(c) ==
    LET a == Head(queue[c])
        us == {u \in Up(c) : a.up \in {None, u}}
    IN /\ HandleNext(c, "request") /\ c \in members
       /\ \E order \in [1..Cardinality(us) -> us] :
             /\ \A u \in us : \E i \in DOMAIN order : order[i] = u
             /\ queue' = [x \in Clients |->
                    (IF x = c THEN Tail(queue[x]) ELSE queue[x])
                    \o IF x = a.target THEN Pushes(order) ELSE <<>>]
       /\ UNCHANGED <<members, leaving, upVars, offering, arriving, timers,
                      requested, downVars, budget, panicked>>

\* connectionFailedAction: an ICE restart, and a push to itself of the tracks
\* that the connection has.
HandleFailed(c) ==
    LET u == Head(queue[c]).up
        d == down[c][u]
    IN /\ HandleNext(c, "failed")
       /\ IF d.open
          THEN /\ down' = [down EXCEPT ![c][u] = Negotiate(d, TRUE)]
               /\ browser' = [browser EXCEPT ![c] = Shown(c, u, d, None)]
               /\ queue' = [queue EXCEPT ![c] =
                               Append(Tail(@), Push(u, TRUE, d.tracks, None))]
          ELSE Done(c) /\ UNCHANGED downVars
       /\ UNCHANGED <<members, leaving, upVars, offering, arriving, timers,
                      requested, budget, panicked>>

\* A push or a request that arrives after the client left.
HandleWrongGroup(c) ==
    /\ HandleNext(c, "push") \/ HandleNext(c, "request")
    /\ c \notin members
    /\ Done(c)
    /\ UNCHANGED <<members, leaving, upVars, offering, arriving, timers,
                   requested, downVars, budget, panicked>>

HandleAction(c) == \/ HandlePush(c) \/ HandleRequest(c)
                   \/ HandleFailed(c) \/ HandleWrongGroup(c)
-----------------------------------------------------------------------------
Message(c) ==
    \/ Join(c) \/ Leave(c)
    \/ \E ts \in Choices : SetRequested(c, ts)
    \/ \E u \in Streams :
          \/ \E r \in Streams \cup {None} : Offer(c, u, r)
          \/ CloseUp(c, u)
          \/ \E ts \in {None} \cup Choices : SetRequestedStream(c, u, ts)
          \/ Abort(c, u) \/ Answer(c, u) \/ Renegotiate(c, u)

Loop(c) == \/ OfferAccepted(c)
           \/ (\E u \in Streams : LeaveCloses(c, u)) \/ LeaveDone(c)
           \/ HandleAction(c)

Next == \/ \E c \in Clients :
              \/ Message(c) \/ Loop(c)
              \/ \E u \in Streams : ConnectionFails(c, u)
        \/ \E u \in Streams, t \in Tracks :
              TrackAdded(u, t) \/ TrackAnnounced(u, t)
        \/ \E x \in timers : TimerFires(x) \/ TimerTells(x)

Spec == Init /\ [][Next]_vars
-----------------------------------------------------------------------------
TypeOK == /\ members \subseteq Clients
          /\ leaving \subseteq members
          /\ state \in [Streams -> {"new", "up", "closed", "replaced"}]
          /\ pushed \in [Streams -> BOOLEAN]
          /\ replace \in [Streams -> Streams \cup {None}]
          /\ tracks \in [Streams -> SUBSET Tracks]
          /\ offering \in [Clients -> [up : Streams \cup {None},
                                       replace : Streams \cup {None}]]
          /\ arriving \subseteq Streams \X Tracks
          /\ timers \subseteq Timer
          /\ requested \in [Clients -> SUBSET Tracks]
          /\ down \in [Clients -> [Streams -> Down]]
          /\ queue \in [Clients -> Seq(Action)]
          /\ browser \in [Clients -> SUBSET Streams]
          /\ budget \in 0..MaxBudget
          /\ panicked \in BOOLEAN

\* Nothing is under way any more.
Quiet == /\ ~panicked /\ leaving = {} /\ arriving = {} /\ timers = {}
         /\ \A c \in Clients : queue[c] = <<>> /\ offering[c] = NoOffer

(* What a receiver has been offered is what it is to receive, or else another
   offer is owed to it; and one is owed only while an answer is awaited, which
   is when it will be made. *)
OfferCurrent ==
    \A c \in Clients, u \in Streams :
        LET d == down[c][u]
        IN d.open => /\ d.sent = d.tracks \/ d.needed # "no"
                     /\ d.needed # "no" => d.offered

(* A down connection does not survive a source that was closed, although
   announcements of the source may still be on their way: otherwise "we'd never
   get rid of the down connection" (rtpconn.go:554).  A source that was replaced
   is another matter: gotOffer lists those who will be told before it deletes
   the old stream, which a client that joins in between may still receive. *)
NoOrphan ==
    Quiet => \A c \in Clients, u \in Streams :
        down[c][u].open => c \in members /\ state[u] # "closed"

(* The browser has been offered whatever the server sends to it, and whatever
   it has is sent to it: it is told of every stream that ends, at once.  A
   stream that was replaced is exempt.  It is the next offer that closes it in
   the browser, and that offer is not made while another is unanswered. *)
BrowserExact ==
    \A c \in Clients, u \in Streams :
        /\ down[c][u].open => u \in browser[c]
        /\ u \in browser[c] => down[c][u].open \/ state[u] = "replaced"
=============================================================================
