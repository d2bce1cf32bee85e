-------------------------------- MODULE Whip --------------------------------
(***************************************************************************)
(* rtpconn/whipclient.go, webserver/whip.go and the parts of group/group.go*)
(* and diskwriter/diskwriter.go that they meet: clients that publish over  *)
(* HTTP, in one group, and the mutexes that their operations hold.         *)
(*                                                                         *)
(* A WHIP client has no loop of its own.  The handlers of HTTP requests,   *)
(* the callbacks of the WebRTC library and the goroutines of the clients   *)
(* that join, kick or record call its methods, and its mutex keeps them    *)
(* apart.  A step ends where a goroutine must wait for a mutex, or goes on *)
(* with what it read under one.  A mutex that is released at once only     *)
(* delays the step.                                                        *)
(*                                                                         *)
(* Web clients only join and receive here: modules WebClient and Streams   *)
(* are about the rest.  What is pushed to a web client takes effect at     *)
(* once, since it handles pushes in their order.  A stream gets one track. *)
(*                                                                         *)
(* Definitions marked "Mutation" are mistakes that the properties must     *)
(* notice, and not part of the model.                                      *)
(***************************************************************************)
EXTENDS FiniteSets

CONSTANTS Whips,      \* WHIP clients, one for every POST
          Ended,      \* bound: those whose connections may fail
          Viewers,    \* web clients
          Recorders,  \* clients that write to disk
          Attended,   \* the group has autolock or autokick
          Present,    \* who is in the group when the model starts
          None        \* nobody

Receivers == Viewers \cup Recorders
Clients == Whips \cup Receivers

(* The goroutines: the handlers of a WHIP client's POST and DELETE, or whoever
   kicks it, which comes to the same; the callback for the failure of its
   connection; and those that join or begin to record.  The end of the program
   is one more. *)
Closers == ({"delete"} \X Whips) \cup ({"failure"} \X Ended)
Posts == {"post"} \X Whips
Joins == {"join"} \X Receivers
Shutdown == <<"shutdown", None>>
Threads == Closers \cup Posts \cup Joins \cup {Shutdown}
Who(t) == t[2]

ASSUME WhipAssumption == /\ Ended \subseteq Whips
                         /\ Present \subseteq Whips \cup Viewers
                         /\ Whips \cap (Viewers \cup Recorders) = {}
                         /\ Viewers \cap Recorders = {}
                         /\ None \notin Clients \cup Threads
                         /\ Attended \in BOOLEAN

VARIABLES
    members,     \* g.clients
    groupMu,     \* the goroutine that holds g.mu, if any
    mu,          \* the one that holds a WHIP client's c.mu
    group,       \* c.group is not nil
    connection,  \* c.connection is not nil
    up,          \* the client's peer connection: "none", "live", "closed"
    track,       \* "none", "added" to it by OnTrack, or "announced"
    pushed,      \* up.pushed
    timers,      \* the goroutines of pushConn: [whip, cs]
    at,          \* where each goroutine is
    todo,        \* the clients it has yet to call
    fetched,     \* <<x, w>>: w.RequestConns has read w's connection for x
    receives,    \* the streams that a web client or recorder has
    closed,      \* the recorders that were closed
    panicked     \* a goroutine has panicked, which ends the server

whipVars == <<group, connection, up, track, pushed>>
outVars == <<timers, fetched, receives, closed>>
vars == <<members, groupMu, mu, whipVars, at, todo, outVars, panicked>>

\* Those who are present have published, or receive what others have.
Init == /\ members = Present
        /\ groupMu = None
        /\ mu = [w \in Whips |-> None]
        /\ group = [w \in Whips |-> TRUE]
        /\ connection = [w \in Whips |-> w \in Present]
        /\ up = [w \in Whips |-> IF w \in Present THEN "live" ELSE "none"]
        /\ track = [w \in Whips |-> IF w \in Present THEN "announced" ELSE "none"]
        /\ pushed = [w \in Whips |-> w \in Present]
        /\ timers = {}
        /\ at = [t \in Threads |->
                    IF Who(t) \notin Present \/ t \in Closers THEN "idle"
                    ELSE IF t \in Posts THEN "answered" ELSE "done"]
        /\ todo = [t \in Threads |-> {}]
        /\ fetched = {}
        /\ receives = [x \in Receivers |->
                          IF x \in Present THEN Present \cap Whips ELSE {}]
        /\ closed = {}
        /\ panicked = FALSE
-----------------------------------------------------------------------------
Goes(t, from, to) == /\ ~panicked
                     /\ at[t] = from /\ at' = [at EXCEPT ![t] = to]

\* Mutation: a recorder does not notice that it was closed.
PushConnAlways(cs, w, live) ==
    receives' = [x \in Receivers |->
        IF x \notin cs THEN receives[x]
        ELSE IF live THEN receives[x] \cup {w} ELSE receives[x] \ {w}]

(* PushConn of web clients and recorders.  A stream without tracks is dropped
   like one that was closed.  AddLocal never refuses: WhipClient.Close does not
   mark the connection as closed. *)
PushConn(cs, w, live) ==
    receives' = [x \in Receivers |->
        IF x \notin cs \/ x \in closed THEN receives[x]
        ELSE IF live THEN receives[x] \cup {w} ELSE receives[x] \ {w}]
-----------------------------------------------------------------------------
(* AddClient, for clients of all kinds.  It holds the group's mutex and asks
   the others for their permissions, for which a WHIP client takes its own. *)

AddLocks(t) ==
    /\ Goes(t, "idle", "adding")
    /\ groupMu = None /\ groupMu' = t
    /\ todo' = [todo EXCEPT ![t] = members \cap Whips]
    /\ UNCHANGED <<members, mu, whipVars, outVars, panicked>>

AddAsks(t, w) ==
    /\ ~panicked /\ at[t] = "adding" /\ w \in todo[t]
    /\ mu[w] = None
    /\ todo' = [todo EXCEPT ![t] = @ \ {w}]
    /\ UNCHANGED <<members, groupMu, mu, whipVars, at, outVars, panicked>>

Added(t) ==
    /\ Goes(t, "adding", "added")
    /\ todo[t] = {}
    /\ members' = members \cup {Who(t)}
    /\ groupMu' = None
    /\ UNCHANGED <<mu, whipVars, todo, outVars, panicked>>

\* Mutation: an early return without the deferred Unlock.
RefusedLocked(t) ==
    /\ Goes(t, "adding", "done")
    /\ Who(t) \notin Recorders
    /\ todo' = [todo EXCEPT ![t] = {}]
    /\ UNCHANGED <<members, groupMu, mu, whipVars, outVars, panicked>>

\* Bad credentials, a locked group, no operator, or too many users; recorders
\* are always admitted.
Refused(t) ==
    /\ Goes(t, "adding", "done")
    /\ Who(t) \notin Recorders
    /\ todo' = [todo EXCEPT ![t] = {}]
    /\ groupMu' = None
    /\ UNCHANGED <<members, mu, whipVars, outVars, panicked>>
-----------------------------------------------------------------------------
(* requestConns, which a web client or recorder that has joined calls next. *)

RequestConns(t) ==
    /\ Goes(t, "added", "asking")
    /\ groupMu = None
    /\ todo' = [todo EXCEPT ![t] = members \cap Whips]
    /\ UNCHANGED <<members, groupMu, mu, whipVars, outVars, panicked>>

\* WhipClient.RequestConns reads the connection...
Requested(t, w) ==
    /\ ~panicked /\ at[t] = "asking" /\ w \in todo[t]
    /\ \A y \in Whips : <<Who(t), y>> \notin fetched
    /\ mu[w] = None
    /\ todo' = [todo EXCEPT ![t] = @ \ {w}]
    /\ fetched' = IF group[w] /\ connection[w] THEN fetched \cup {<<Who(t), w>>}
                                               ELSE fetched
    /\ UNCHANGED <<members, groupMu, mu, whipVars, at, timers, receives, closed,
                   panicked>>

\* ...and pushes it without the mutex.
RequestPushes(x, w) ==
    /\ ~panicked /\ <<x, w>> \in fetched
    /\ fetched' = fetched \ {<<x, w>>}
    /\ PushConn({x}, w, track[w] # "none")
    /\ UNCHANGED <<members, groupMu, mu, whipVars, at, todo, timers, closed,
                   panicked>>

-----------------------------------------------------------------------------
(* whipEndpointHandler, after AddClient. *)

\* The client may present: newUpConn, and the first announcement, of no tracks.
PostCreates(t) ==
    LET w == Who(t)
    IN /\ Goes(t, "added", "created")
       /\ group[w] /\ mu[w] = None /\ groupMu = None
       /\ up' = [up EXCEPT ![w] = "live"]
       /\ timers' = timers \cup {[whip |-> w, cs |-> members \ {w}]}
       /\ UNCHANGED <<members, groupMu, mu, group, connection, track, pushed,
                      todo, fetched, receives, closed, panicked>>

\* The client may not present, or its offer is malformed.  If it was closed in
\* the meantime, newUpConn panics, and the HTTP server recovers from that.
PostFails(t) ==
    /\ mu[Who(t)] = None
    /\ Goes(t, "added", IF group[Who(t)] THEN "removing" ELSE "done")
    /\ UNCHANGED <<members, groupMu, mu, whipVars, todo, outVars, panicked>>

\* NewConnection holds the client's mutex until all ICE candidates are there.
PostConnects(t) ==
    LET w == Who(t)
    IN /\ Goes(t, "created", "gathering")
       /\ mu[w] = None /\ mu' = [mu EXCEPT ![w] = t]
       /\ connection' = [connection EXCEPT ![w] = TRUE]
       /\ UNCHANGED <<members, groupMu, group, up, track, pushed, todo, outVars,
                      panicked>>

PostAnswers(t) ==
    /\ Goes(t, "gathering", "answered")
    /\ mu' = [mu EXCEPT ![Who(t)] = None]
    /\ UNCHANGED <<members, groupMu, whipVars, todo, outVars, panicked>>

\* The offer is refused, or the publisher does not wait for the answer.
PostGivesUp(t) ==
    LET w == Who(t)
    IN /\ Goes(t, "gathering", "removing")
       /\ up' = [up EXCEPT ![w] = "closed"]
       /\ mu' = [mu EXCEPT ![w] = None]
       /\ UNCHANGED <<members, groupMu, group, connection, track, pushed, todo,
                      outVars, panicked>>

\* Mutation: the client stays in the group.
PostRemovesNothing(t) ==
    /\ Goes(t, "removing", "done")
    /\ UNCHANGED <<members, groupMu, mu, whipVars, todo, outVars, panicked>>

\* group.DelClient
PostRemoves(t) ==
    /\ Goes(t, "removing", "done")
    /\ group[Who(t)] => groupMu = None
    /\ members' = IF group[Who(t)] THEN members \ {Who(t)} ELSE members
    /\ UNCHANGED <<groupMu, mu, whipVars, todo, outVars, panicked>>
-----------------------------------------------------------------------------
(* The callbacks of the connection, and the goroutines of pushConn. *)

OnTrack(w) ==
    /\ ~panicked
    /\ at[<<"post", w>>] = "answered" /\ up[w] = "live" /\ track[w] = "none"
    /\ track' = [track EXCEPT ![w] = "added"]
    /\ UNCHANGED <<members, groupMu, mu, group, connection, up, pushed, at, todo,
                   outVars, panicked>>

\* The track is announced; c.Group() may be nil by then.
TrackAnnounced(w) ==
    /\ ~panicked
    /\ track[w] = "added"
    /\ \/ /\ group[w] /\ groupMu = None
          /\ track' = [track EXCEPT ![w] = "announced"]
          /\ pushed' = [pushed EXCEPT ![w] = FALSE]
          /\ timers' = timers \cup {[whip |-> w, cs |-> members \ {w}]}
          /\ UNCHANGED panicked
       \/ /\ ~group[w]
          /\ panicked' = TRUE
          /\ UNCHANGED <<track, pushed, timers>>
    /\ UNCHANGED <<members, groupMu, mu, group, connection, up, at, todo,
                   fetched, receives, closed>>

\* A goroutine of pushConn wakes up, and calls pushConnNow unless another one
\* has.
TimerFires(x) ==
    LET w == x.whip
    IN /\ ~panicked
       /\ timers' = timers \ {x}
       /\ pushed' = [pushed EXCEPT ![w] = TRUE]
       /\ IF pushed[w] THEN UNCHANGED receives
                       ELSE PushConn(x.cs, w, track[w] # "none")
       /\ UNCHANGED <<members, groupMu, mu, group, connection, up, track, at,
                      todo, fetched, closed, panicked>>
-----------------------------------------------------------------------------
(* WhipClient.Close, by several goroutines. *)

\* A DELETE of the resource, a failure of the connection, or a kick.
CloseStarts(t) ==
    LET w == Who(t)
    IN /\ Goes(t, "idle", "waiting")
       /\ IF t[1] = "failure"
          THEN up[w] = "live" /\ at[<<"post", w>>] \in {"gathering", "answered"}
          ELSE groupMu = None /\ w \in members
       /\ UNCHANGED <<members, groupMu, mu, whipVars, todo, outVars, panicked>>

\* What Close does before it needs the group's mutex.
Disconnect(w) == /\ connection' = [connection EXCEPT ![w] = FALSE]
                 /\ up' = IF connection[w] THEN [up EXCEPT ![w] = "closed"]
                                           ELSE up

CloseLocks(t) ==
    LET w == Who(t)
    IN /\ mu[w] = None
       /\ \/ /\ ~group[w]
             /\ Goes(t, "waiting", "done")
             /\ UNCHANGED <<mu, connection, up>>
          \/ /\ group[w]
             /\ Goes(t, "waiting", IF connection[w] THEN "listing" ELSE "deleting")
             /\ mu' = [mu EXCEPT ![w] = t]
             /\ Disconnect(w)
       /\ UNCHANGED <<members, groupMu, group, track, pushed, todo, outVars,
                      panicked>>

CloseTells(t) ==
    /\ Goes(t, "listing", "deleting")
    /\ groupMu = None
    /\ PushConn(members \ {Who(t)}, Who(t), FALSE)
    /\ UNCHANGED <<members, groupMu, mu, whipVars, todo, timers, fetched, closed,
                   panicked>>

\* Mutation: the client is still in the group while the others are asked.
CloseDeletesLate(t) ==
    LET w == Who(t)
    IN /\ Goes(t, "deleting", "scanning")
       /\ groupMu = None
       /\ members' = members
       /\ todo' = [todo EXCEPT ![t] = IF Attended /\ w \in members
                                      THEN (members \cap Whips) \ {w} ELSE {}]
       /\ UNCHANGED <<groupMu, mu, whipVars, outVars, panicked>>

\* DelClient; autoLockKick then asks the others for their permissions.
CloseDeletes(t) ==
    LET w == Who(t)
    IN /\ Goes(t, "deleting", "scanning")
       /\ groupMu = None
       /\ members' = members \ {w}
       /\ todo' = [todo EXCEPT ![t] = IF Attended /\ w \in members
                                      THEN (members \cap Whips) \ {w} ELSE {}]
       /\ UNCHANGED <<groupMu, mu, whipVars, outVars, panicked>>

CloseScans(t, w) ==
    /\ ~panicked /\ at[t] = "scanning" /\ w \in todo[t]
    /\ mu[w] = None
    /\ todo' = [todo EXCEPT ![t] = @ \ {w}]
    /\ UNCHANGED <<members, groupMu, mu, whipVars, at, outVars, panicked>>

\* Mutation: the client's mutex is not released.
CloseReturnsLocked(t) ==
    /\ Goes(t, "scanning", "done")
    /\ todo[t] = {}
    /\ group' = [group EXCEPT ![Who(t)] = FALSE]
    /\ UNCHANGED <<members, groupMu, mu, connection, up, track, pushed, todo,
                   outVars, panicked>>

CloseReturns(t) ==
    /\ Goes(t, "scanning", "done")
    /\ todo[t] = {}
    /\ group' = [group EXCEPT ![Who(t)] = FALSE]
    /\ mu' = [mu EXCEPT ![Who(t)] = None]
    /\ UNCHANGED <<members, groupMu, connection, up, track, pushed, todo, outVars,
                   panicked>>
-----------------------------------------------------------------------------
(* A recorder is closed by "unrecord" or a kick, then deleted from the group. *)

RecorderCloses(r) ==
    /\ ~panicked /\ groupMu = None
    /\ r \in members \ closed
    /\ closed' = closed \cup {r}
    /\ receives' = [receives EXCEPT ![r] = {}]
    /\ UNCHANGED <<members, groupMu, mu, whipVars, at, todo, timers, fetched,
                   panicked>>

RecorderDeleted(r) ==
    /\ ~panicked /\ groupMu = None
    /\ r \in members \cap closed
    /\ members' = members \ {r}
    /\ UNCHANGED <<groupMu, mu, whipVars, at, todo, outVars, panicked>>
-----------------------------------------------------------------------------
(* group.Shutdown: kickall, which holds the group's mutex while it calls Kick.
   A web client only queues the kick. *)

ShutdownStarts ==
    /\ Goes(Shutdown, "idle", "kicking")
    /\ groupMu = None /\ groupMu' = Shutdown
    /\ todo' = [todo EXCEPT ![Shutdown] = members \ Viewers]
    /\ UNCHANGED <<members, mu, whipVars, outVars, panicked>>

\* Close calls GetClients or DelClient, which wait for the group's mutex.
ShutdownKicksWhip(w) ==
    /\ Goes(Shutdown, "kicking", "stuck") /\ w \in todo[Shutdown]
    /\ mu[w] = None /\ mu' = [mu EXCEPT ![w] = Shutdown]
    /\ Disconnect(w)
    /\ UNCHANGED <<members, groupMu, group, track, pushed, todo, outVars,
                   panicked>>

\* Kick calls DelClient, which waits for the group's mutex.
ShutdownKicksRecorder(r) ==
    /\ Goes(Shutdown, "kicking", "stuck") /\ r \in todo[Shutdown]
    /\ closed' = closed \cup {r}
    /\ receives' = [receives EXCEPT ![r] = {}]
    /\ UNCHANGED <<members, groupMu, mu, whipVars, todo, timers, fetched,
                   panicked>>

ShutdownEnds ==
    /\ Goes(Shutdown, "kicking", "done") /\ todo[Shutdown] = {}
    /\ groupMu' = None
    /\ UNCHANGED <<members, mu, whipVars, todo, outVars, panicked>>
-----------------------------------------------------------------------------
Joining(t) == \/ AddLocks(t) \/ Added(t) \/ Refused(t)
              \/ \E w \in Whips : AddAsks(t, w)

Requesting(t) == \/ RequestConns(t)
                 \/ \E w \in Whips : Requested(t, w) \/ RequestPushes(Who(t), w)

Posting(t) == \/ PostCreates(t) \/ PostFails(t)
              \/ PostConnects(t) \/ PostAnswers(t) \/ PostGivesUp(t)
              \/ PostRemoves(t)

Closing(t) == \/ CloseLocks(t) \/ CloseTells(t)
              \/ CloseDeletes(t) \/ CloseReturns(t)
              \/ \E w \in Whips : CloseScans(t, w)

ShuttingDown == \/ ShutdownStarts \/ ShutdownEnds
                \/ \E w \in Whips : ShutdownKicksWhip(w)
                \/ \E r \in Recorders : ShutdownKicksRecorder(r)

Next == \/ \E t \in Posts : Joining(t) \/ Posting(t)
        \/ \E t \in Joins : Joining(t) \/ Requesting(t)
        \/ \E t \in Closers : CloseStarts(t) \/ Closing(t)
        \/ \E w \in Whips : OnTrack(w) \/ TrackAnnounced(w)
        \/ \E x \in timers : TimerFires(x)
        \/ \E r \in Recorders : RecorderCloses(r) \/ RecorderDeleted(r)
        \/ ShuttingDown

\* As long as a goroutine that has been started can run, some do; nobody has
\* to start anything.
Step(t) == /\ at[t] # "idle"
           /\ \/ t \in Posts /\ (Joining(t) \/ Posting(t))
              \/ t \in Joins /\ (Joining(t) \/ Requesting(t))
              \/ t \in Closers /\ Closing(t)
              \/ t = Shutdown /\ ShuttingDown

Spec == /\ Init /\ [][Next]_vars
        /\ WF_vars(\E t \in Threads : Step(t))
-----------------------------------------------------------------------------
Places == {"idle", "adding", "added", "asking", "created", "gathering",
           "removing", "answered", "waiting", "listing", "deleting",
           "scanning", "kicking", "stuck", "done"}

\* A mutex is held only between the Lock and the deferred Unlock.
TypeOK == /\ members \subseteq Clients
          /\ groupMu \in {None} \cup
                {t \in Threads : at[t] \in {"adding", "kicking", "stuck"}}
          /\ mu \in [Whips -> Threads \cup {None}]
          /\ group \in [Whips -> BOOLEAN]
          /\ connection \in [Whips -> BOOLEAN]
          /\ up \in [Whips -> {"none", "live", "closed"}]
          /\ track \in [Whips -> {"none", "added", "announced"}]
          /\ pushed \in [Whips -> BOOLEAN]
          /\ timers \subseteq [whip : Whips, cs : SUBSET Clients]
          /\ at \in [Threads -> Places]
          /\ todo \in [Threads -> SUBSET Clients]
          /\ fetched \subseteq Receivers \X Whips
          /\ receives \in [Receivers -> SUBSET Whips]
          /\ closed \subseteq Recorders
          /\ panicked \in BOOLEAN

(* The group's mutex is held by a goroutine that waits for a WHIP client, whose
   mutex is held by one that waits for the group's; or by kickall, which waits
   for itself. *)
Deadlocked ==
    \/ at[Shutdown] = "stuck"
    \/ groupMu # None
       /\ \E w \in todo[groupMu] \cap Whips :
             mu[w] # None /\ at[mu[w]] \in {"listing", "deleting"}

\* A goroutine has done all that it was started for.
Returned(t) == \/ at[t] \in {"answered", "done"}
               \/ /\ at[t] = "asking" /\ todo[t] = {}
                  /\ \A w \in Whips : <<Who(t), w>> \notin fetched

\* It may have to wait for a mutex that another one holds, whichever of those
\* it needs next.
Blocked(t) ==
    LET held == {w \in Whips : mu[w] # None}
        w == Who(t)
    IN \/ /\ groupMu # None
          /\ \/ at[t] \in {"added", "listing", "deleting", "stuck"}
             \/ at[t] = "removing" /\ group[w]
       \/ w \in held /\ at[t] \in {"added", "created", "waiting"}
       \/ /\ at[t] \in {"adding", "asking", "scanning", "kicking"}
          /\ todo[t] # {} /\ todo[t] \subseteq held

(* As long as calls of AddClient, NewConnection, RequestConns and Close have not
   returned, one of them can go on, unless they are Deadlocked: there is no other
   cycle in which they wait for the mutexes. *)
SomeoneRuns ==
    \/ \A t \in Threads : at[t] = "idle" \/ Returned(t)
    \/ Deadlocked \/ panicked
    \/ \E t \in Threads : at[t] # "idle" /\ ~Returned(t) /\ ~Blocked(t)

(* All calls of AddClient, NewConnection, RequestConns and Close return, unless
   some are Deadlocked. *)
EveryoneReturns ==
    []<>(\/ \A t \in Threads : at[t] = "idle" \/ Returned(t)
         \/ Deadlocked \/ panicked)

(* A client that was closed, or whose request failed, is not in the group,
   whichever of the goroutines that end it came first. *)
EndedLeft ==
    \A w \in Whips :
        \/ at[<<"post", w>>] = "done"
        \/ \E t \in Closers : Who(t) = w /\ at[t] = "done"
        => w \notin members

(* A recorder that was closed records nothing, although announcements and
   answers to its requests may still be on their way. *)
ClosedRecordNothing == \A r \in closed : receives[r] = {}
=============================================================================
