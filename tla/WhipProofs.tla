----------------------------- MODULE WhipProofs -----------------------------
(* Publishers over HTTP and recorders that end have left, and the mutexes of
   the group and of its clients block one another in no way but the known ones,
   for any number of clients. *)
EXTENDS Whip, TLAPS

(* The invariant. *)

\* The group's mutex is held from Lock to the deferred Unlock, and nobody leaves
\* while the members are called; only kickall gets stuck.
GroupLocked ==
    \A t \in Threads : at[t] \in {"adding", "kicking", "stuck"} =>
        /\ groupMu = t
        /\ at[t] # "stuck" => todo[t] \subseteq members
        /\ at[t] = "stuck" => t = Shutdown

\* A WHIP client's mutex is held by its own handlers, or by kickall, for ever.
ClientLocked ==
    \A w \in Whips : mu[w] # None =>
        \/ /\ Who(mu[w]) = w
           /\ at[mu[w]] \in {"gathering", "listing", "deleting", "scanning"}
        \/ mu[w] = Shutdown /\ at[Shutdown] = "stuck"

\* A client is closed only after it was added, and is added only once.
Entered ==
    /\ \A w \in Whips :
          /\ at[<<"post", w>>] \in {"idle", "adding", "done"} => w \notin members
          /\ ~group[w] => /\ w \notin members
                          /\ at[<<"post", w>>] \notin {"idle", "adding"}
    /\ \A t \in Closers :
          at[t] # "idle" => at[<<"post", Who(t)>>] \notin {"idle", "adding"}

\* A client that asks the others for their permissions has left, and stays away.
Gone ==
    /\ \A t \in Threads : at[t] = "scanning" => t \in Closers
    /\ \A t \in Closers : at[t] \in {"scanning", "done"} => Who(t) \notin members

\* Among those that ask, the last one to leave asks none of the others.
Acyclic ==
    \A S \in SUBSET {t \in Threads : at[t] = "scanning"} :
        S # {} => \E s \in S : \A u \in S : Who(u) \notin todo[s]

IInv == /\ TypeOK /\ GroupLocked /\ ClientLocked
        /\ Entered /\ Gone /\ Acyclic /\ ClosedRecordNothing
-----------------------------------------------------------------------------
(* The goroutines. *)

\* Goroutines of different kinds are told apart.
LEMMA Kinds ==
    /\ Posts \subseteq Threads /\ Joins \subseteq Threads /\ Closers \subseteq Threads
    /\ Shutdown \in Threads /\ None \notin Threads
    /\ Posts \cap Joins = {} /\ Posts \cap Closers = {} /\ Joins \cap Closers = {}
    /\ Shutdown \notin Posts \cup Joins \cup Closers
    /\ \A t \in Posts : Who(t) \in Whips /\ t = <<"post", Who(t)>>
    /\ \A t \in Closers : Who(t) \in Whips
    /\ \A t \in Joins : Who(t) \in Receivers
    /\ \A w \in Whips : <<"post", w>> \in Posts /\ Who(<<"post", w>>) = w
    /\ Who(Shutdown) = None
    /\ Whips \cap Receivers = {} /\ None \notin Clients
    /\ Whips \subseteq Clients /\ Recorders \subseteq Receivers
    /\ Receivers \subseteq Clients /\ Viewers \subseteq Clients
<1>1. Who(Shutdown) = None /\ Shutdown \in Threads /\ Shutdown[1] = "shutdown"
  BY DEF Who, Shutdown, Threads
<1>2. \A t \in Posts : t[1] = "post" /\ Who(t) \in Whips /\ t = <<"post", Who(t)>>
  BY DEF Who, Posts
<1>3. \A t \in Joins : t[1] = "join" /\ Who(t) \in Receivers
  BY DEF Who, Joins
<1>4. \A t \in Closers : t[1] \in {"delete", "failure"} /\ Who(t) \in Whips
  BY WhipAssumption DEF Who, Closers
<1>5. \A w \in Whips : <<"post", w>> \in Posts /\ Who(<<"post", w>>) = w
  BY DEF Who, Posts
<1> QED
  BY <1>1, <1>2, <1>3, <1>4, <1>5, WhipAssumption
     DEF Threads, Receivers, Clients
-----------------------------------------------------------------------------
(* Types. *)

\* A goroutine that goes from one place to another leaves a mutex of the group
\* with whoever holds it.
LEMMA GoesType ==
    ASSUME TypeOK, NEW t \in Threads, NEW from \in Places, NEW to \in Places,
           Goes(t, from, to)
    PROVE  /\ at' \in [Threads -> Places]
           /\ at'[t] = to
           /\ \A u \in Threads : u # t => at'[u] = at[u]
           /\ from \notin {"adding", "kicking"} /\ from # "stuck" =>
                groupMu \in {None} \cup
                    {u \in Threads : at'[u] \in {"adding", "kicking", "stuck"}}
  BY DEF TypeOK, Goes

\* What is pushed to web clients and recorders is a stream.
LEMMA PushType ==
    ASSUME TypeOK, NEW cs, NEW w \in Whips, NEW live, PushConn(cs, w, live)
    PROVE  receives' \in [Receivers -> SUBSET Whips]
  BY DEF TypeOK, PushConn

\* Every step keeps the types.
LEMMA TypeStep ==
    ASSUME TypeOK, [Next]_vars
    PROVE  TypeOK'
<1> USE Kinds
<1>1. ASSUME NEW t \in Posts \cup Joins, AddLocks(t) PROVE TypeOK'
  BY <1>1, GoesType DEF TypeOK, whipVars, outVars, AddLocks, Places
<1>2. ASSUME NEW t \in Posts \cup Joins, Added(t) PROVE TypeOK'
  BY <1>2, GoesType, SMTT(30) DEF TypeOK, whipVars, outVars, Added, Places
<1>3. ASSUME NEW t \in Posts \cup Joins, Refused(t) PROVE TypeOK'
  BY <1>3, GoesType DEF TypeOK, whipVars, outVars, Refused, Places
<1>4. ASSUME NEW t \in Posts \cup Joins, NEW w \in Whips, AddAsks(t, w)
      PROVE  TypeOK'
  BY <1>4 DEF TypeOK, whipVars, outVars, AddAsks
<1>5. ASSUME NEW t \in Joins, RequestConns(t) PROVE TypeOK'
  BY <1>5, GoesType DEF TypeOK, whipVars, outVars, RequestConns, Places
<1>6. ASSUME NEW t \in Joins, NEW w \in Whips, Requested(t, w) PROVE TypeOK'
  BY <1>6 DEF TypeOK, whipVars, outVars, Requested
<1>7. ASSUME NEW t \in Joins, NEW w \in Whips, RequestPushes(Who(t), w)
      PROVE  TypeOK'
  BY <1>7, PushType DEF TypeOK, whipVars, outVars, RequestPushes
<1>8. ASSUME NEW t \in Posts, PostCreates(t) PROVE TypeOK'
  BY <1>8, GoesType, SMTT(30) DEF TypeOK, whipVars, outVars, PostCreates, Places
<1>9. ASSUME NEW t \in Posts, PostFails(t) PROVE TypeOK'
  BY <1>9, GoesType DEF TypeOK, whipVars, outVars, PostFails, Places
<1>10. ASSUME NEW t \in Posts, PostConnects(t) PROVE TypeOK'
  BY <1>10, GoesType DEF TypeOK, whipVars, outVars, PostConnects, Places
<1>11. ASSUME NEW t \in Posts, PostAnswers(t) PROVE TypeOK'
  BY <1>11, GoesType DEF TypeOK, whipVars, outVars, PostAnswers, Places
<1>12. ASSUME NEW t \in Posts, PostGivesUp(t) PROVE TypeOK'
  BY <1>12, GoesType DEF TypeOK, whipVars, outVars, PostGivesUp, Places
<1>13. ASSUME NEW t \in Posts, PostRemoves(t) PROVE TypeOK'
  BY <1>13, GoesType DEF TypeOK, whipVars, outVars, PostRemoves, Places
<1>14. ASSUME NEW t \in Closers, CloseStarts(t) PROVE TypeOK'
  BY <1>14, GoesType DEF TypeOK, whipVars, outVars, CloseStarts, Places
<1>15. ASSUME NEW t \in Closers, CloseLocks(t) PROVE TypeOK'
  <2>1. Who(t) \in Whips /\ t \in Threads
    OBVIOUS
  <2>2. \E to \in {"done", "listing", "deleting"} : Goes(t, "waiting", to)
    BY <1>15 DEF CloseLocks
  <2>3. /\ at' \in [Threads -> Places]
        /\ groupMu \in {None} \cup
              {u \in Threads : at'[u] \in {"adding", "kicking", "stuck"}}
    BY <2>1, <2>2, GoesType DEF Places
  <2>4. /\ mu' \in [Whips -> Threads \cup {None}]
        /\ connection' \in [Whips -> BOOLEAN]
        /\ up' \in [Whips -> {"none", "live", "closed"}]
    <3>1. \/ UNCHANGED <<mu, connection, up>>
          \/ mu' = [mu EXCEPT ![Who(t)] = t] /\ Disconnect(Who(t))
      BY <1>15 DEF CloseLocks
    <3>2. CASE UNCHANGED <<mu, connection, up>>
      BY <3>2 DEF TypeOK
    <3>3. CASE mu' = [mu EXCEPT ![Who(t)] = t] /\ Disconnect(Who(t))
      <4>1. mu' \in [Whips -> Threads \cup {None}]
        BY <2>1, <3>3 DEF TypeOK
      <4>2. /\ connection' \in [Whips -> BOOLEAN]
            /\ up' \in [Whips -> {"none", "live", "closed"}]
        BY <2>1, <3>3 DEF TypeOK, Disconnect
      <4> QED
        BY <4>1, <4>2
    <3> QED
      BY <3>1, <3>2, <3>3
  <2>5. UNCHANGED <<members, groupMu, group, track, pushed, todo, timers, fetched,
                    receives, closed, panicked>>
    BY <1>15 DEF CloseLocks, outVars
  <2> QED
    BY <2>3, <2>4, <2>5 DEF TypeOK
<1>16. ASSUME NEW t \in Closers, CloseTells(t) PROVE TypeOK'
  BY <1>16, GoesType, PushType DEF TypeOK, whipVars, outVars, CloseTells, Places
<1>17. ASSUME NEW t \in Closers, CloseDeletes(t) PROVE TypeOK'
  BY <1>17, GoesType DEF TypeOK, whipVars, outVars, CloseDeletes, Places
<1>18. ASSUME NEW t \in Closers, NEW w \in Whips, CloseScans(t, w) PROVE TypeOK'
  BY <1>18 DEF TypeOK, whipVars, outVars, CloseScans
<1>19. ASSUME NEW t \in Closers, CloseReturns(t) PROVE TypeOK'
  BY <1>19, GoesType DEF TypeOK, whipVars, outVars, CloseReturns, Places
<1>20. ASSUME NEW w \in Whips, OnTrack(w) PROVE TypeOK'
  BY <1>20 DEF TypeOK, whipVars, outVars, OnTrack
<1>21. ASSUME NEW w \in Whips, TrackAnnounced(w) PROVE TypeOK'
  <2> DEFINE x == [whip |-> w, cs |-> members \ {w}]
  <2>1. x \in [whip : Whips, cs : SUBSET Clients]
    BY DEF TypeOK
  <2>2. UNCHANGED <<members, groupMu, mu, group, connection, up, at, todo, fetched,
                    receives, closed>>
    BY <1>21 DEF TrackAnnounced
  <2>3. CASE /\ track' = [track EXCEPT ![w] = "announced"]
             /\ pushed' = [pushed EXCEPT ![w] = FALSE]
             /\ timers' = timers \cup {x}
             /\ UNCHANGED panicked
    <3>1. timers' \subseteq [whip : Whips, cs : SUBSET Clients]
      BY <2>1, <2>3 DEF TypeOK
    <3>2. /\ track' \in [Whips -> {"none", "added", "announced"}]
          /\ pushed' \in [Whips -> BOOLEAN]
      BY <2>3 DEF TypeOK
    <3> QED
      BY <2>2, <2>3, <3>1, <3>2 DEF TypeOK
  <2>4. CASE panicked' = TRUE /\ UNCHANGED <<track, pushed, timers>>
    BY <2>2, <2>4 DEF TypeOK
  <2> QED
    BY <1>21, <2>3, <2>4 DEF TrackAnnounced
<1>22. ASSUME NEW x \in timers, TimerFires(x) PROVE TypeOK'
  BY <1>22, PushType DEF TypeOK, whipVars, outVars, TimerFires
<1>23. ASSUME NEW r \in Recorders, RecorderCloses(r) PROVE TypeOK'
  BY <1>23 DEF TypeOK, whipVars, outVars, RecorderCloses
<1>24. ASSUME NEW r \in Recorders, RecorderDeleted(r) PROVE TypeOK'
  BY <1>24 DEF TypeOK, whipVars, outVars, RecorderDeleted
<1>25. CASE ShutdownStarts
  BY <1>25, GoesType DEF TypeOK, whipVars, outVars, ShutdownStarts, Places, Goes
<1>26. ASSUME NEW w \in Whips, ShutdownKicksWhip(w) PROVE TypeOK'
  BY <1>26, GoesType
     DEF TypeOK, whipVars, outVars, ShutdownKicksWhip, Places, Disconnect, Goes
<1>27. ASSUME NEW r \in Recorders, ShutdownKicksRecorder(r) PROVE TypeOK'
  <2>1. /\ at' \in [Threads -> Places]
        /\ groupMu \in {None} \cup
              {u \in Threads : at'[u] \in {"adding", "kicking", "stuck"}}
    BY <1>27 DEF TypeOK, ShutdownKicksRecorder, Goes, Places
  <2>2. closed' \subseteq Recorders /\ receives' \in [Receivers -> SUBSET Whips]
    BY <1>27 DEF TypeOK, ShutdownKicksRecorder
  <2> QED
    BY <1>27, <2>1, <2>2 DEF TypeOK, ShutdownKicksRecorder, whipVars
<1>28. CASE ShutdownEnds
  BY <1>28, GoesType DEF TypeOK, whipVars, outVars, ShutdownEnds, Places, Goes
<1>29. CASE UNCHANGED vars
  BY <1>29 DEF TypeOK, whipVars, outVars, vars
<1> QED
  BY <1>1, <1>2, <1>3, <1>4, <1>5, <1>6, <1>7, <1>8, <1>9, <1>10, <1>11, <1>12,
     <1>13, <1>14, <1>15, <1>16, <1>17, <1>18, <1>19, <1>20, <1>21, <1>22, <1>23,
     <1>24, <1>25, <1>26, <1>27, <1>28, <1>29
     DEF Next, Joining, Requesting, Posting, Closing, ShuttingDown
-----------------------------------------------------------------------------
(* The steps. *)

\* Every step keeps the group's mutex with the goroutine that runs under it.
LEMMA GroupLockStep ==
    ASSUME TypeOK, GroupLocked, [Next]_vars
    PROVE  GroupLocked'
<1> USE Kinds
<1>1. ASSUME NEW t \in Posts \cup Joins, AddLocks(t) PROVE GroupLocked'
  BY <1>1 DEF TypeOK, GroupLocked, whipVars, outVars, AddLocks, Goes
<1>2. ASSUME NEW t \in Posts \cup Joins, Added(t) PROVE GroupLocked'
  BY <1>2 DEF TypeOK, GroupLocked, whipVars, outVars, Added, Goes
<1>3. ASSUME NEW t \in Posts \cup Joins, Refused(t) PROVE GroupLocked'
  BY <1>3 DEF TypeOK, GroupLocked, whipVars, outVars, Refused, Goes
<1>4. ASSUME NEW t \in Posts \cup Joins, NEW w \in Whips, AddAsks(t, w)
      PROVE  GroupLocked'
  BY <1>4 DEF TypeOK, GroupLocked, whipVars, outVars, AddAsks
<1>5. ASSUME NEW t \in Joins, RequestConns(t) PROVE GroupLocked'
  BY <1>5 DEF TypeOK, GroupLocked, whipVars, outVars, RequestConns, Goes
<1>6. ASSUME NEW t \in Joins, NEW w \in Whips, Requested(t, w) PROVE GroupLocked'
  BY <1>6 DEF TypeOK, GroupLocked, whipVars, outVars, Requested
<1>7. ASSUME NEW t \in Joins, NEW w \in Whips, RequestPushes(Who(t), w)
      PROVE  GroupLocked'
  BY <1>7 DEF TypeOK, GroupLocked, whipVars, outVars, RequestPushes
<1>8. ASSUME NEW t \in Posts, PostCreates(t) PROVE GroupLocked'
  BY <1>8 DEF TypeOK, GroupLocked, whipVars, outVars, PostCreates, Goes
<1>9. ASSUME NEW t \in Posts, PostFails(t) PROVE GroupLocked'
  BY <1>9 DEF TypeOK, GroupLocked, whipVars, outVars, PostFails, Goes
<1>10. ASSUME NEW t \in Posts, PostConnects(t) PROVE GroupLocked'
  BY <1>10 DEF TypeOK, GroupLocked, whipVars, outVars, PostConnects, Goes
<1>11. ASSUME NEW t \in Posts, PostAnswers(t) PROVE GroupLocked'
  BY <1>11 DEF TypeOK, GroupLocked, whipVars, outVars, PostAnswers, Goes
<1>12. ASSUME NEW t \in Posts, PostGivesUp(t) PROVE GroupLocked'
  BY <1>12 DEF TypeOK, GroupLocked, whipVars, outVars, PostGivesUp, Goes
<1>13. ASSUME NEW t \in Posts, PostRemoves(t) PROVE GroupLocked'
  BY <1>13 DEF TypeOK, GroupLocked, whipVars, outVars, PostRemoves, Goes
<1>14. ASSUME NEW t \in Closers, CloseStarts(t) PROVE GroupLocked'
  BY <1>14 DEF TypeOK, GroupLocked, whipVars, outVars, CloseStarts, Goes
<1>15. ASSUME NEW t \in Closers, CloseLocks(t) PROVE GroupLocked'
  BY <1>15 DEF TypeOK, GroupLocked, whipVars, outVars, CloseLocks, Goes
<1>16. ASSUME NEW t \in Closers, CloseTells(t) PROVE GroupLocked'
  BY <1>16 DEF TypeOK, GroupLocked, whipVars, outVars, CloseTells, Goes
<1>17. ASSUME NEW t \in Closers, CloseDeletes(t) PROVE GroupLocked'
  BY <1>17 DEF TypeOK, GroupLocked, whipVars, outVars, CloseDeletes, Goes
<1>18. ASSUME NEW t \in Closers, NEW w \in Whips, CloseScans(t, w)
       PROVE  GroupLocked'
  BY <1>18 DEF TypeOK, GroupLocked, whipVars, outVars, CloseScans
<1>19. ASSUME NEW t \in Closers, CloseReturns(t) PROVE GroupLocked'
  BY <1>19 DEF TypeOK, GroupLocked, whipVars, outVars, CloseReturns, Goes
<1>20. ASSUME NEW w \in Whips, OnTrack(w) PROVE GroupLocked'
  BY <1>20 DEF TypeOK, GroupLocked, whipVars, outVars, OnTrack
<1>21. ASSUME NEW w \in Whips, TrackAnnounced(w) PROVE GroupLocked'
  BY <1>21 DEF TypeOK, GroupLocked, whipVars, outVars, TrackAnnounced
<1>22. ASSUME NEW x \in timers, TimerFires(x) PROVE GroupLocked'
  BY <1>22 DEF TypeOK, GroupLocked, whipVars, outVars, TimerFires
<1>23. ASSUME NEW r \in Recorders, RecorderCloses(r) PROVE GroupLocked'
  BY <1>23 DEF TypeOK, GroupLocked, whipVars, outVars, RecorderCloses
<1>24. ASSUME NEW r \in Recorders, RecorderDeleted(r) PROVE GroupLocked'
  BY <1>24 DEF TypeOK, GroupLocked, whipVars, outVars, RecorderDeleted
<1>25. CASE ShutdownStarts
  BY <1>25 DEF TypeOK, GroupLocked, whipVars, outVars, ShutdownStarts, Goes
<1>26. ASSUME NEW w \in Whips, ShutdownKicksWhip(w) PROVE GroupLocked'
  BY <1>26 DEF TypeOK, GroupLocked, whipVars, outVars, ShutdownKicksWhip, Goes
<1>27. ASSUME NEW r \in Recorders, ShutdownKicksRecorder(r) PROVE GroupLocked'
  BY <1>27 DEF TypeOK, GroupLocked, whipVars, outVars, ShutdownKicksRecorder, Goes
<1>28. CASE ShutdownEnds
  BY <1>28 DEF TypeOK, GroupLocked, whipVars, outVars, ShutdownEnds, Goes
<1>29. CASE UNCHANGED vars
  BY <1>29 DEF TypeOK, GroupLocked, whipVars, outVars, vars
<1> QED
  BY <1>1, <1>2, <1>3, <1>4, <1>5, <1>6, <1>7, <1>8, <1>9, <1>10, <1>11, <1>12,
     <1>13, <1>14, <1>15, <1>16, <1>17, <1>18, <1>19, <1>20, <1>21, <1>22, <1>23,
     <1>24, <1>25, <1>26, <1>27, <1>28, <1>29
     DEF Next, Joining, Requesting, Posting, Closing, ShuttingDown

\* Every step keeps a client's mutex with the goroutine that runs under it.
LEMMA ClientLockStep ==
    ASSUME TypeOK, ClientLocked, [Next]_vars
    PROVE  ClientLocked'
<1> USE Kinds
<1>1. ASSUME NEW t \in Posts \cup Joins, AddLocks(t) PROVE ClientLocked'
  BY <1>1 DEF TypeOK, ClientLocked, whipVars, outVars, AddLocks, Goes
<1>2. ASSUME NEW t \in Posts \cup Joins, Added(t) PROVE ClientLocked'
  BY <1>2 DEF TypeOK, ClientLocked, whipVars, outVars, Added, Goes
<1>3. ASSUME NEW t \in Posts \cup Joins, Refused(t) PROVE ClientLocked'
  BY <1>3 DEF TypeOK, ClientLocked, whipVars, outVars, Refused, Goes
<1>4. ASSUME NEW t \in Posts \cup Joins, NEW w \in Whips, AddAsks(t, w)
      PROVE  ClientLocked'
  BY <1>4 DEF TypeOK, ClientLocked, whipVars, outVars, AddAsks
<1>5. ASSUME NEW t \in Joins, RequestConns(t) PROVE ClientLocked'
  BY <1>5 DEF TypeOK, ClientLocked, whipVars, outVars, RequestConns, Goes
<1>6. ASSUME NEW t \in Joins, NEW w \in Whips, Requested(t, w) PROVE ClientLocked'
  BY <1>6 DEF TypeOK, ClientLocked, whipVars, outVars, Requested
<1>7. ASSUME NEW t \in Joins, NEW w \in Whips, RequestPushes(Who(t), w)
      PROVE  ClientLocked'
  BY <1>7 DEF TypeOK, ClientLocked, whipVars, outVars, RequestPushes
<1>8. ASSUME NEW t \in Posts, PostCreates(t) PROVE ClientLocked'
  BY <1>8 DEF TypeOK, ClientLocked, whipVars, outVars, PostCreates, Goes
<1>9. ASSUME NEW t \in Posts, PostFails(t) PROVE ClientLocked'
  BY <1>9 DEF TypeOK, ClientLocked, whipVars, outVars, PostFails, Goes
<1>10. ASSUME NEW t \in Posts, PostConnects(t) PROVE ClientLocked'
  BY <1>10 DEF TypeOK, ClientLocked, whipVars, outVars, PostConnects, Goes
<1>11. ASSUME NEW t \in Posts, PostAnswers(t) PROVE ClientLocked'
  BY <1>11 DEF TypeOK, ClientLocked, whipVars, outVars, PostAnswers, Goes
<1>12. ASSUME NEW t \in Posts, PostGivesUp(t) PROVE ClientLocked'
  BY <1>12 DEF TypeOK, ClientLocked, whipVars, outVars, PostGivesUp, Goes
<1>13. ASSUME NEW t \in Posts, PostRemoves(t) PROVE ClientLocked'
  BY <1>13 DEF TypeOK, ClientLocked, whipVars, outVars, PostRemoves, Goes
<1>14. ASSUME NEW t \in Closers, CloseStarts(t) PROVE ClientLocked'
  BY <1>14 DEF TypeOK, ClientLocked, whipVars, outVars, CloseStarts, Goes
<1>15. ASSUME NEW t \in Closers, CloseLocks(t) PROVE ClientLocked'
  BY <1>15 DEF TypeOK, ClientLocked, whipVars, outVars, CloseLocks, Goes
<1>16. ASSUME NEW t \in Closers, CloseTells(t) PROVE ClientLocked'
  BY <1>16 DEF TypeOK, ClientLocked, whipVars, outVars, CloseTells, Goes
<1>17. ASSUME NEW t \in Closers, CloseDeletes(t) PROVE ClientLocked'
  BY <1>17 DEF TypeOK, ClientLocked, whipVars, outVars, CloseDeletes, Goes
<1>18. ASSUME NEW t \in Closers, NEW w \in Whips, CloseScans(t, w)
       PROVE  ClientLocked'
  BY <1>18 DEF TypeOK, ClientLocked, whipVars, outVars, CloseScans
<1>19. ASSUME NEW t \in Closers, CloseReturns(t) PROVE ClientLocked'
  BY <1>19 DEF TypeOK, ClientLocked, whipVars, outVars, CloseReturns, Goes
<1>20. ASSUME NEW w \in Whips, OnTrack(w) PROVE ClientLocked'
  BY <1>20 DEF TypeOK, ClientLocked, whipVars, outVars, OnTrack
<1>21. ASSUME NEW w \in Whips, TrackAnnounced(w) PROVE ClientLocked'
  BY <1>21 DEF TypeOK, ClientLocked, whipVars, outVars, TrackAnnounced
<1>22. ASSUME NEW x \in timers, TimerFires(x) PROVE ClientLocked'
  BY <1>22 DEF TypeOK, ClientLocked, whipVars, outVars, TimerFires
<1>23. ASSUME NEW r \in Recorders, RecorderCloses(r) PROVE ClientLocked'
  BY <1>23 DEF TypeOK, ClientLocked, whipVars, outVars, RecorderCloses
<1>24. ASSUME NEW r \in Recorders, RecorderDeleted(r) PROVE ClientLocked'
  BY <1>24 DEF TypeOK, ClientLocked, whipVars, outVars, RecorderDeleted
<1>25. CASE ShutdownStarts
  BY <1>25 DEF TypeOK, ClientLocked, whipVars, outVars, ShutdownStarts, Goes
<1>26. ASSUME NEW w \in Whips, ShutdownKicksWhip(w) PROVE ClientLocked'
  BY <1>26 DEF TypeOK, ClientLocked, whipVars, outVars, ShutdownKicksWhip, Goes
<1>27. ASSUME NEW r \in Recorders, ShutdownKicksRecorder(r) PROVE ClientLocked'
  BY <1>27
     DEF TypeOK, ClientLocked, whipVars, outVars, ShutdownKicksRecorder, Goes
<1>28. CASE ShutdownEnds
  BY <1>28 DEF TypeOK, ClientLocked, whipVars, outVars, ShutdownEnds, Goes
<1>29. CASE UNCHANGED vars
  BY <1>29 DEF TypeOK, ClientLocked, whipVars, outVars, vars
<1> QED
  BY <1>1, <1>2, <1>3, <1>4, <1>5, <1>6, <1>7, <1>8, <1>9, <1>10, <1>11, <1>12,
     <1>13, <1>14, <1>15, <1>16, <1>17, <1>18, <1>19, <1>20, <1>21, <1>22, <1>23,
     <1>24, <1>25, <1>26, <1>27, <1>28, <1>29
     DEF Next, Joining, Requesting, Posting, Closing, ShuttingDown

\* Every step keeps clients from being closed before they were added.
LEMMA EnteredStep ==
    ASSUME TypeOK, Entered, Gone, [Next]_vars
    PROVE  Entered'
<1> USE Kinds
<1>1. ASSUME NEW t \in Posts \cup Joins, AddLocks(t) PROVE Entered'
  BY <1>1 DEF TypeOK, Entered, Gone, whipVars, outVars, AddLocks, Goes
<1>2. ASSUME NEW t \in Posts \cup Joins, Added(t) PROVE Entered'
  BY <1>2 DEF TypeOK, Entered, Gone, whipVars, outVars, Added, Goes
<1>3. ASSUME NEW t \in Posts \cup Joins, Refused(t) PROVE Entered'
  BY <1>3 DEF TypeOK, Entered, Gone, whipVars, outVars, Refused, Goes
<1>4. ASSUME NEW t \in Posts \cup Joins, NEW w \in Whips, AddAsks(t, w)
      PROVE  Entered'
  BY <1>4 DEF TypeOK, Entered, Gone, whipVars, outVars, AddAsks
<1>5. ASSUME NEW t \in Joins, RequestConns(t) PROVE Entered'
  BY <1>5 DEF TypeOK, Entered, Gone, whipVars, outVars, RequestConns, Goes
<1>6. ASSUME NEW t \in Joins, NEW w \in Whips, Requested(t, w) PROVE Entered'
  BY <1>6 DEF TypeOK, Entered, Gone, whipVars, outVars, Requested
<1>7. ASSUME NEW t \in Joins, NEW w \in Whips, RequestPushes(Who(t), w)
      PROVE  Entered'
  BY <1>7 DEF TypeOK, Entered, Gone, whipVars, outVars, RequestPushes
<1>8. ASSUME NEW t \in Posts, PostCreates(t) PROVE Entered'
  BY <1>8 DEF TypeOK, Entered, Gone, whipVars, outVars, PostCreates, Goes
<1>9. ASSUME NEW t \in Posts, PostFails(t) PROVE Entered'
  BY <1>9 DEF TypeOK, Entered, Gone, whipVars, outVars, PostFails, Goes
<1>10. ASSUME NEW t \in Posts, PostConnects(t) PROVE Entered'
  BY <1>10 DEF TypeOK, Entered, Gone, whipVars, outVars, PostConnects, Goes
<1>11. ASSUME NEW t \in Posts, PostAnswers(t) PROVE Entered'
  BY <1>11 DEF TypeOK, Entered, Gone, whipVars, outVars, PostAnswers, Goes
<1>12. ASSUME NEW t \in Posts, PostGivesUp(t) PROVE Entered'
  BY <1>12 DEF TypeOK, Entered, Gone, whipVars, outVars, PostGivesUp, Goes
<1>13. ASSUME NEW t \in Posts, PostRemoves(t) PROVE Entered'
  BY <1>13 DEF TypeOK, Entered, Gone, whipVars, outVars, PostRemoves, Goes
<1>14. ASSUME NEW t \in Closers, CloseStarts(t) PROVE Entered'
  BY <1>14 DEF TypeOK, Entered, Gone, whipVars, outVars, CloseStarts, Goes
<1>15. ASSUME NEW t \in Closers, CloseLocks(t) PROVE Entered'
  BY <1>15 DEF TypeOK, Entered, Gone, whipVars, outVars, CloseLocks, Goes
<1>16. ASSUME NEW t \in Closers, CloseTells(t) PROVE Entered'
  BY <1>16 DEF TypeOK, Entered, Gone, whipVars, outVars, CloseTells, Goes
<1>17. ASSUME NEW t \in Closers, CloseDeletes(t) PROVE Entered'
  BY <1>17 DEF TypeOK, Entered, Gone, whipVars, outVars, CloseDeletes, Goes
<1>18. ASSUME NEW t \in Closers, NEW w \in Whips, CloseScans(t, w) PROVE Entered'
  BY <1>18 DEF TypeOK, Entered, Gone, whipVars, outVars, CloseScans
<1>19. ASSUME NEW t \in Closers, CloseReturns(t) PROVE Entered'
  BY <1>19 DEF TypeOK, Entered, Gone, whipVars, outVars, CloseReturns, Goes
<1>20. ASSUME NEW w \in Whips, OnTrack(w) PROVE Entered'
  BY <1>20 DEF TypeOK, Entered, Gone, whipVars, outVars, OnTrack
<1>21. ASSUME NEW w \in Whips, TrackAnnounced(w) PROVE Entered'
  BY <1>21 DEF TypeOK, Entered, Gone, whipVars, outVars, TrackAnnounced
<1>22. ASSUME NEW x \in timers, TimerFires(x) PROVE Entered'
  BY <1>22 DEF TypeOK, Entered, Gone, whipVars, outVars, TimerFires
<1>23. ASSUME NEW r \in Recorders, RecorderCloses(r) PROVE Entered'
  BY <1>23 DEF TypeOK, Entered, Gone, whipVars, outVars, RecorderCloses
<1>24. ASSUME NEW r \in Recorders, RecorderDeleted(r) PROVE Entered'
  BY <1>24 DEF TypeOK, Entered, Gone, whipVars, outVars, RecorderDeleted
<1>25. CASE ShutdownStarts
  BY <1>25 DEF TypeOK, Entered, Gone, whipVars, outVars, ShutdownStarts, Goes
<1>26. ASSUME NEW w \in Whips, ShutdownKicksWhip(w) PROVE Entered'
  BY <1>26 DEF TypeOK, Entered, Gone, whipVars, outVars, ShutdownKicksWhip, Goes
<1>27. ASSUME NEW r \in Recorders, ShutdownKicksRecorder(r) PROVE Entered'
  BY <1>27
     DEF TypeOK, Entered, Gone, whipVars, outVars, ShutdownKicksRecorder, Goes
<1>28. CASE ShutdownEnds
  BY <1>28 DEF TypeOK, Entered, Gone, whipVars, outVars, ShutdownEnds, Goes
<1>29. CASE UNCHANGED vars
  BY <1>29 DEF TypeOK, Entered, Gone, whipVars, outVars, vars
<1> QED
  BY <1>1, <1>2, <1>3, <1>4, <1>5, <1>6, <1>7, <1>8, <1>9, <1>10, <1>11, <1>12,
     <1>13, <1>14, <1>15, <1>16, <1>17, <1>18, <1>19, <1>20, <1>21, <1>22, <1>23,
     <1>24, <1>25, <1>26, <1>27, <1>28, <1>29
     DEF Next, Joining, Requesting, Posting, Closing, ShuttingDown

\* Every step keeps those out that ask the others.
LEMMA GoneStep ==
    ASSUME TypeOK, Entered, Gone, [Next]_vars
    PROVE  Gone'
<1> USE Kinds
<1>1. ASSUME NEW t \in Posts \cup Joins, AddLocks(t) PROVE Gone'
  BY <1>1 DEF TypeOK, Entered, Gone, whipVars, outVars, AddLocks, Goes
<1>2. ASSUME NEW t \in Posts \cup Joins, Added(t) PROVE Gone'
  BY <1>2 DEF TypeOK, Entered, Gone, whipVars, outVars, Added, Goes
<1>3. ASSUME NEW t \in Posts \cup Joins, Refused(t) PROVE Gone'
  BY <1>3 DEF TypeOK, Entered, Gone, whipVars, outVars, Refused, Goes
<1>4. ASSUME NEW t \in Posts \cup Joins, NEW w \in Whips, AddAsks(t, w)
      PROVE  Gone'
  BY <1>4 DEF TypeOK, Entered, Gone, whipVars, outVars, AddAsks
<1>5. ASSUME NEW t \in Joins, RequestConns(t) PROVE Gone'
  BY <1>5 DEF TypeOK, Entered, Gone, whipVars, outVars, RequestConns, Goes
<1>6. ASSUME NEW t \in Joins, NEW w \in Whips, Requested(t, w) PROVE Gone'
  BY <1>6 DEF TypeOK, Entered, Gone, whipVars, outVars, Requested
<1>7. ASSUME NEW t \in Joins, NEW w \in Whips, RequestPushes(Who(t), w)
      PROVE  Gone'
  BY <1>7 DEF TypeOK, Entered, Gone, whipVars, outVars, RequestPushes
<1>8. ASSUME NEW t \in Posts, PostCreates(t) PROVE Gone'
  BY <1>8 DEF TypeOK, Entered, Gone, whipVars, outVars, PostCreates, Goes
<1>9. ASSUME NEW t \in Posts, PostFails(t) PROVE Gone'
  BY <1>9 DEF TypeOK, Entered, Gone, whipVars, outVars, PostFails, Goes
<1>10. ASSUME NEW t \in Posts, PostConnects(t) PROVE Gone'
  BY <1>10 DEF TypeOK, Entered, Gone, whipVars, outVars, PostConnects, Goes
<1>11. ASSUME NEW t \in Posts, PostAnswers(t) PROVE Gone'
  BY <1>11 DEF TypeOK, Entered, Gone, whipVars, outVars, PostAnswers, Goes
<1>12. ASSUME NEW t \in Posts, PostGivesUp(t) PROVE Gone'
  BY <1>12 DEF TypeOK, Entered, Gone, whipVars, outVars, PostGivesUp, Goes
<1>13. ASSUME NEW t \in Posts, PostRemoves(t) PROVE Gone'
  BY <1>13 DEF TypeOK, Entered, Gone, whipVars, outVars, PostRemoves, Goes
<1>14. ASSUME NEW t \in Closers, CloseStarts(t) PROVE Gone'
  BY <1>14 DEF TypeOK, Entered, Gone, whipVars, outVars, CloseStarts, Goes
<1>15. ASSUME NEW t \in Closers, CloseLocks(t) PROVE Gone'
  <2>1. CASE ~group[Who(t)] /\ Goes(t, "waiting", "done")
    <3>1. Who(t) \notin members
      BY <2>1 DEF Entered
    <3> QED
      BY <1>15, <2>1, <3>1 DEF TypeOK, Gone, CloseLocks, Goes
  <2>2. CASE Goes(t, "waiting", "listing") \/ Goes(t, "waiting", "deleting")
    BY <1>15, <2>2 DEF TypeOK, Gone, CloseLocks, Goes
  <2> QED
    BY <1>15, <2>1, <2>2 DEF CloseLocks
<1>16. ASSUME NEW t \in Closers, CloseTells(t) PROVE Gone'
  BY <1>16 DEF TypeOK, Entered, Gone, whipVars, outVars, CloseTells, Goes
<1>17. ASSUME NEW t \in Closers, CloseDeletes(t) PROVE Gone'
  BY <1>17 DEF TypeOK, Entered, Gone, whipVars, outVars, CloseDeletes, Goes
<1>18. ASSUME NEW t \in Closers, NEW w \in Whips, CloseScans(t, w) PROVE Gone'
  BY <1>18 DEF TypeOK, Entered, Gone, whipVars, outVars, CloseScans
<1>19. ASSUME NEW t \in Closers, CloseReturns(t) PROVE Gone'
  BY <1>19 DEF TypeOK, Entered, Gone, whipVars, outVars, CloseReturns, Goes
<1>20. ASSUME NEW w \in Whips, OnTrack(w) PROVE Gone'
  BY <1>20 DEF TypeOK, Entered, Gone, whipVars, outVars, OnTrack
<1>21. ASSUME NEW w \in Whips, TrackAnnounced(w) PROVE Gone'
  BY <1>21 DEF TypeOK, Entered, Gone, whipVars, outVars, TrackAnnounced
<1>22. ASSUME NEW x \in timers, TimerFires(x) PROVE Gone'
  BY <1>22 DEF TypeOK, Entered, Gone, whipVars, outVars, TimerFires
<1>23. ASSUME NEW r \in Recorders, RecorderCloses(r) PROVE Gone'
  BY <1>23 DEF TypeOK, Entered, Gone, whipVars, outVars, RecorderCloses
<1>24. ASSUME NEW r \in Recorders, RecorderDeleted(r) PROVE Gone'
  BY <1>24 DEF TypeOK, Entered, Gone, whipVars, outVars, RecorderDeleted
<1>25. CASE ShutdownStarts
  BY <1>25 DEF TypeOK, Entered, Gone, whipVars, outVars, ShutdownStarts, Goes
<1>26. ASSUME NEW w \in Whips, ShutdownKicksWhip(w) PROVE Gone'
  BY <1>26 DEF TypeOK, Entered, Gone, whipVars, outVars, ShutdownKicksWhip, Goes
<1>27. ASSUME NEW r \in Recorders, ShutdownKicksRecorder(r) PROVE Gone'
  BY <1>27
     DEF TypeOK, Entered, Gone, whipVars, outVars, ShutdownKicksRecorder, Goes
<1>28. CASE ShutdownEnds
  BY <1>28 DEF TypeOK, Entered, Gone, whipVars, outVars, ShutdownEnds, Goes
<1>29. CASE UNCHANGED vars
  BY <1>29 DEF TypeOK, Entered, Gone, whipVars, outVars, vars
<1> QED
  BY <1>1, <1>2, <1>3, <1>4, <1>5, <1>6, <1>7, <1>8, <1>9, <1>10, <1>11, <1>12,
     <1>13, <1>14, <1>15, <1>16, <1>17, <1>18, <1>19, <1>20, <1>21, <1>22, <1>23,
     <1>24, <1>25, <1>26, <1>27, <1>28, <1>29
     DEF Next, Joining, Requesting, Posting, Closing, ShuttingDown

\* Every step keeps those that ask from asking in a circle.
LEMMA AcyclicStep ==
    ASSUME TypeOK, Gone, Acyclic, [Next]_vars
    PROVE  Acyclic'
<1> USE Kinds
<1>1. ASSUME NEW t \in Posts \cup Joins, AddLocks(t) PROVE Acyclic'
  BY <1>1 DEF TypeOK, Gone, Acyclic, whipVars, outVars, AddLocks, Goes
<1>2. ASSUME NEW t \in Posts \cup Joins, Added(t) PROVE Acyclic'
  BY <1>2 DEF TypeOK, Gone, Acyclic, whipVars, outVars, Added, Goes
<1>3. ASSUME NEW t \in Posts \cup Joins, Refused(t) PROVE Acyclic'
  BY <1>3 DEF TypeOK, Gone, Acyclic, whipVars, outVars, Refused, Goes
<1>4. ASSUME NEW t \in Posts \cup Joins, NEW w \in Whips, AddAsks(t, w)
      PROVE  Acyclic'
  BY <1>4 DEF TypeOK, Gone, Acyclic, whipVars, outVars, AddAsks
<1>5. ASSUME NEW t \in Joins, RequestConns(t) PROVE Acyclic'
  BY <1>5 DEF TypeOK, Gone, Acyclic, whipVars, outVars, RequestConns, Goes
<1>6. ASSUME NEW t \in Joins, NEW w \in Whips, Requested(t, w) PROVE Acyclic'
  BY <1>6 DEF TypeOK, Gone, Acyclic, whipVars, outVars, Requested
<1>7. ASSUME NEW t \in Joins, NEW w \in Whips, RequestPushes(Who(t), w)
      PROVE  Acyclic'
  BY <1>7 DEF TypeOK, Gone, Acyclic, whipVars, outVars, RequestPushes
<1>8. ASSUME NEW t \in Posts, PostCreates(t) PROVE Acyclic'
  BY <1>8 DEF TypeOK, Gone, Acyclic, whipVars, outVars, PostCreates, Goes
<1>9. ASSUME NEW t \in Posts, PostFails(t) PROVE Acyclic'
  BY <1>9 DEF TypeOK, Gone, Acyclic, whipVars, outVars, PostFails, Goes
<1>10. ASSUME NEW t \in Posts, PostConnects(t) PROVE Acyclic'
  BY <1>10 DEF TypeOK, Gone, Acyclic, whipVars, outVars, PostConnects, Goes
<1>11. ASSUME NEW t \in Posts, PostAnswers(t) PROVE Acyclic'
  BY <1>11 DEF TypeOK, Gone, Acyclic, whipVars, outVars, PostAnswers, Goes
<1>12. ASSUME NEW t \in Posts, PostGivesUp(t) PROVE Acyclic'
  BY <1>12 DEF TypeOK, Gone, Acyclic, whipVars, outVars, PostGivesUp, Goes
<1>13. ASSUME NEW t \in Posts, PostRemoves(t) PROVE Acyclic'
  BY <1>13 DEF TypeOK, Gone, Acyclic, whipVars, outVars, PostRemoves, Goes
<1>14. ASSUME NEW t \in Closers, CloseStarts(t) PROVE Acyclic'
  BY <1>14 DEF TypeOK, Gone, Acyclic, whipVars, outVars, CloseStarts, Goes
<1>15. ASSUME NEW t \in Closers, CloseLocks(t) PROVE Acyclic'
  BY <1>15 DEF TypeOK, Gone, Acyclic, whipVars, outVars, CloseLocks, Goes
<1>16. ASSUME NEW t \in Closers, CloseTells(t) PROVE Acyclic'
  BY <1>16 DEF TypeOK, Gone, Acyclic, whipVars, outVars, CloseTells, Goes
<1>17. ASSUME NEW t \in Closers, CloseDeletes(t) PROVE Acyclic'
  BY <1>17 DEF TypeOK, Gone, Acyclic, whipVars, outVars, CloseDeletes, Goes
<1>18. ASSUME NEW t \in Closers, NEW w \in Whips, CloseScans(t, w) PROVE Acyclic'
  BY <1>18 DEF TypeOK, Gone, Acyclic, whipVars, outVars, CloseScans
<1>19. ASSUME NEW t \in Closers, CloseReturns(t) PROVE Acyclic'
  BY <1>19 DEF TypeOK, Gone, Acyclic, whipVars, outVars, CloseReturns, Goes
<1>20. ASSUME NEW w \in Whips, OnTrack(w) PROVE Acyclic'
  BY <1>20 DEF TypeOK, Gone, Acyclic, whipVars, outVars, OnTrack
<1>21. ASSUME NEW w \in Whips, TrackAnnounced(w) PROVE Acyclic'
  BY <1>21 DEF TypeOK, Gone, Acyclic, whipVars, outVars, TrackAnnounced
<1>22. ASSUME NEW x \in timers, TimerFires(x) PROVE Acyclic'
  BY <1>22 DEF TypeOK, Gone, Acyclic, whipVars, outVars, TimerFires
<1>23. ASSUME NEW r \in Recorders, RecorderCloses(r) PROVE Acyclic'
  BY <1>23 DEF TypeOK, Gone, Acyclic, whipVars, outVars, RecorderCloses
<1>24. ASSUME NEW r \in Recorders, RecorderDeleted(r) PROVE Acyclic'
  BY <1>24 DEF TypeOK, Gone, Acyclic, whipVars, outVars, RecorderDeleted
<1>25. CASE ShutdownStarts
  BY <1>25 DEF TypeOK, Gone, Acyclic, whipVars, outVars, ShutdownStarts, Goes
<1>26. ASSUME NEW w \in Whips, ShutdownKicksWhip(w) PROVE Acyclic'
  BY <1>26 DEF TypeOK, Gone, Acyclic, whipVars, outVars, ShutdownKicksWhip, Goes
<1>27. ASSUME NEW r \in Recorders, ShutdownKicksRecorder(r) PROVE Acyclic'
  BY <1>27
     DEF TypeOK, Gone, Acyclic, whipVars, outVars, ShutdownKicksRecorder, Goes
<1>28. CASE ShutdownEnds
  BY <1>28 DEF TypeOK, Gone, Acyclic, whipVars, outVars, ShutdownEnds, Goes
<1>29. CASE UNCHANGED vars
  BY <1>29 DEF TypeOK, Gone, Acyclic, whipVars, outVars, vars
<1> QED
  BY <1>1, <1>2, <1>3, <1>4, <1>5, <1>6, <1>7, <1>8, <1>9, <1>10, <1>11, <1>12,
     <1>13, <1>14, <1>15, <1>16, <1>17, <1>18, <1>19, <1>20, <1>21, <1>22, <1>23,
     <1>24, <1>25, <1>26, <1>27, <1>28, <1>29
     DEF Next, Joining, Requesting, Posting, Closing, ShuttingDown

\* Every step keeps closed recorders silent.
LEMMA RecordStep ==
    ASSUME TypeOK, ClosedRecordNothing, [Next]_vars
    PROVE  ClosedRecordNothing'
<1> USE Kinds
<1>1. ASSUME NEW t \in Posts \cup Joins, AddLocks(t) PROVE ClosedRecordNothing'
  BY <1>1
     DEF TypeOK, ClosedRecordNothing, PushConn, whipVars, outVars, AddLocks, Goes
<1>2. ASSUME NEW t \in Posts \cup Joins, Added(t) PROVE ClosedRecordNothing'
  BY <1>2
     DEF TypeOK, ClosedRecordNothing, PushConn, whipVars, outVars, Added, Goes
<1>3. ASSUME NEW t \in Posts \cup Joins, Refused(t) PROVE ClosedRecordNothing'
  BY <1>3
     DEF TypeOK, ClosedRecordNothing, PushConn, whipVars, outVars, Refused, Goes
<1>4. ASSUME NEW t \in Posts \cup Joins, NEW w \in Whips, AddAsks(t, w)
      PROVE  ClosedRecordNothing'
  BY <1>4 DEF TypeOK, ClosedRecordNothing, PushConn, whipVars, outVars, AddAsks
<1>5. ASSUME NEW t \in Joins, RequestConns(t) PROVE ClosedRecordNothing'
  BY <1>5
     DEF TypeOK, ClosedRecordNothing, PushConn, whipVars, outVars, RequestConns,
         Goes
<1>6. ASSUME NEW t \in Joins, NEW w \in Whips, Requested(t, w)
      PROVE  ClosedRecordNothing'
  BY <1>6 DEF TypeOK, ClosedRecordNothing, PushConn, whipVars, outVars, Requested
<1>7. ASSUME NEW t \in Joins, NEW w \in Whips, RequestPushes(Who(t), w)
      PROVE  ClosedRecordNothing'
  BY <1>7
     DEF TypeOK, ClosedRecordNothing, PushConn, whipVars, outVars, RequestPushes
<1>8. ASSUME NEW t \in Posts, PostCreates(t) PROVE ClosedRecordNothing'
  BY <1>8
     DEF TypeOK, ClosedRecordNothing, PushConn, whipVars, outVars, PostCreates,
         Goes
<1>9. ASSUME NEW t \in Posts, PostFails(t) PROVE ClosedRecordNothing'
  BY <1>9
     DEF TypeOK, ClosedRecordNothing, PushConn, whipVars, outVars, PostFails, Goes
<1>10. ASSUME NEW t \in Posts, PostConnects(t) PROVE ClosedRecordNothing'
  BY <1>10
     DEF TypeOK, ClosedRecordNothing, PushConn, whipVars, outVars, PostConnects,
         Goes
<1>11. ASSUME NEW t \in Posts, PostAnswers(t) PROVE ClosedRecordNothing'
  BY <1>11
     DEF TypeOK, ClosedRecordNothing, PushConn, whipVars, outVars, PostAnswers,
         Goes
<1>12. ASSUME NEW t \in Posts, PostGivesUp(t) PROVE ClosedRecordNothing'
  BY <1>12
     DEF TypeOK, ClosedRecordNothing, PushConn, whipVars, outVars, PostGivesUp,
         Goes
<1>13. ASSUME NEW t \in Posts, PostRemoves(t) PROVE ClosedRecordNothing'
  BY <1>13
     DEF TypeOK, ClosedRecordNothing, PushConn, whipVars, outVars, PostRemoves,
         Goes
<1>14. ASSUME NEW t \in Closers, CloseStarts(t) PROVE ClosedRecordNothing'
  BY <1>14
     DEF TypeOK, ClosedRecordNothing, PushConn, whipVars, outVars, CloseStarts,
         Goes
<1>15. ASSUME NEW t \in Closers, CloseLocks(t) PROVE ClosedRecordNothing'
  BY <1>15
     DEF TypeOK, ClosedRecordNothing, PushConn, whipVars, outVars, CloseLocks,
         Goes
<1>16. ASSUME NEW t \in Closers, CloseTells(t) PROVE ClosedRecordNothing'
  BY <1>16
     DEF TypeOK, ClosedRecordNothing, PushConn, whipVars, outVars, CloseTells,
         Goes
<1>17. ASSUME NEW t \in Closers, CloseDeletes(t) PROVE ClosedRecordNothing'
  BY <1>17
     DEF TypeOK, ClosedRecordNothing, PushConn, whipVars, outVars, CloseDeletes,
         Goes
<1>18. ASSUME NEW t \in Closers, NEW w \in Whips, CloseScans(t, w)
       PROVE  ClosedRecordNothing'
  BY <1>18
     DEF TypeOK, ClosedRecordNothing, PushConn, whipVars, outVars, CloseScans
<1>19. ASSUME NEW t \in Closers, CloseReturns(t) PROVE ClosedRecordNothing'
  BY <1>19
     DEF TypeOK, ClosedRecordNothing, PushConn, whipVars, outVars, CloseReturns,
         Goes
<1>20. ASSUME NEW w \in Whips, OnTrack(w) PROVE ClosedRecordNothing'
  BY <1>20 DEF TypeOK, ClosedRecordNothing, PushConn, whipVars, outVars, OnTrack
<1>21. ASSUME NEW w \in Whips, TrackAnnounced(w) PROVE ClosedRecordNothing'
  BY <1>21
     DEF TypeOK, ClosedRecordNothing, PushConn, whipVars, outVars, TrackAnnounced
<1>22. ASSUME NEW x \in timers, TimerFires(x) PROVE ClosedRecordNothing'
  BY <1>22
     DEF TypeOK, ClosedRecordNothing, PushConn, whipVars, outVars, TimerFires
<1>23. ASSUME NEW r \in Recorders, RecorderCloses(r) PROVE ClosedRecordNothing'
  BY <1>23
     DEF TypeOK, ClosedRecordNothing, PushConn, whipVars, outVars, RecorderCloses
<1>24. ASSUME NEW r \in Recorders, RecorderDeleted(r) PROVE ClosedRecordNothing'
  BY <1>24
     DEF TypeOK, ClosedRecordNothing, PushConn, whipVars, outVars, RecorderDeleted
<1>25. CASE ShutdownStarts
  BY <1>25
     DEF TypeOK, ClosedRecordNothing, PushConn, whipVars, outVars, ShutdownStarts,
         Goes
<1>26. ASSUME NEW w \in Whips, ShutdownKicksWhip(w) PROVE ClosedRecordNothing'
  BY <1>26
     DEF TypeOK, ClosedRecordNothing, PushConn, whipVars, outVars,
         ShutdownKicksWhip, Goes
<1>27. ASSUME NEW r \in Recorders, ShutdownKicksRecorder(r)
       PROVE  ClosedRecordNothing'
  BY <1>27
     DEF TypeOK, ClosedRecordNothing, PushConn, whipVars, outVars,
         ShutdownKicksRecorder, Goes
<1>28. CASE ShutdownEnds
  BY <1>28
     DEF TypeOK, ClosedRecordNothing, PushConn, whipVars, outVars, ShutdownEnds,
         Goes
<1>29. CASE UNCHANGED vars
  BY <1>29 DEF TypeOK, ClosedRecordNothing, PushConn, whipVars, outVars, vars
<1> QED
  BY <1>1, <1>2, <1>3, <1>4, <1>5, <1>6, <1>7, <1>8, <1>9, <1>10, <1>11, <1>12,
     <1>13, <1>14, <1>15, <1>16, <1>17, <1>18, <1>19, <1>20, <1>21, <1>22, <1>23,
     <1>24, <1>25, <1>26, <1>27, <1>28, <1>29
     DEF Next, Joining, Requesting, Posting, Closing, ShuttingDown
-----------------------------------------------------------------------------
(* The theorems. *)

\* The invariant holds when the model starts.
LEMMA InitIInv ==
    ASSUME Init
    PROVE  IInv
<1> USE Kinds, WhipAssumption
<1>1. TypeOK
  <2>1. at \in [Threads -> Places] /\ groupMu = None
    BY DEF Init, Places
  <2>2. receives \in [Receivers -> SUBSET Whips]
    BY DEF Init
  <2>3. /\ up \in [Whips -> {"none", "live", "closed"}]
        /\ track \in [Whips -> {"none", "added", "announced"}]
        /\ pushed \in [Whips -> BOOLEAN] /\ connection \in [Whips -> BOOLEAN]
    BY DEF Init
  <2> QED
    BY <2>1, <2>2, <2>3 DEF Init, TypeOK, Clients, Receivers
<1>2. \A t \in Threads : at[t] \in {"idle", "answered", "done"}
  BY DEF Init
<1>3. GroupLocked /\ ClientLocked /\ Acyclic /\ ClosedRecordNothing
  BY <1>2 DEF Init, GroupLocked, ClientLocked, Acyclic, ClosedRecordNothing
<1>4. \A t \in Closers : at[t] = "idle"
  BY DEF Init
<1>5. Entered /\ Gone
  BY <1>2, <1>4 DEF Init, Entered, Gone
<1> QED
  BY <1>1, <1>3, <1>5 DEF IInv

\* The invariant holds in every state.
THEOREM Invariance == Spec => []IInv
<1>1. Init => IInv
  BY InitIInv
<1>2. IInv /\ [Next]_vars => IInv'
  BY TypeStep, GroupLockStep, ClientLockStep, EnteredStep, GoneStep, AcyclicStep,
     RecordStep DEF IInv
<1> QED
  BY <1>1, <1>2, PTL DEF Spec

\* Whatever the members of the group do, the clients, mutexes and connections
\* are of the right kinds, and a mutex is held only by who runs under it.
THEOREM TypeCorrect == Spec => []TypeOK
<1>1. IInv => TypeOK
  BY DEF IInv
<1> QED
  BY <1>1, Invariance, PTL

\* A WHIP client that was closed, by a DELETE, a failure of its connection or a
\* kick, or whose request failed, is not in the group: WhipClient.Close and the
\* failures of whipEndpointHandler, in any order.
THEOREM EndedHaveLeft == Spec => []EndedLeft
<1>1. IInv => EndedLeft
  BY Kinds DEF IInv, Entered, Gone, EndedLeft
<1> QED
  BY <1>1, Invariance, PTL

\* A disk writer that was closed records nothing, whatever announcements and
\* answers to its requests are still on their way.
THEOREM ClosedRecordersSilent == Spec => []ClosedRecordNothing
<1>1. IInv => ClosedRecordNothing
  BY DEF IInv
<1> QED
  BY <1>1, Invariance, PTL

\* Whoever holds the mutex of a WHIP client gathers candidates, closes it, or is
\* kickall.
LEMMA Holders ==
    ASSUME IInv, NEW w \in Whips, mu[w] # None
    PROVE  /\ mu[w] \in Threads
           /\ at[mu[w]] \in {"gathering", "listing", "deleting", "scanning", "stuck"}
           /\ at[mu[w]] # "stuck" => Who(mu[w]) = w
  BY Kinds DEF IInv, TypeOK, ClientLocked

\* A goroutine that adds a client or kicks all goes on, unless the client whose
\* mutex it waits for waits for the group's.
LEMMA GroupHolderRuns ==
    ASSUME IInv, groupMu # None, ~Deadlocked
    PROVE  \E t \in Threads : at[t] # "idle" /\ ~Returned(t) /\ ~Blocked(t)
<1>1. /\ groupMu \in Threads /\ at[groupMu] \in {"adding", "kicking"}
      /\ todo[groupMu] \subseteq members
  BY Kinds DEF IInv, TypeOK, GroupLocked, Deadlocked
<1>2. CASE ~Blocked(groupMu)
  BY <1>1, <1>2 DEF Returned
<1>3. CASE Blocked(groupMu)
  <2>1. PICK w \in Whips : w \in todo[groupMu] /\ mu[w] # None
    BY <1>1, <1>3 DEF Blocked
  <2>2. at[mu[w]] \notin {"listing", "deleting", "stuck"}
    BY <1>1, <2>1, Holders, Kinds DEF Deadlocked, IInv, GroupLocked
  <2>3. at[mu[w]] # "scanning"
    BY <1>1, <2>1, Holders DEF IInv, Gone
  <2>4. mu[w] \in Threads /\ at[mu[w]] = "gathering"
    BY <2>1, <2>2, <2>3, Holders
  <2> QED
    BY <2>4 DEF Returned, Blocked
<1> QED
  BY <1>2, <1>3

\* When the group's mutex is free, the clients that ask the others for their
\* permissions do not all wait for one another.
LEMMA ClientHolderRuns ==
    ASSUME IInv, groupMu = None, NEW w \in Whips, mu[w] # None
    PROVE  \E t \in Threads : at[t] # "idle" /\ ~Returned(t) /\ ~Blocked(t)
<1> DEFINE Scanning == {t \in Threads : at[t] = "scanning"}
<1>1. \A y \in Whips : mu[y] # None => at[mu[y]] # "stuck"
  BY Holders, Kinds DEF IInv, GroupLocked
<1>2. CASE \E t \in Threads : at[t] \in {"gathering", "listing", "deleting"}
  BY <1>2 DEF Returned, Blocked
<1>3. CASE ~ \E t \in Threads : at[t] \in {"gathering", "listing", "deleting"}
  <2>1. \A y \in Whips : mu[y] # None => mu[y] \in Scanning /\ Who(mu[y]) = y
    BY <1>1, <1>3, Holders
  <2>2. Scanning # {}
    BY <2>1
  <2>3. PICK s \in Scanning : \A u \in Scanning : Who(u) \notin todo[s]
    BY <2>2 DEF IInv, Acyclic
  <2>4. \A y \in Whips : y \in todo[s] => mu[y] = None
    BY <2>1, <2>3
  <2>5. ~Blocked(s)
    BY <2>3, <2>4 DEF Blocked
  <2> QED
    BY <2>3, <2>5 DEF Returned
<1> QED
  BY <1>2, <1>3

\* As long as calls of AddClient, NewConnection, RequestConns, Close and Shutdown
\* have not returned, one of them can go on, unless Close or AddClient takes the
\* mutexes of the group and of a client in opposite orders, or kickall waits for
\* itself: the mutexes have no other cycle.
THEOREM NoOtherDeadlock == Spec => []SomeoneRuns
<1>1. ASSUME IInv PROVE SomeoneRuns
  <2>1. CASE groupMu # None
    BY <1>1, <2>1, GroupHolderRuns DEF SomeoneRuns
  <2>2. CASE groupMu = None /\ \E w \in Whips : mu[w] # None
    BY <1>1, <2>2, ClientHolderRuns DEF SomeoneRuns
  <2>3. CASE groupMu = None /\ \A w \in Whips : mu[w] = None
    <3>1. \A t \in Threads : at[t] # "stuck"
      BY <1>1, <2>3, Kinds DEF IInv, GroupLocked
    <3>2. \A t \in Threads : ~Blocked(t)
      BY <2>3, <3>1 DEF Blocked
    <3> QED
      BY <3>2 DEF SomeoneRuns
  <2> QED
    BY <2>1, <2>2, <2>3
<1> QED
  BY <1>1, Invariance, PTL
=============================================================================
