------------------------------ MODULE WebClient ------------------------------
(***************************************************************************)
(* rtpconn/webclient.go: the loop that serves one WebSocket client.  Each  *)
(* client has a goroutine that takes turns between the messages it reads   *)
(* and the actions that other goroutines have queued for it; it alone      *)
(* changes the client's group and permissions.  The module composes the    *)
(* loops of all clients with the operations of module Group, and follows   *)
(* what each browser has been told of the users in its group.              *)
(*                                                                         *)
(* Definitions marked "Mutation" are mistakes that the properties must     *)
(* notice, and not part of the model.                                      *)
(***************************************************************************)
EXTENDS Naturals, Sequences, FiniteSets

CONSTANTS Clients, Ids, IdOf, LoginOp, Descs, NoDesc, NoClient, Objs, NoGroup,
          Watched, Cap, MaxBudget,
          Present,       \* the clients that have joined when the model starts
          MaxOrders      \* bound: how often operators change permissions

ASSUME PresentAssumption ==
    /\ Present \subseteq Clients
    /\ Present # {} => Present \cap LoginOp # {}
    /\ \A c, d \in Present : IdOf[c] = IdOf[d] => c = d
ASSUME OrdersAssumption == MaxOrders \in Nat

VARIABLES registry, desc, locked, members, op, group, pc, at, snapshot,
          actions, toKick, listening, disk, update, read, budget

VARIABLES
    batch,      \* the actions taken from the queue and not yet handled
    status,     \* "open", "closing" once the loop has returned, "closed"
    pushers,    \* the goroutines that announce a user's new permissions
    roster,     \* the users that the browser lists
    orders,     \* what is left of MaxOrders
    panicked    \* a goroutine has panicked, which ends the server

G == INSTANCE Group

ASSUME ClientsAssumption == /\ IsFiniteSet(Clients)
                            /\ IdOf \in [Clients -> Ids]
                            /\ LoginOp \subseteq Clients
                            /\ Watched \subseteq Clients
                            /\ NoClient \notin Clients
ASSUME DescsAssumption == Descs \subseteq G!Desc /\ NoDesc \notin Descs
ASSUME CapAssumption == Cap \in Nat /\ \A d \in Descs : d.max \in 1..Cap
ASSUME ObjsAssumption == NoGroup \notin Objs /\ Objs # {}
ASSUME BudgetAssumption == MaxBudget \in Nat

groupVars == <<registry, desc, locked, members, op, group, pc, at, snapshot,
               toKick, listening, disk, update, read, budget>>
webVars == <<batch, status, pushers, roster, orders, panicked>>
vars == <<groupVars, actions, webVars>>

\* Besides what the group sends: an operator's order to change a client's
\* permissions, the client's note to itself that they have changed, and the
\* announcement of another user's change.
Permission(value) == [type |-> "permission", op |-> value]
\* Mutation: the action is misspelt.
PermissionsMisspelt == [type |-> "permissionschanged"]
PermissionsChanged == [type |-> "permissions changed"]
Changed(id) == [type |-> "change", id |-> id]

Action == G!Action
          \cup [type : {"permission"}, op : BOOLEAN]
          \cup [type : {"permissions changed"}]
          \cup [type : {"change"}, id : Ids]

Pusher == [id : Ids, to : SUBSET Clients]

Start == CHOOSE o \in Objs : TRUE

\* Either nobody has come yet, or the clients of Present are in the group and
\* have been told of one another.
Init == /\ disk \in Descs
        /\ registry = IF Present = {} THEN NoGroup ELSE Start
        /\ desc = [o \in Objs |-> IF o = registry THEN disk ELSE NoDesc]
        /\ locked = [o \in Objs |-> FALSE]
        /\ members = [o \in Objs |-> [i \in Ids |->
                         IF o = registry /\ \E c \in Present : IdOf[c] = i
                         THEN CHOOSE c \in Present : IdOf[c] = i
                         ELSE NoClient]]
        /\ op = [c \in Clients |-> c \in Present \cap LoginOp]
        /\ group = [c \in Clients |-> IF c \in Present THEN Start ELSE NoGroup]
        /\ pc = [c \in Clients |-> "idle"]
        /\ at = [c \in Clients |-> NoGroup]
        /\ snapshot = [c \in Clients |-> {}]
        /\ actions = [c \in Clients |-> <<>>]
        /\ toKick = {}
        /\ listening = Watched
        /\ update = "idle"
        /\ read = NoDesc
        /\ budget = MaxBudget
        /\ batch = [c \in Clients |-> <<>>]
        /\ status = [c \in Clients |-> "open"]
        /\ pushers = {}
        /\ roster = [c \in Clients |-> IF c \in Present \cap Watched
                                       THEN {IdOf[d] : d \in Present} ELSE {}]
        /\ orders = MaxOrders
        /\ panicked = FALSE

\* The elements of a sequence that are in a set, which is SelectSeq.
Only(s, S) ==
    LET kept[n \in 0..Len(s)] ==
            IF n = 0 THEN <<>>
            ELSE IF s[n] \in S THEN Append(kept[n - 1], s[n]) ELSE kept[n - 1]
    IN kept[Len(s)]

Put(c, a) == IF c \in listening
             THEN actions' = [actions EXCEPT ![c] = Append(@, a)]
             ELSE UNCHANGED actions

\* The client's goroutine is in the select of clientLoop.
Selecting(c) == /\ ~panicked
                /\ status[c] = "open" /\ pc[c] = "idle" /\ batch[c] = <<>>
-----------------------------------------------------------------------------
(* Messages from the browser. *)

\* A failure to find the group is reported, and the browser then forgets the
\* users it knew.
Join(c) == /\ Selecting(c)
           /\ G!AddClient(c)
           /\ roster' = IF pc'[c] = "added" THEN roster
                                            ELSE [roster EXCEPT ![c] = {}]
           /\ UNCHANGED <<batch, status, pushers, orders, panicked>>

\* A join that the group refuses is reported in the same way.
JoinRefused(c) == /\ ~panicked
                  /\ G!Refuse(c)
                  /\ roster' = [roster EXCEPT ![c] = {}]
                  /\ UNCHANGED <<batch, status, pushers, orders, panicked>>

JoinAdmitted(c) == ~panicked /\ G!Admit(c) /\ UNCHANGED webVars

LeaveMessage(c) == /\ Selecting(c)
                   /\ G!DelClient(c)
                   /\ UNCHANGED webVars

\* The user action "op" or "unop" of an operator.
UserAction(c, target, value) ==
    /\ Selecting(c) /\ group[c] # NoGroup /\ op[c]
    /\ target \in G!Members(group[c])
    /\ orders > 0 /\ orders' = orders - 1
    /\ Put(target, Permission(value))
    /\ UNCHANGED <<groupVars, batch, status, pushers, roster, panicked>>

KickMessage(c, target) == /\ Selecting(c)
                          /\ G!KickUser(c, target)
                          /\ UNCHANGED webVars

LockMessage(c, lock) == /\ Selecting(c)
                        /\ G!SetLocked(c, lock)
                        /\ UNCHANGED webVars

\* The reader fails, nothing has been read for 45 seconds, or a message is
\* against the protocol: the loop returns.
Disconnect(c) == /\ Selecting(c)
                 /\ status' = [status EXCEPT ![c] = "closing"]
                 /\ G!StopListening(c)
                 /\ UNCHANGED <<batch, pushers, roster, orders, panicked>>

Message(c) == \/ Join(c) \/ LeaveMessage(c)
              \/ \E target \in Clients :
                    \/ KickMessage(c, target)
                    \/ \E value \in BOOLEAN : UserAction(c, target, value)
              \/ \E lock \in BOOLEAN : LockMessage(c, lock)
              \/ Disconnect(c)
-----------------------------------------------------------------------------
(* Actions queued by other goroutines. *)

\* Those that tell the browser that it has joined, or of a new status of the
\* group, change nothing here and are left out.
Relevant == Action \ {G!Joined("join"), G!Joined("change")}

GetActions(c) ==
    /\ Selecting(c)
    /\ G!TakeActions(c)
    /\ batch' = [batch EXCEPT ![c] = Only(actions[c], Relevant)]
    /\ UNCHANGED <<status, pushers, roster, orders, panicked>>

Handling(c) == /\ ~panicked
               /\ status[c] = "open" /\ pc[c] = "idle" /\ batch[c] # <<>>

HandleNext(c, type) == /\ Handling(c)
                       /\ Head(batch[c]).type = type
                       /\ batch' = [batch EXCEPT ![c] = Tail(@)]

\* The actions that only tell the browser something.  They concern nobody
\* else, and all that stand at the head of the batch are handled in one step.
Tells(a) == a.type \in {"joined", "add", "delete", "change"}

TellPrefix(c) ==
    LET ends == {i \in 1..Len(batch[c]) : ~Tells(batch[c][i])}
    IN IF ends = {} THEN Len(batch[c])
                    ELSE (CHOOSE i \in ends : \A j \in ends : i <= j) - 1

\* What the browser makes of them.  It adds a user that it does not know even
\* when it is told of a change.
Lists(a, i) == \/ a.type = "add" /\ i \in a.ids
               \/ a.type = "change" /\ i = a.id

\* Mutation: the users that an action adds replace those that were known.
DropsOthers(a, i) == \/ a.type = "joined" /\ a.kind = "leave"
                     \/ a.type = "add" /\ i \notin a.ids
                     \/ a.type = "delete" /\ i = a.id

Drops(a, i) == \/ a.type = "joined" /\ a.kind = "leave"
               \/ a.type = "delete" /\ i = a.id

\* The users that it lists in the end: what was told last of each is what counts.
Told(users, as) ==
    {i \in Ids :
        \/ i \in users /\ \A k \in DOMAIN as : ~Drops(as[k], i)
        \/ \E k \in DOMAIN as :
              Lists(as[k], i) /\ \A l \in DOMAIN as : l > k => ~Drops(as[l], i)}

\* joinedAction and pushClientAction.  The latter compares its group's name
\* with that of c.group, which the client may have left since.
HandleTell(c) ==
    LET n == TellPrefix(c)
    IN /\ Handling(c) /\ n > 0
       /\ batch' = [batch EXCEPT ![c] = SubSeq(@, n + 1, Len(@))]
       /\ panicked' = /\ group[c] = NoGroup
                      /\ \E i \in 1..n : batch[c][i].type # "joined"
       /\ roster' = [roster EXCEPT ![c] =
                        Told(@, SubSeq(batch[c], 1, n))]
       /\ UNCHANGED <<groupVars, actions, status, pushers, orders>>

\* changePermissionsAction: the permission, and a note to itself.
HandlePermission(c) ==
    /\ HandleNext(c, "permission")
    /\ op' = [op EXCEPT ![c] = Head(batch[c]).op]
    /\ Put(c, PermissionsChanged)
    /\ UNCHANGED <<registry, desc, locked, members, group, pc, at, snapshot,
                   toKick, listening, disk, update, read, budget, status,
                   pushers, roster, orders, panicked>>

\* permissionsChangedAction: a goroutine will tell the clients of the group as
\* it is now.  Outside any group the loop fails.  Two goroutines with the same
\* announcement left to make count as one.
HandlePermissionsChanged(c) ==
    /\ HandleNext(c, "permissions changed")
    /\ group[c] # NoGroup
    /\ pushers' = pushers \cup
                     {[id |-> IdOf[c], to |-> G!Members(group[c])]}
    /\ UNCHANGED <<groupVars, actions, status, roster, orders, panicked>>

\* Mutation: the loop goes on after a kick.
HandleEndIgnored(c) ==
    /\ \/ HandleNext(c, "kick")
       \/ HandleNext(c, "permissions changed") /\ group[c] = NoGroup
    /\ UNCHANGED <<groupVars, actions, status, pushers, roster, orders, panicked>>

\* A kick, or a change of permissions outside any group, ends the loop.
HandleEnd(c) ==
    /\ \/ HandleNext(c, "kick")
       \/ HandleNext(c, "permissions changed") /\ group[c] = NoGroup
    /\ status' = [status EXCEPT ![c] = "closing"]
    /\ G!StopListening(c)
    /\ UNCHANGED <<pushers, roster, orders, panicked>>

Handle(c) == \/ HandleTell(c) \/ HandlePermission(c)
             \/ HandlePermissionsChanged(c) \/ HandleEnd(c)
-----------------------------------------------------------------------------
\* The deferred leaveGroup of a loop that has returned.
CloseLeave(c) == /\ ~panicked
                 /\ status[c] = "closing"
                 /\ G!DelClient(c)
                 /\ UNCHANGED webVars

\* Mutation: the connection is closed before the client has left its group.
CloseAtOnce(c) == /\ ~panicked
                  /\ status[c] = "closing" /\ pc[c] = "idle"
                  /\ status' = [status EXCEPT ![c] = "closed"]
                  /\ UNCHANGED <<groupVars, actions, batch, pushers, roster,
                                 orders, panicked>>

\* Mutation: the client's group is forgotten, and the client not deleted there.
CloseForgetting(c) ==
    /\ ~panicked
    /\ status[c] = "closing" /\ pc[c] = "idle"
    /\ status' = [status EXCEPT ![c] = "closed"]
    /\ group' = [group EXCEPT ![c] = NoGroup]
    /\ UNCHANGED <<registry, desc, locked, members, op, pc, at, snapshot,
                   toKick, listening, disk, update, read, budget, actions,
                   batch, pushers, roster, orders, panicked>>

\* There is no group, or none any more: the connection is closed.
Close(c) == /\ ~panicked
            /\ status[c] = "closing"
            /\ pc[c] = "idle" /\ group[c] = NoGroup
            /\ status' = [status EXCEPT ![c] = "closed"]
            /\ batch' = [batch EXCEPT ![c] = <<>>]
            /\ roster' = [roster EXCEPT ![c] = {}]
            /\ UNCHANGED <<groupVars, actions, pushers, orders, panicked>>

Leaving(c) == /\ ~panicked
              /\ G!TellDeleted(c) \/ G!ScanForOps(c) \/ G!LockAndKick(c)
              /\ UNCHANGED webVars

Loop(c) == \/ JoinAdmitted(c) \/ JoinRefused(c)
           \/ GetActions(c) \/ Handle(c)
           \/ CloseLeave(c) \/ Close(c) \/ Leaving(c)

\* A goroutine of permissionsChangedAction tells one client.
PushChange ==
    /\ ~panicked
    /\ \E p \in pushers :
           IF p.to = {}
           THEN pushers' = pushers \ {p} /\ UNCHANGED actions
           ELSE \E c \in p.to :
                   /\ Put(c, Changed(p.id))
                   /\ pushers' = (pushers \ {p})
                                    \cup {[p EXCEPT !.to = @ \ {c}]}
    /\ UNCHANGED <<groupVars, batch, status, roster, orders, panicked>>

\* What goes on beside the clients' loops.
\* Mutation: the goroutine finishes without kicking anyone.
KickNobody(c) == /\ ~panicked /\ c \in toKick
                 /\ toKick' = toKick \ {c}
                 /\ UNCHANGED <<registry, desc, locked, members, op, group, pc,
                                at, snapshot, listening, disk, update, read,
                                budget, actions, webVars>>
KickOne(c) == ~panicked /\ G!KickOne(c) /\ UNCHANGED webVars
UpdateCheck == ~panicked /\ G!UpdateCheck /\ UNCHANGED webVars
UpdateDelete == ~panicked /\ G!UpdateDelete /\ UNCHANGED webVars
UpdateAdd == ~panicked /\ G!UpdateAdd /\ UNCHANGED webVars
Request == ~panicked /\ G!Request /\ UNCHANGED webVars
EditDescription(d) == ~panicked /\ G!EditDescription(d) /\ UNCHANGED webVars

Next == \/ \E c \in Clients : Message(c) \/ Loop(c) \/ KickOne(c)
        \/ PushChange
        \/ UpdateCheck \/ UpdateDelete \/ UpdateAdd \/ Request
        \/ \E d \in Descs \cup {NoDesc} : EditDescription(d)

\* Goroutines run, the loop's select takes a ready queue eventually, and the
\* update is run for ever.  Browsers do not have to send anything.
Fairness == /\ \A c \in Clients : WF_vars(Loop(c)) /\ WF_vars(KickOne(c))
            /\ WF_vars(PushChange)
            /\ WF_vars(UpdateDelete) /\ SF_vars(UpdateAdd)

Spec == Init /\ [][Next]_vars /\ Fairness
-----------------------------------------------------------------------------
TypeOK == /\ op \in [Clients -> BOOLEAN]
          /\ actions \in [Clients -> Seq(Action)]
          /\ batch \in [Clients -> Seq(Action)]
          /\ status \in [Clients -> {"open", "closing", "closed"}]
          /\ pushers \subseteq Pusher
          /\ roster \in [Clients -> SUBSET Ids]
          /\ panicked \in BOOLEAN

\* The group as the clients' queues hide it: the actions that the loops queue
\* for one another are left out.
Mapped == INSTANCE Group WITH
              actions <- [c \in Clients |->
                             Only(actions[c], G!Action)]

(* Clients use groups only as module Group allows: what is shown of groups
   there holds for the whole server. *)
UsesGroup == [][Mapped!Next]_(Mapped!vars)

\* Nothing is left to tell the client.
Settled(c) == /\ c \in Watched /\ ~panicked
              /\ status[c] = "open" /\ pc[c] = "idle" /\ group[c] # NoGroup
              /\ batch[c] = <<>> /\ actions[c] = <<>>

(* A client that has handled all that was queued for it knows every client of
   its group, whatever joined or left while it joined. *)
RosterComplete ==
    \A c \in Clients : Settled(c) =>
        \A x \in G!Members(group[c]) : IdOf[x] \in roster[c]

(* A connection that is closed has left nothing behind in any group. *)
ClosedLeft ==
    \A c \in Clients : status[c] = "closed" =>
        \A o \in Objs : c \notin G!Members(o)

(* Actions for a group that the client has left are ignored, as the comment
   "got client for wrong group" (webclient.go:1156) has it. *)
NeverPanics == ~panicked

\* The client is about to be kicked by autoLockKick, or has a kick in its queue,
\* from there or from an operator.
ToBeKicked(c) ==
    \/ c \in toKick
    \/ \E i \in DOMAIN actions[c] : actions[c][i] = G!Kicked
    \/ \E i \in DOMAIN batch[c] : batch[c][i] = G!Kicked

(* A client that is kicked, by an operator or because there is none, is
   eventually gone, and its place in the group free. *)
KickedLeave ==
    \A c \in Watched :
        ToBeKicked(c)
            ~> panicked \/ (status[c] = "closed" /\ group[c] = NoGroup)

(* An autokick group is eventually empty, or has an operator again, when its
   last operator leaves or is demoted. *)
AutokickEmpties ==
    []<>(registry # NoGroup /\ disk # NoDesc /\ desc[registry].autokick
         /\ G!NoOps(registry)
            => G!Members(registry) \cap Watched = {} \/ panicked)
=============================================================================
