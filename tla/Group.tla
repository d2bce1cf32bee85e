-------------------------------- MODULE Group --------------------------------
(***************************************************************************)
(* group/group.go: the registry of groups, the table of clients that each  *)
(* group keeps, and the operations that clients, HTTP handlers and the     *)
(* periodic update perform on them concurrently.                           *)
(*                                                                         *)
(* All the groups of a server are independent, so the module follows one   *)
(* group name.  A section of code under groups.mu or g.mu is one step; the *)
(* places where an operation releases its locks and goes on are steps of   *)
(* their own, recorded in pc.  What an operation tells the clients is put  *)
(* on their action queues (module UnboundedChannel).                       *)
(*                                                                         *)
(* Definitions marked "Mutation" are not part of the model: each is a      *)
(* mistake that could have been made in the definition that follows it,    *)
(* kept to see that the properties notice it.                              *)
(***************************************************************************)
EXTENDS Naturals, Sequences, FiniteSets

CONSTANTS Clients,       \* client objects, one per connection
          Ids,           \* client identifiers
          IdOf,          \* the identifier each client announced
          LoginOp,       \* the clients whose credentials give them "op"
          Descs,         \* the contents the description file may have
          NoDesc,        \* there is no description file
          NoClient,
          Objs,          \* memory for Group values, reused when unreachable
          NoGroup,
          Watched,       \* bound: the clients whose queues, and whose
                         \* permissions outside any group, are followed
          Cap,           \* no description allows more clients than this
          MaxBudget      \* bound: logins, edits, locks and HTTP requests

Desc == [autolock : BOOLEAN, autokick : BOOLEAN, public : BOOLEAN,
         redirect : BOOLEAN, max : Nat]

ASSUME ClientsAssumption == /\ IsFiniteSet(Clients)
                            /\ IdOf \in [Clients -> Ids]
                            /\ LoginOp \subseteq Clients
                            /\ Watched \subseteq Clients
                            /\ NoClient \notin Clients
ASSUME DescsAssumption == /\ Descs \subseteq Desc
                          /\ NoDesc \notin Descs
ASSUME CapAssumption == /\ Cap \in Nat
                        /\ \A d \in Descs : d.max \in 1..Cap
ASSUME ObjsAssumption == NoGroup \notin Objs
ASSUME BudgetAssumption == MaxBudget \in Nat

VARIABLES
    registry,   \* groups.groups[name], or NoGroup
    desc,       \* g.description, for each object
    locked,     \* g.locked # nil
    members,    \* g.clients
    op,         \* whether c.Permissions() contains "op"
    group,      \* c.Group(): the group the client recorded
    pc,         \* where the client's goroutine is in AddClient or DelClient
    at,         \* that operation's local variable g
    snapshot,   \* that operation's local variable clients
    actions,    \* what the group queued for each client
    toKick,     \* clients that a goroutine of autoLockKick has yet to kick
    listening,  \* the clients whose loop takes its actions
    disk,       \* the description file
    update,     \* where the periodic update is
    read,       \* the description it read from disk
    budget      \* what is left of MaxBudget

registryVars == <<registry, desc, locked>>
callVars == <<pc, at, snapshot>>
updateVars == <<update, read>>
restVars == <<disk, listening, updateVars>>   \* untouched by most operations
vars == <<registryVars, members, op, group, callVars, actions, toKick,
          listening, disk, updateVars, budget>>

Action == [type : {"joined"}, kind : {"join", "change", "leave"}]
          \cup [type : {"add"}, ids : SUBSET Ids]
          \cup [type : {"delete"}, id : Ids]
          \cup [type : {"kick"}]

Init == /\ registry = NoGroup
        /\ desc = [o \in Objs |-> NoDesc]
        /\ locked = [o \in Objs |-> FALSE]
        /\ members = [o \in Objs |-> [i \in Ids |-> NoClient]]
        /\ op = [c \in Clients |-> FALSE]
        /\ group = [c \in Clients |-> NoGroup]
        /\ pc = [c \in Clients |-> "idle"]
        /\ at = [c \in Clients |-> NoGroup]
        /\ snapshot = [c \in Clients |-> {}]
        /\ actions = [c \in Clients |-> <<>>]
        /\ toKick = {}
        /\ listening = Watched
        /\ disk \in Descs
        /\ update = "idle"
        /\ read = NoDesc
        /\ budget = MaxBudget
-----------------------------------------------------------------------------
(* Helpers. *)

\* getClientsUnlocked(nil)
Members(o) == {members[o][i] : i \in Ids} \ {NoClient}

NoOps(o) == \A c \in Members(o) : ~op[c]

\* Memory that nothing refers to any more.
Free(o) == /\ o # registry
           /\ Members(o) = {}
           /\ \A c \in Clients : at[c] # o /\ group[c] # o

Spend == budget > 0 /\ budget' = budget - 1

\* What is sent to a client is queued, as long as somebody reads the queue.
Send(sent) ==
    actions' = [c \in Clients |->
                   actions[c] \o IF c \in listening THEN sent[c] ELSE <<>>]

Joined(kind) == [type |-> "joined", kind |-> kind]
Added(ids) == [type |-> "add", ids |-> ids]
\* Mutation: the kind of the message is misspelt.
DeletedMisspelt(id) == [type |-> "del", id |-> id]
Deleted(id) == [type |-> "delete", id |-> id]
Kicked == [type |-> "kick"]

SendChange(cs) ==
    Send([c \in Clients |-> IF c \in cs THEN <<Joined("change")>> ELSE <<>>])

\* Client.Kick.  A kick ends the client's loop, so that a second one behind it
\* is never seen; it is not recorded.
Kick(c) ==
    IF \E i \in DOMAIN actions[c] : actions[c][i] = Kicked
    THEN UNCHANGED actions
    ELSE Send([x \in Clients |-> IF x = c THEN <<Kicked>> ELSE <<>>])
-----------------------------------------------------------------------------
(* add(name, d), with NoDesc for a nil d.  It runs under groups.mu and g.mu,
   autoLockKick included; the clients that it tells of the new description
   are told after that, which is not a step of its own.  A client that is told
   of both the description and the lock is told once. *)

\* Mutation: the description of an existing group is not read again.
StaleDescription(d) == IF d # NoDesc THEN d
                       ELSE IF registry # NoGroup THEN desc[registry] ELSE disk

\* The description that was passed, or else the one in the file.
FreshDescription(d) == IF d # NoDesc THEN d ELSE disk

AddSucceeds(d, o) ==
    LET new == registry = NoGroup
        fresh == FreshDescription(d)
        wasLocked == ~new /\ locked[o]
        locks == fresh.autolock /\ ~wasLocked /\ NoOps(o)
        changed == ~new /\ desc[o] # fresh
    IN /\ fresh # NoDesc
       /\ IF new THEN Free(o) ELSE o = registry
       /\ registry' = o
       /\ desc' = [desc EXCEPT ![o] = fresh]
       /\ locked' = [locked EXCEPT ![o] = wasLocked \/ locks]
       /\ SendChange(IF locks \/ changed THEN Members(o) ELSE {})
       /\ toKick' = IF fresh.autokick /\ NoOps(o) THEN toKick \cup Members(o)
                                                  ELSE toKick

\* deleteUnlocked: only a group without clients is forgotten.
DeleteUnlocked ==
    registry' = IF Members(registry) = {} THEN NoGroup ELSE registry

\* The file is gone: the group, if there is one, is deleted when it is empty.
AddFails(d) ==
    /\ d = NoDesc /\ disk = NoDesc
    /\ IF registry = NoGroup THEN registry' = NoGroup ELSE DeleteUnlocked
    /\ UNCHANGED <<desc, locked, actions, toKick>>

\* An HTTP request for the group's page, its status, or a WHIP endpoint.
Request == /\ Spend
           /\ (\E o \in Objs : AddSucceeds(NoDesc, o)) \/ AddFails(NoDesc)
           /\ UNCHANGED <<members, op, group, callVars, restVars>>
-----------------------------------------------------------------------------
(* AddClient: it looks the group up through Add, which releases all locks,
   and only then locks the group that it found. *)

AddClient(c) ==
    /\ pc[c] = "idle" /\ group[c] = NoGroup
    /\ Spend
    /\ \/ \E o \in Objs : /\ AddSucceeds(NoDesc, o)
                          /\ pc' = [pc EXCEPT ![c] = "added"]
                          /\ at' = [at EXCEPT ![c] = o]
       \/ AddFails(NoDesc) /\ UNCHANGED <<pc, at>>
    /\ UNCHANGED <<members, op, group, snapshot, restVars>>

\* Mutation: one client too many.
MayEnterFull(o) == /\ ~locked[o]
                   /\ ~(desc[o].autokick /\ NoOps(o))
                   /\ Cardinality(Members(o)) <= desc[o].max

\* The restrictions on clients that do not hold "op".
MayEnter(o) == /\ ~locked[o]
               /\ ~(desc[o].autokick /\ NoOps(o))
               /\ Cardinality(Members(o)) < desc[o].max

Return(c) == /\ pc' = [pc EXCEPT ![c] = "idle"]
             /\ at' = [at EXCEPT ![c] = NoGroup]
             /\ snapshot' = [snapshot EXCEPT ![c] = {}]

\* Mutation: a client may take over an identifier that is in use.
AdmitOverwriting(c) ==
    LET o == at[c]
    IN /\ pc[c] = "added"
       /\ c \in LoginOp \/ MayEnter(o)
       /\ members' = [members EXCEPT ![o][IdOf[c]] = c]
       /\ op' = [op EXCEPT ![c] = c \in LoginOp]
       /\ group' = [group EXCEPT ![c] = o]
       /\ Return(c)
       /\ UNCHANGED <<registryVars, actions, toKick, restVars, budget>>

\* The locked part of AddClient, when it admits the client, together with the
\* assignment to c.group that follows in the caller and which a redirecting
\* group skips.  Under the same lock everyone is told of the new client, and
\* the new client of everyone.
Admit(c) ==
    LET o == at[c]
    IN /\ pc[c] = "added"
       /\ c \in LoginOp \/ MayEnter(o)
       /\ members[o][IdOf[c]] = NoClient
       /\ members' = [members EXCEPT ![o][IdOf[c]] = c]
       /\ op' = [op EXCEPT ![c] = c \in LoginOp]
       /\ group' = IF desc[o].redirect THEN group
                                       ELSE [group EXCEPT ![c] = o]
       /\ Send([x \in Clients |->
                   IF x = c
                   THEN <<Joined("join"),
                          Added({IdOf[y] : y \in Members(o) \cup {c}})>>
                   ELSE IF x \in Members(o) THEN <<Added({IdOf[c]})>>
                                            ELSE <<>>])
       /\ Return(c)
       /\ UNCHANGED <<registryVars, toKick, restVars, budget>>

\* Mutation: the client is entered in the table before it is refused.
RefuseEntered(c) ==
    /\ pc[c] = "added" /\ c \notin LoginOp /\ ~MayEnter(at[c])
    /\ members[at[c]][IdOf[c]] = NoClient
    /\ members' = [members EXCEPT ![at[c]][IdOf[c]] = c]
    /\ Return(c)
    /\ UNCHANGED <<registryVars, op, group, actions, toKick, restVars, budget>>

\* The locked part of AddClient, when it refuses the client.  The credentials
\* may be wrong.  If they are not, Init has given the client its permissions
\* by the time it is refused.  open says whether the time is between the
\* not-before and expires dates.
Refuse(c) ==
    LET o == at[c]
    IN /\ pc[c] = "added"
       /\ \/ UNCHANGED op
          \/ \E open \in BOOLEAN :
                /\ \/ c \notin LoginOp /\ (~open \/ ~MayEnter(o))
                   \/ members[o][IdOf[c]] # NoClient
                /\ op' = [op EXCEPT ![c] = c \in LoginOp]
       /\ Return(c)
       /\ UNCHANGED <<registryVars, members, group, actions, toKick, restVars,
                      budget>>
-----------------------------------------------------------------------------
(* DelClient, and the end of leaveGroup, which clears the client's permissions
   and group. *)

Leave(c) == /\ Return(c)
            /\ op' = [op EXCEPT ![c] = FALSE]
            /\ group' = [group EXCEPT ![c] = NoGroup]

\* The locked part.
DelClient(c) ==
    LET o == group[c]
    IN /\ pc[c] = "idle" /\ o # NoGroup
       /\ IF members[o][IdOf[c]] = c
          THEN /\ members' = [members EXCEPT ![o][IdOf[c]] = NoClient]
               /\ pc' = [pc EXCEPT ![c] = "removed"]
               /\ at' = [at EXCEPT ![c] = o]
               /\ snapshot' = [snapshot EXCEPT ![c] = Members(o) \ {c}]
               /\ UNCHANGED <<op, group>>
          ELSE Leave(c) /\ UNCHANGED members
       /\ UNCHANGED <<registryVars, actions, toKick, restVars, budget>>

\* The lock is released; the others are told.
TellDeleted(c) ==
    /\ pc[c] = "removed"
    /\ pc' = [pc EXCEPT ![c] = "told"]
    /\ snapshot' = [snapshot EXCEPT ![c] = {}]
    /\ Send([x \in Clients |->
                IF x = c THEN <<Joined("leave")>>
                ELSE IF x \in snapshot[c] THEN <<Deleted(IdOf[c])>>
                                          ELSE <<>>])
    /\ UNCHANGED <<registryVars, members, op, group, at, toKick, restVars,
                   budget>>

\* The first half of autoLockKick, called without the lock: the clients are
\* listed and searched for an operator.
ScanForOps(c) ==
    LET o == at[c]
    IN /\ pc[c] = "told"
       /\ IF /\ (desc[o].autolock /\ ~locked[o]) \/ desc[o].autokick
             /\ NoOps(o)
          THEN /\ pc' = [pc EXCEPT ![c] = "locking"]
               /\ snapshot' = [snapshot EXCEPT ![c] = Members(o)]
               /\ UNCHANGED <<op, group, at>>
          ELSE Leave(c)
       /\ UNCHANGED <<registryVars, members, actions, toKick, restVars,
                      budget>>

\* Its second half: the group is locked, the clients of the list are told, and
\* the clients of a new list are to be kicked.
LockAndKick(c) ==
    LET o == at[c]
        locks == desc[o].autolock /\ ~locked[o]
    IN /\ pc[c] = "locking"
       /\ locked' = [locked EXCEPT ![o] = @ \/ locks]
       /\ SendChange(IF locks THEN snapshot[c] ELSE {})
       /\ toKick' = IF desc[o].autokick THEN toKick \cup Members(o)
                                        ELSE toKick
       /\ Leave(c)
       /\ UNCHANGED <<registry, desc, members, restVars, budget>>

\* A goroutine started by autoLockKick kicks one client of its list.
KickOne(c) == /\ c \in toKick
              /\ toKick' = toKick \ {c}
              /\ Kick(c)
              /\ UNCHANGED <<registryVars, members, op, group, callVars,
                             restVars, budget>>
-----------------------------------------------------------------------------
(* What the clients do to a group and to themselves. *)

\* SetLocked, called for an operator; everyone is told.
SetLocked(c, lock) ==
    /\ pc[c] = "idle" /\ group[c] # NoGroup /\ op[c]
    /\ Spend
    /\ locked' = [locked EXCEPT ![group[c]] = lock]
    /\ SendChange(Members(group[c]))
    /\ UNCHANGED <<registry, desc, members, op, group, callVars, toKick,
                   restVars>>

\* An operator kicks a user: GetClient, then Kick, with no lock held.
KickUser(c, target) ==
    /\ pc[c] = "idle" /\ group[c] # NoGroup /\ op[c]
    /\ Spend
    /\ target \in Members(group[c])
    /\ Kick(target)
    /\ UNCHANGED <<registryVars, members, op, group, callVars, toKick,
                   restVars>>

\* A client's own goroutine changes its permissions.
SetOp(c, value) ==
    /\ pc[c] = "idle"
    /\ c \in Watched \/ group[c] # NoGroup
    /\ op' = [op EXCEPT ![c] = value]
    /\ UNCHANGED <<registryVars, members, group, callVars, actions, toKick,
                   restVars, budget>>

\* A client's own goroutine takes all that was queued for it.
TakeActions(c) ==
    /\ pc[c] = "idle" /\ actions[c] # <<>>
    /\ actions' = [actions EXCEPT ![c] = <<>>]
    /\ UNCHANGED <<registryVars, members, op, group, callVars, toKick,
                   restVars, budget>>

\* A client's loop returns: its queue is never read again.
StopListening(c) ==
    /\ pc[c] = "idle"
    /\ listening' = listening \ {c}
    /\ actions' = [actions EXCEPT ![c] = <<>>]
    /\ UNCHANGED <<registryVars, members, op, group, callVars, toKick, disk,
                   updateVars, budget>>

\* An administrator edits or removes the description file.
EditDescription(d) ==
    /\ d # disk
    /\ Spend
    /\ disk' = d
    /\ UNCHANGED <<registryVars, members, op, group, callVars, actions, toKick,
                   listening, updateVars>>
-----------------------------------------------------------------------------
(* Update, run every fifteen minutes: an idle group may be deleted, any other
   group is brought up to date, and the public groups are created.  The rounds
   follow one another for ever, so that where one ends is not recorded. *)

\* Get, then mayExpire: whether enough time has passed is not modelled.
UpdateCheck ==
    /\ update = "idle"
    /\ registry # NoGroup
    /\ ~desc[registry].public /\ Members(registry) = {}
    /\ update' = "delete"
    /\ UNCHANGED <<registryVars, members, op, group, callVars, actions, toKick,
                   disk, listening, read, budget>>

\* Delete looks the group up again, and checks again that it is empty.
UpdateDelete ==
    /\ update = "delete"
    /\ IF registry # NoGroup /\ Members(registry) = {}
       THEN registry' = NoGroup /\ update' = "idle"
       ELSE UNCHANGED registry /\ update' = "add"
    /\ UNCHANGED <<desc, locked, members, op, group, callVars, actions, toKick,
                   disk, listening, read, budget>>

\* Mutation: only public groups are added again.
UpdateAddPublic ==
    /\ update = "idle" /\ registry # NoGroup /\ desc[registry].public
    /\ (\E o \in Objs : AddSucceeds(NoDesc, o)) \/ AddFails(NoDesc)
    /\ UNCHANGED <<members, op, group, callVars, disk, listening, updateVars,
                   budget>>

\* A group that is not deleted is added again.
UpdateAdd ==
    /\ (update = "idle" /\ registry # NoGroup) \/ update = "add"
    /\ (\E o \in Objs : AddSucceeds(NoDesc, o)) \/ AddFails(NoDesc)
    /\ update' = "idle"
    /\ UNCHANGED <<members, op, group, callVars, disk, listening, read,
                   budget>>

\* The walk over the directory reads the description, from the cache if that
\* is current.
UpdateRead ==
    /\ update = "idle"
    /\ disk # NoDesc /\ disk.public
    /\ update' = "public" /\ read' = disk
    /\ UNCHANGED <<registryVars, members, op, group, callVars, actions, toKick,
                   disk, listening, budget>>

\* ...and hands it to Add, whatever the file contains by then.
UpdatePublic ==
    /\ update = "public"
    /\ \E o \in Objs : AddSucceeds(read, o)
    /\ update' = "idle" /\ read' = NoDesc
    /\ UNCHANGED <<members, op, group, callVars, disk, listening, budget>>

Update == UpdateCheck \/ UpdateDelete \/ UpdateAdd \/ UpdateRead \/ UpdatePublic
-----------------------------------------------------------------------------
\* What a client's goroutine does once it has started an operation.
Proceed(c) == \/ Admit(c) \/ Refuse(c)
              \/ TellDeleted(c) \/ ScanForOps(c) \/ LockAndKick(c)

ClientStep(c) == \/ AddClient(c) \/ DelClient(c) \/ Proceed(c)
                 \/ \E lock \in BOOLEAN : SetLocked(c, lock)
                 \/ \E target \in Clients : KickUser(c, target)
                 \/ \E value \in BOOLEAN : SetOp(c, value)
                 \/ TakeActions(c) \/ StopListening(c)
                 \/ KickOne(c)

Next == \/ \E c \in Clients : ClientStep(c)
        \/ Request
        \/ \E d \in Descs \cup {NoDesc} : EditDescription(d)
        \/ Update

\* Goroutines are scheduled, and the update is run for ever: it adds, again and
\* again, a group that it does not delete.  Nobody has to join, leave, edit or
\* send anything.
Fairness == /\ \A c \in Clients : /\ WF_vars(Proceed(c))
                                  /\ WF_vars(KickOne(c))
                                  /\ WF_vars(TakeActions(c))
            /\ WF_vars(UpdateDelete) /\ WF_vars(UpdatePublic)
            /\ SF_vars(UpdateAdd)

Safety == Init /\ [][Next]_vars
Spec == Safety /\ Fairness
-----------------------------------------------------------------------------
TypeOK ==
    /\ registry \in Objs \cup {NoGroup}
    /\ desc \in [Objs -> Descs \cup {NoDesc}]
    /\ locked \in [Objs -> BOOLEAN]
    /\ members \in [Objs -> [Ids -> Clients \cup {NoClient}]]
    /\ op \in [Clients -> BOOLEAN]
    /\ group \in [Clients -> Objs \cup {NoGroup}]
    /\ pc \in [Clients -> {"idle", "added", "removed", "told", "locking"}]
    /\ at \in [Clients -> Objs \cup {NoGroup}]
    /\ snapshot \in [Clients -> SUBSET Clients]
    /\ actions \in [Clients -> Seq(Action)]
    /\ toKick \subseteq Clients
    /\ listening \subseteq Watched
    /\ disk \in Descs \cup {NoDesc}
    /\ update \in {"idle", "delete", "add", "public"}
    /\ read \in Descs \cup {NoDesc}
    /\ budget \in 0..MaxBudget

(* A client whose Group() is g is in g's table under its own identifier for as
   long as it has not started to leave: no other connection, not even one that
   announces the same identifier, takes its place or removes it, although
   clients of a deleted and re-created group live in different tables. *)
StaysMember ==
    \A c \in Clients :
        group[c] # NoGroup /\ pc[c] = "idle" => members[group[c]][IdOf[c]] = c

(* Everyone in a group's table is an existing client that knows it: a client
   that has gone, or that believes to be elsewhere, is never left behind.  So
   it is unless the group redirects: a client that is redirected has been added
   to the group, and does not know it. *)
NoGhost ==
    \A o \in Objs : \A c \in Members(o) : group[c] = o /\ pc[c] = "idle"

(* max-clients bounds the number of clients that logged in as ordinary users,
   in each table, however the logins interleave. *)
MaxClientsRespected ==
    \A o \in Objs : Cardinality(Members(o) \ LoginOp) <= Cap

AutoUnlocked(o) == desc[o].autolock /\ ~locked[o] /\ NoOps(o)

(* An autolock group does not stay unlocked without an operator, even when the
   last operator did not leave but was demoted: the periodic update at the
   latest locks it.  (Not so once the description file is removed under the
   clients of a group: Add then fails before it comes to autoLockKick.) *)
AutolockEventually ==
    []<>(registry # NoGroup /\ disk # NoDesc => ~AutoUnlocked(registry))

(* A registered group is eventually brought in line with its description file,
   also after the walk handed an outdated description to Add. *)
DescriptionConverges ==
    []<>(registry # NoGroup /\ disk # NoDesc => desc[registry] = disk)
=============================================================================
