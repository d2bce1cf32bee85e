------------------------- MODULE DescriptionRegister -------------------------
(***************************************************************************)
(* What the administration of a group promises: every command takes effect *)
(* at a single moment, on the definition that the group has at that moment *)
(* and on no more of it than the command is about, or else it has no       *)
(* effect at all and its user is told.  In particular no update is lost.   *)
(* A user who is told of a success is told the truth; what has failed may  *)
(* have had its effect, once, if only the answer was lost.                 *)
(***************************************************************************)
EXTENDS Galenectl

CONSTANTS Admins, Commands, NoDoc, NoUser

VARIABLES doc,          \* the group's definition
          running,      \* the command of each administrator
          status        \* and what became of it: running, applied but not
                        \* yet answered, done or failed

vars == <<doc, running, status>>

User == [perm : Perms, password : Hashes \cup {NoPassword}]

Doc == [general : [Fields -> Values],
        users : [Users -> User \cup {NoUser}],
        keys : KeySets \cup {NoKeys}]

Init == /\ doc \in Doc \cup {NoDoc}
        /\ running = [a \in Admins |-> ShowGroupCmd]
        /\ status = [a \in Admins |-> "done"]

Begin(a) == /\ status[a] \in {"done", "failed"}
            /\ \E m \in Commands : running' = [running EXCEPT ![a] = m]
            /\ status' = [status EXCEPT ![a] = "running"]
            /\ UNCHANGED doc

\* A group is created with the fields that the command gives, and no users.
Create(t) == /\ doc = NoDoc
             /\ doc' = [general |-> [f \in Fields |-> IF f \in DOMAIN t
                                                      THEN t[f] ELSE Default],
                        users |-> [u \in Users |-> NoUser],
                        keys |-> NoKeys]

\* An update changes the fields that the command gives, and nothing else.
Change(t) ==
    /\ doc # NoDoc
    /\ doc' = [doc EXCEPT !.general =
                   [f \in Fields |-> IF f \in DOMAIN t THEN t[f] ELSE @[f]]]

Defined(u) == doc # NoDoc /\ doc.users[u] # NoUser

SetUser(u, new) == doc' = [doc EXCEPT !.users[u] = new]

UserEffect(m, u) ==
    \/ /\ m.method = "PUT" /\ m.match = "absent"
       /\ doc # NoDoc /\ ~Defined(u)
       /\ SetUser(u, [perm |-> m.set, password |-> NoPassword])
    \/ /\ m.method = "PUT" /\ m.match = "seen" /\ Defined(u)
       /\ SetUser(u, [doc.users[u] EXCEPT !.perm = m.set])
    \/ /\ m.method = "DELETE" /\ Defined(u)
       /\ SetUser(u, NoUser)

Effect(m) ==
    \/ m.method = "GET" /\ UNCHANGED doc
    \/ /\ m.on = Group
       /\ \/ m.method = "PUT" /\ m.match = "absent" /\ Create(m.set)
          \/ m.method = "PUT" /\ m.match = "seen" /\ Change(m.set)
          \/ m.method = "DELETE" /\ doc # NoDoc /\ doc' = NoDoc
    \/ \E u \in Users : m.on = UserOf(u) /\ UserEffect(m, u)
    \/ \E u \in Users :
         /\ m.on = PasswordOf(u) /\ Defined(u)
         /\ SetUser(u, [doc.users[u] EXCEPT !.password =
                            IF m.method = "PUT" THEN m.set ELSE NoPassword])
    \/ /\ m.on = Keys /\ doc # NoDoc
       /\ doc' = [doc EXCEPT !.keys =
                      IF m.method = "PUT" THEN m.set ELSE NoKeys]

Perform(a) == /\ status[a] = "running"
              /\ Effect(running[a])
              /\ \E s \in {"applied", "done"} : status' = [status EXCEPT ![a] = s]
              /\ UNCHANGED running

\* The answer to a command that was carried out arrives, or is lost.
Answer(a) == /\ status[a] = "applied"
             /\ \E s \in {"done", "failed"} : status' = [status EXCEPT ![a] = s]
             /\ UNCHANGED <<doc, running>>

Fail(a) == /\ status[a] = "running"
           /\ status' = [status EXCEPT ![a] = "failed"]
           /\ UNCHANGED <<doc, running>>

\* The server restarts, and nobody who waits for an answer gets one.
FailAll == /\ status' = [a \in Admins |-> IF status[a] \in {"running", "applied"}
                                          THEN "failed" ELSE status[a]]
           /\ UNCHANGED <<doc, running>>

Next == \/ \E a \in Admins : Begin(a) \/ Perform(a) \/ Answer(a) \/ Fail(a)
        \/ FailAll

Spec == Init /\ [][Next]_vars
=============================================================================
