--------------------------- MODULE MCDescriptions ---------------------------
(* Two administrators, a group with two fields and a user.  All the commands
   there are, with one value for each of their arguments. *)
EXTENDS Descriptions, TLC, FiniteSets

CONSTANTS a1, a2, u1, f1, f2, zero, one, message, op, h1, k1

MCAdmins == {a1, a2}
AdminSymmetry == Permutations(MCAdmins)

MCUsers == {u1}
MCFields == {f1, f2}
MCValues == {zero, one}
MCPerms == {message, op}
MCHashes == {h1}
MCKeySets == {k1}

MCUser == [perm |-> message, password |-> h1]

MCInitialDocs == {[general |-> [f \in Fields |-> zero],
                   users |-> [u \in Users |-> MCUser], keys |-> k1]}

MCCommands ==
    {CreateGroupCmd(f1 :> one), UpdateGroupCmd(f1 :> one),
     UpdateGroupCmd(f2 :> one), DeleteGroupCmd, DeleteSeen(Group),
     ShowGroupCmd, SetKeysRequest(k1), DeleteKeysRequest,
     CreateUserCmd(u1, message), UpdateUserCmd(u1, op), DeleteUserCmd(u1),
     DeleteSeen(UserOf(u1)), GetJSON(UserOf(u1)),
     SetPasswordCmd(u1, h1), DeletePasswordCmd(u1)}

\* Values have names of the same length: the size depends on what is there.
MCSize(d) == Cardinality({u \in Users : d.users[u] # NoUser})
             + Cardinality({u \in Users : /\ d.users[u] # NoUser
                                          /\ d.users[u].password # NoPassword})
             + (IF d.keys = NoKeys THEN 0 ELSE 1)
=============================================================================
