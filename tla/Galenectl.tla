------------------------------ MODULE Galenectl ------------------------------
(***************************************************************************)
(* galenectl/galenectl.go: the administrator's commands, as the requests   *)
(* that each of them sends to the server's API.  A command sends one       *)
(* request, except for those that update an object: they get it, change    *)
(* it, and put it back on the condition that it has not changed in the     *)
(* meantime.  Modules Descriptions and TokenStore run these commands.      *)
(*                                                                         *)
(* The names of groups, and everything a command prints, are left out.     *)
(***************************************************************************)
EXTENDS Naturals

CONSTANTS Users,        \* the users a group may define, "wildcard" included
          NoOne,        \* stands for the user where there is none
          Fields,       \* the fields of a group's definition
          Values,       \* their values, Default among them
          Default,
          Perms,        \* permissions
          Hashes,       \* hashed passwords
          NoPassword,
          KeySets,      \* sets of cryptographic keys
          NoKeys,
          TokenPerms,   \* the permissions a token may give
          Times,        \* the dates at which it may expire
          NoChange      \* what a request does not give

\* What a request is about.
Group == <<"group", NoOne>>
Keys == <<"keys", NoOne>>
UserOf(u) == <<"user", u>>
PasswordOf(u) == <<"password", u>>
TokenNamed(t) == <<"token", t>>
TokenList == <<"tokens", NoOne>>

(* reads: the command first gets the object.  match: the precondition, which
   is "seen" for If-Match with the tag that came with the object, "absent" for
   If-None-Match with a star, and "any" when there is none.  set: what the
   body changes. *)
Command(reads, method, on, match, set) ==
    [reads |-> reads, method |-> method, on |-> on, match |-> match,
     set |-> set]

\* The fields named on the command line, or in a template, and their values.
Template == UNION {[F -> Values] : F \in SUBSET Fields}

\* getJSON: the commands that only read.
GetJSON(on) == Command(TRUE, "GET", on, "any", NoChange)

\* putJSON: overwrite, or create on the condition that there is nothing yet.
PutJSON(on, value, overwrite) ==
    Command(FALSE, "PUT", on, IF overwrite THEN "any" ELSE "absent", value)

\* updateJSON: a read, and a write on the condition that nothing changed.
UpdateJSON(on, change) == Command(TRUE, "PUT", on, "seen", change)

\* deleteValue.
DeleteValue(on) == Command(FALSE, "DELETE", on, "any", NoChange)

SetPasswordCmd(u, hash) == PutJSON(PasswordOf(u), hash, TRUE)

DeletePasswordCmd(u) == DeleteValue(PasswordOf(u))

CreateGroupCmd(template) == PutJSON(Group, template, FALSE)

DeleteGroupCmd == DeleteValue(Group)

UpdateGroupCmd(template) == UpdateJSON(Group, template)

\* With -l, the list of users is followed by a request for each of them.
ListUsersCmd == {GetJSON(Group)} \cup {GetJSON(UserOf(u)) : u \in Users}

CreateUserCmd(u, perm) == PutJSON(UserOf(u), perm, FALSE)

UpdateUserCmd(u, perm) == UpdateJSON(UserOf(u), perm)

DeleteUserCmd(u) == DeleteValue(UserOf(u))

ShowGroupCmd == GetJSON(Group)

\* What a request says of a token: all of it, or what is to change.
TokenBody(perms, expires) == [perms |-> perms, expires |-> expires]

\* postJSON: the server chooses the name of the new token.
CreateTokenCmd(perms, expires) ==
    Command(FALSE, "POST", TokenList, "any", TokenBody(perms, expires))

UpdateTokenCmd(t, perms, expires) ==
    UpdateJSON(TokenNamed(t), TokenBody(perms, expires))

\* The token expires a minute ago.
RevokeTokenCmd(t) == UpdateJSON(TokenNamed(t), TokenBody(NoChange, 0))

DeleteTokenCmd(t) == DeleteValue(TokenNamed(t))

\* With -l, the list is followed by a request for each token.
ListTokensCmd(ts) == {GetJSON(TokenList)} \cup {GetJSON(TokenNamed(t)) : t \in ts}

\* Not galenectl: the browser's management page deletes what it has shown,
\* on the condition that it is still the same.
DeleteSeen(on) == Command(TRUE, "DELETE", on, "seen", NoChange)

\* Not galenectl: only other programs set a group's keys.
SetKeysRequest(keys) == PutJSON(Keys, keys, TRUE)
DeleteKeysRequest == DeleteValue(Keys)

\* Not galenectl: the messages maketoken, edittoken and listtokens of a member
\* of the group, and joining the group with a token.
MakeToken(perms, expires) == CreateTokenCmd(perms, expires)
EditToken(t, expires) ==
    Command(FALSE, "EDIT", TokenNamed(t), "any", TokenBody(NoChange, expires))
ListTokens == GetJSON(TokenList)
UseToken(t) == Command(FALSE, "USE", TokenNamed(t), "any", NoChange)

AllCommands ==
    {CreateGroupCmd(t) : t \in Template} \cup {UpdateGroupCmd(t) : t \in Template}
    \cup {DeleteGroupCmd, ShowGroupCmd, DeleteKeysRequest} \cup ListUsersCmd
    \cup {DeleteSeen(Group)}
    \cup {SetKeysRequest(k) : k \in KeySets}
    \cup {CreateUserCmd(u, p) : u \in Users, p \in Perms}
    \cup {UpdateUserCmd(u, p) : u \in Users, p \in Perms}
    \cup {DeleteUserCmd(u) : u \in Users}
    \cup {DeleteSeen(UserOf(u)) : u \in Users}
    \cup {SetPasswordCmd(u, h) : u \in Users, h \in Hashes}
    \cup {DeletePasswordCmd(u) : u \in Users}

ASSUME GalenectlAssumption ==
    /\ Default \in Values
    /\ NoOne \notin Users
    /\ NoPassword \notin Hashes
    /\ NoKeys \notin KeySets
=============================================================================
