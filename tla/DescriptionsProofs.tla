------------------------- MODULE DescriptionsProofs -------------------------
(* If every write of a group's file has a date of its own, then the tag of a
   description stands for its content, for any number of administrators, any
   commands, and any number of them. *)
EXTENDS Descriptions, TLAPS

\* What the commands of galenectl and of the other programs may ask for.
WellFormed(m) ==
    /\ m \in [reads : BOOLEAN, method : {"GET", "PUT", "DELETE"},
              on : {Group, Keys} \cup {UserOf(u) : u \in Users}
                                 \cup {PasswordOf(u) : u \in Users},
              match : {"any", "seen", "absent"},
              set : Template \cup Perms \cup Hashes \cup KeySets \cup {NoChange}]
    /\ m.method = "PUT" /\ m.on = Group => m.set \in Template
    /\ \A u \in Users : m.method = "PUT" /\ m.on = UserOf(u) => m.set \in Perms
    /\ \A u \in Users :
         m.method = "PUT" /\ m.on = PasswordOf(u) => m.set \in Hashes
    /\ m.method = "PUT" /\ m.on = Keys => m.set \in KeySets
    /\ m.match = "seen" \/ m.method = "GET" => m.reads
    /\ m.method = "PUT" /\ m.on[1] \in {"group", "user"} => m.match # "any"

\* What a command is about tells the kinds of commands apart.
LEMMA Kinds ==
    ASSUME NEW u \in Users, NEW w \in Users
    PROVE  /\ Group[1] = "group" /\ Keys[1] = "keys"
           /\ UserOf(u)[1] = "user" /\ PasswordOf(u)[1] = "password"
           /\ UserOf(u)[2] = u /\ PasswordOf(u)[2] = u
           /\ Group # Keys /\ Group # UserOf(u) /\ Group # PasswordOf(u)
           /\ Keys # UserOf(u) /\ Keys # PasswordOf(u)
           /\ UserOf(u) # PasswordOf(w)
  BY DEF Group, Keys, UserOf, PasswordOf

\* The same of a request for the group or its keys.
LEMMA GroupKind == Group[1] = "group" /\ Keys[1] = "keys" /\ Group # Keys
  BY DEF Group, Keys

\* Every command that anyone may use makes sense.
LEMMA CommandsWellFormed == ASSUME NEW m \in AllCommands PROVE WellFormed(m)
<1> USE Kinds, GroupKind DEF WellFormed, Command
<1>1. CASE \E t \in Template : m = CreateGroupCmd(t)
  BY <1>1 DEF CreateGroupCmd, PutJSON
<1>2. CASE \E t \in Template : m = UpdateGroupCmd(t)
  BY <1>2 DEF UpdateGroupCmd, UpdateJSON
<1>3. CASE m = DeleteGroupCmd
  BY <1>3 DEF DeleteGroupCmd, DeleteValue
<1>4. CASE m = DeleteKeysRequest
  BY <1>4 DEF DeleteKeysRequest, DeleteValue
<1>5. CASE m \in {ShowGroupCmd} \cup ListUsersCmd
  <2>1. m = GetJSON(Group) \/ \E u \in Users : m = GetJSON(UserOf(u))
    BY <1>5 DEF ShowGroupCmd, ListUsersCmd
  <2>2. CASE m = GetJSON(Group)
    BY <2>2 DEF GetJSON
  <2>3. CASE \E u \in Users : m = GetJSON(UserOf(u))
    BY <2>3 DEF GetJSON
  <2> QED
    BY <2>1, <2>2, <2>3
<1>6. CASE m = DeleteSeen(Group)
  BY <1>6 DEF DeleteSeen
<1>7. CASE \E u \in Users : m = DeleteSeen(UserOf(u))
  BY <1>7 DEF DeleteSeen
<1>8. CASE \E k \in KeySets : m = SetKeysRequest(k)
  BY <1>8 DEF SetKeysRequest, PutJSON
<1>9. CASE \E u \in Users, p \in Perms : m = CreateUserCmd(u, p)
  BY <1>9 DEF CreateUserCmd, PutJSON
<1>10. CASE \E u \in Users, p \in Perms : m = UpdateUserCmd(u, p)
  BY <1>10 DEF UpdateUserCmd, UpdateJSON
<1>11. CASE \E u \in Users : m = DeleteUserCmd(u)
  BY <1>11 DEF DeleteUserCmd, DeleteValue
<1>12. CASE \E u \in Users, h \in Hashes : m = SetPasswordCmd(u, h)
  BY <1>12 DEF SetPasswordCmd, PutJSON
<1>13. CASE \E u \in Users : m = DeletePasswordCmd(u)
  BY <1>13 DEF DeletePasswordCmd, DeleteValue
<1> QED
  BY <1>1, <1>2, <1>3, <1>4, <1>5, <1>6, <1>7, <1>8, <1>9, <1>10, <1>11,
     <1>12, <1>13
  DEF AllCommands
-----------------------------------------------------------------------------
Requests == [pc : {"get", "get-cached", "put", "put-cached", "commit",
                   "reply", "done", "failed"},
             cmd : Commands \cup {ShowGroupCmd},
             file : Files \cup {NoFile},
             seen : Files \cup {NoFile},
             tag : Tags \cup {NoTag}]

\* A program that makes its second request, which is no GET, was shown
\* something by the first.
Shown == \A a \in Admins :
            req[a].pc \in {"put", "put-cached", "commit"} =>
               /\ req[a].cmd.method # "GET"
               /\ req[a].cmd.match = "seen" => req[a].seen \in Files

\* A handler goes on with the tag that it has checked.
Agreed == \A a \in Admins :
            req[a].pc = "commit" /\ req[a].cmd.on[1] \in {"group", "user"} =>
               /\ req[a].cmd.match = "seen" => req[a].tag = req[a].seen.tag
               /\ req[a].cmd.match = "absent" => req[a].tag = NoTag

\* What somebody has in hand, and the file itself, is not of the future.
Dated(file) == file = NoFile \/ file.tag[2] <= clock

Typed == TypeOK /\ Shown /\ Agreed

IInv == /\ Typed
        /\ \A file \in InHand \cup {disk} : Dated(file)
        /\ TagsFaithful

\* Every command that is being run is well-formed.
LEMMA RunsWellFormed ==
    ASSUME TypeOK, NEW a \in Admins
    PROVE  WellFormed(req[a].cmd)
<1>1. req[a].cmd \in AllCommands
  <2>1. req[a].cmd \in Commands \cup {ShowGroupCmd}
    BY DEF TypeOK
  <2> QED
    BY <2>1, DescriptionsAssumption DEF AllCommands
<1> QED
  BY <1>1, CommandsWellFormed

\* A new file is a file.
LEMMA FileType ==
    ASSUME NEW d \in Doc, NEW date \in Nat
    PROVE  File(d, date) \in Files
  BY DescriptionsAssumption DEF File, Files, Tag, Tags

\* The file contains the given definition.
Rewritten(d) == disk' # NoFile /\ disk'.doc = d

\* rewriteDescriptionFile writes a file that was not there before.
LEMMA RewriteType ==
    ASSUME clock \in Nat, NEW d \in Doc, Rewrite(d)
    PROVE  /\ clock' \in Nat /\ clock' >= clock
           /\ disk' \in Files
           /\ disk'.tag[2] = clock'
           /\ Precise => clock' = clock + 1
           /\ Rewritten(d)
<1>1. clock' \in {clock, clock + 1}
  BY DEF Rewrite
<1>2. disk' \in Files
  BY <1>1, FileType DEF Rewrite
<1>3. disk'.tag = <<Size(d), clock'>> /\ disk'.doc = d
  BY DEF Rewrite, File, Tag
<1>4. Precise => clock' = clock + 1
  BY DEF Rewrite
<1> QED
  BY <1>1, <1>2, <1>3, <1>4, DescriptionsAssumption DEF Rewritten

\* The file is written, or removed.
Written == /\ clock' \in Nat /\ clock' >= clock
           /\ disk' \in Files \cup {NoFile}
           /\ \/ disk' = NoFile
              \/ /\ disk'.tag[2] = clock'
                 /\ Precise => clock' = clock + 1

\* A user's record may be replaced by another one.
LEMMA SetUserType ==
    ASSUME TypeOK, disk \in Files, NEW u \in Users,
           NEW new \in User \cup {NoUser}, SetUser(u, new)
    PROVE  Written /\ Rewritten([disk.doc EXCEPT !.users[u] = new])
<1>1. [disk.doc EXCEPT !.users[u] = new] \in Doc
  BY DEF Files, Doc
<1>2. clock \in Nat
  BY DEF TypeOK
<1> QED
  BY <1>1, <1>2, RewriteType DEF SetUser, Written

\* A user that is defined has a record.
LEMMA DefinedType ==
    ASSUME TypeOK, disk \in Files, NEW u \in Users, Defined(disk, u)
    PROVE  disk.doc.users[u] \in User
<1>1. disk.doc.users \in [Users -> User \cup {NoUser}]
  BY DEF Files, Doc
<1> QED
  BY <1>1 DEF Defined

\* The definition that a PUT of a group asks for.
LEMMA BodyType ==
    ASSUME Typed, NEW a \in Admins, req[a].pc = "commit",
           req[a].cmd.method = "PUT", req[a].cmd.on = Group
    PROVE  Body(a) \in [Fields -> Values]
<1>1. WellFormed(req[a].cmd)
  BY RunsWellFormed DEF Typed
<1>2. PICK F \in SUBSET Fields : req[a].cmd.set \in [F -> Values]
  BY <1>1 DEF WellFormed, Template
<1>3. Default \in Values
  BY GalenectlAssumption
<1>4. ASSUME req[a].cmd.match = "seen" PROVE req[a].seen \in Files
  BY <1>4 DEF Typed, Shown
<1>5. ASSUME req[a].cmd.match = "seen"
      PROVE req[a].seen.doc.general \in [Fields -> Values]
  BY <1>4, <1>5 DEF Files, Doc
<1>6. ASSUME NEW f \in Fields, f \in DOMAIN req[a].cmd.set
      PROVE  req[a].cmd.set[f] \in Values
  BY <1>2, <1>6
<1> QED
  BY <1>3, <1>5, <1>6 DEF Body

\* Whatever a request is about, the file is written as it should be.
LEMMA WriteType ==
    ASSUME Typed, NEW a \in Admins, req[a].pc = "commit", Write(a)
    PROVE  Written
<1> DEFINE m == req[a].cmd
<1>1. WellFormed(m)
  BY RunsWellFormed DEF Typed
<1>2. /\ TypeOK /\ clock \in Nat
      /\ disk \in Files \cup {NoFile}
  BY DEF Typed, TypeOK
<1>3. CASE m.on = Group
  <2>1. m.on[1] = "group"
    BY <1>3, GroupKind
  <2>2. CASE m.method = "PUT"
    <3>1. UpdateDescription(a)
      BY <2>1, <2>2 DEF Write
    <3>2. Body(a) \in [Fields -> Values]
      BY <1>3, <2>2, BodyType
    <3> DEFINE users == IF disk = NoFile THEN [u \in Users |-> NoUser]
                        ELSE disk.doc.users
               keys == IF disk = NoFile THEN NoKeys ELSE disk.doc.keys
               d == [general |-> Body(a), users |-> users, keys |-> keys]
    <3>3. users \in [Users -> User \cup {NoUser}] /\ keys \in KeySets \cup {NoKeys}
      BY <1>2 DEF Files, Doc
    <3>4. d \in Doc
      BY <3>2, <3>3 DEF Doc
    <3>5. Rewrite(d)
      BY <3>1 DEF UpdateDescription
    <3> QED
      BY <1>2, <3>4, <3>5, RewriteType DEF Written
  <2>3. CASE m.method # "PUT"
    <3>1. DeleteDescription(a)
      BY <2>1, <2>3 DEF Write
    <3> QED
      BY <1>2, <3>1 DEF DeleteDescription, Written
  <2> QED
    BY <2>2, <2>3
<1>4. ASSUME NEW u \in Users, m.on = UserOf(u) PROVE Written
  <2>1. m.on[1] = "user" /\ m.on[2] = u
    BY <1>4, Kinds
  <2>2. CASE m.method = "PUT"
    <3>1. UpdateUser(a, u)
      BY <2>1, <2>2 DEF Write
    <3>2. m.set \in Perms
      BY <1>1, <1>4, <2>2 DEF WellFormed
    <3>3. disk \in Files
      BY <1>2, <3>1 DEF UpdateUser
    <3> DEFINE new == [perm |-> m.set,
                       password |-> IF Defined(disk, u)
                                    THEN disk.doc.users[u].password
                                    ELSE NoPassword]
    <3>4. new \in User
      BY <1>2, <3>2, <3>3, DefinedType DEF User
    <3>5. SetUser(u, new)
      BY <3>1 DEF UpdateUser
    <3> QED
      BY <1>2, <3>3, <3>4, <3>5, SetUserType
  <2>3. CASE m.method # "PUT"
    <3>1. DeleteUser(a, u)
      BY <2>1, <2>3 DEF Write
    <3>2. disk \in Files /\ SetUser(u, NoUser)
      BY <1>2, <3>1 DEF DeleteUser, Defined
    <3> QED
      BY <1>2, <3>2, SetUserType
  <2> QED
    BY <2>2, <2>3
<1>5. ASSUME NEW u \in Users, m.on = PasswordOf(u) PROVE Written
  <2>1. m.on[1] = "password" /\ m.on[2] = u
    BY <1>5, Kinds
  <2> DEFINE password == IF m.method = "PUT" THEN m.set ELSE NoPassword
  <2>2. SetUserPassword(u, password)
    BY <2>1 DEF Write
  <2>3. password \in Hashes \cup {NoPassword}
    BY <1>1, <1>5 DEF WellFormed
  <2>4. disk \in Files
    BY <1>2, <2>2 DEF SetUserPassword, Defined
  <2> DEFINE new == [disk.doc.users[u] EXCEPT !.password = password]
  <2>5. disk.doc.users[u] \in User
    BY <1>2, <2>2, <2>4, DefinedType DEF SetUserPassword
  <2>6. new \in User
    BY <2>3, <2>5 DEF User
  <2>7. SetUser(u, new)
    BY <2>2 DEF SetUserPassword
  <2> QED
    BY <1>2, <2>4, <2>6, <2>7, SetUserType
<1>6. CASE m.on = Keys
  <2>1. m.on[1] = "keys"
    BY <1>6, GroupKind
  <2> DEFINE keys == IF m.method = "PUT" THEN m.set ELSE NoKeys
  <2>2. SetKeys(keys)
    BY <2>1 DEF Write
  <2>3. keys \in KeySets \cup {NoKeys}
    BY <1>1, <1>6 DEF WellFormed
  <2>4. disk \in Files /\ Rewrite([disk.doc EXCEPT !.keys = keys])
    BY <1>2, <2>2 DEF SetKeys
  <2>5. [disk.doc EXCEPT !.keys = keys] \in Doc
    BY <2>3, <2>4 DEF Files, Doc
  <2> QED
    BY <1>2, <2>4, <2>5, RewriteType DEF Written
<1> QED
  BY <1>1, <1>3, <1>4, <1>5, <1>6 DEF WellFormed
-----------------------------------------------------------------------------
\* The requests after a step in which only that of a has moved, and nothing
\* came into anybody's hands but the given file.
Moved(a, file) ==
    /\ req' \in [Admins -> Requests]
    /\ Shown' /\ Agreed'
    /\ \A b \in Admins : /\ req'[b].file \in {req[b].file, file, NoFile}
                         /\ req'[b].seen \in {req[b].seen, file, NoFile}
                         /\ req'[b].cmd = req[b].cmd
                         /\ b # a => req'[b].pc = req[b].pc
    /\ req'[a].pc = "done" =>
          req[a].pc = "reply" \/ req[a].cmd.method = "GET"
    /\ req'[a].pc = "reply" => req[a].pc = "commit"

\* Then nothing comes into anybody's hands but what the program has, and the file.
LEMMA Hands ==
    ASSUME NEW a \in Admins, NEW file, Moved(a, file)
    PROVE  InHand' \subseteq {cache', held', file, NoFile} \cup InHand
<1>1. ASSUME NEW x \in InHand'
      PROVE  x \in {cache', held', file, NoFile} \cup InHand
  <2>1. \/ x \in {cache', held'}
        \/ \E b \in Admins : x = req'[b].file \/ x = req'[b].seen
    BY DEF InHand
  <2>2. ASSUME NEW b \in Admins PROVE req[b].file \in InHand /\ req[b].seen \in InHand
    BY DEF InHand
  <2> QED
    BY <2>1, <2>2 DEF Moved
<1> QED
  BY <1>1

\* A request that moves to another place, without getting anything.
LEMMA GotoMoves ==
    ASSUME Typed, NEW a \in Admins,
           NEW pc \in {"commit", "reply", "done", "failed"},
           Goto(a, pc),
           pc = "commit" => /\ req[a].pc = "put"
                            /\ req[a].cmd.on[1] \notin {"group", "user"},
           pc = "reply" => req[a].pc = "commit",
           pc = "done" => req[a].pc = "reply"
    PROVE  Moved(a, NoFile)
<1>1. req \in [Admins -> Requests]
  BY DEF Typed, TypeOK, Requests
<1>2. req' = [req EXCEPT ![a].pc = pc]
  BY DEF Goto
<1>3. req' \in [Admins -> Requests]
  BY <1>1, <1>2 DEF Requests
<1>4. ASSUME NEW b \in Admins
      PROVE  /\ req'[b].cmd = req[b].cmd /\ req'[b].file = req[b].file
             /\ req'[b].seen = req[b].seen /\ req'[b].tag = req[b].tag
             /\ req'[b].pc = IF b = a THEN pc ELSE req[b].pc
  BY <1>1, <1>2 DEF Requests
<1>5. Shown' /\ Agreed'
  BY <1>4 DEF Typed, Shown, Agreed
<1> QED
  BY <1>3, <1>4, <1>5 DEF Moved

\* The handler's check of the precondition.
LEMMA CheckMoves ==
    ASSUME Typed, NEW a \in Admins, NEW tag \in Tags \cup {NoTag},
           Check(a, tag), req[a].pc \in {"put", "put-cached"}
    PROVE  Moved(a, NoFile)
<1>1. req \in [Admins -> Requests]
  BY DEF Typed, TypeOK, Requests
<1> DEFINE pc == IF Precondition(a, tag) THEN "commit" ELSE "failed"
<1>2. /\ req' = [req EXCEPT ![a].pc = pc, ![a].tag = tag, ![a].file = NoFile]
      /\ pc \in {"commit", "failed"}
  BY DEF Check
<1>3. pc = "commit" =>
         /\ req[a].cmd.match = "seen" => tag = req[a].seen.tag
         /\ req[a].cmd.match = "absent" => tag = NoTag
  BY DEF Precondition, ETagMatch
<1> HIDE DEF pc
<1>4. req' \in [Admins -> Requests]
  <2>1. req[a] \in Requests
    BY <1>1
  <2> DEFINE r == [req[a] EXCEPT !.pc = pc, !.tag = tag, !.file = NoFile]
  <2>2. r \in Requests
    BY <1>2, <2>1 DEF Requests
  <2>3. req' = [req EXCEPT ![a] = r]
    BY <1>1, <1>2, <2>1 DEF Requests
  <2> HIDE DEF r
  <2> QED
    BY <1>1, <2>2, <2>3
<1>5. ASSUME NEW b \in Admins
      PROVE  /\ req'[b].cmd = req[b].cmd /\ req'[b].seen = req[b].seen
             /\ req'[b].file \in {req[b].file, NoFile}
             /\ req'[b].pc = IF b = a THEN pc ELSE req[b].pc
             /\ req'[b].tag = IF b = a THEN tag ELSE req[b].tag
  BY <1>1, <1>2 DEF Requests
<1>6. Shown'
  BY <1>5 DEF Typed, Shown
<1>7. Agreed'
  <2>1. ASSUME NEW b \in Admins, req'[b].pc = "commit",
               req'[b].cmd.on[1] \in {"group", "user"}
        PROVE  /\ req'[b].cmd.match = "seen" => req'[b].tag = req'[b].seen.tag
               /\ req'[b].cmd.match = "absent" => req'[b].tag = NoTag
    <3>1. CASE b = a
      BY <1>5, <1>3, <2>1, <3>1
    <3>2. CASE b # a
      BY <1>5, <2>1, <3>2 DEF Typed, Agreed
    <3> QED
      BY <3>1, <3>2
  <2> QED
    BY <2>1 DEF Agreed
<1> QED
  BY <1>2, <1>4, <1>5, <1>6, <1>7 DEF Moved

\* The answer to a GET, and what the program does with it.
LEMMA ReplyMoves ==
    ASSUME Typed, NEW a \in Admins, NEW file \in Files \cup {NoFile},
           Reply(a, file)
    PROVE  Moved(a, file)
<1>1. req \in [Admins -> Requests]
  BY DEF Typed, TypeOK, Requests
<1> DEFINE m == req[a].cmd
           pc == CASE Missing(file, m.on) -> "failed"
                   [] m.method = "GET" -> "done"
                   [] OTHER -> "put"
           seen == IF Missing(file, m.on) \/ m.method = "GET" THEN NoFile
                   ELSE file
<1>2. req' = [req EXCEPT ![a].pc = pc, ![a].seen = seen, ![a].file = NoFile]
  BY DEF Reply
<1>3. /\ pc \in {"failed", "done", "put"}
      /\ pc = "done" => m.method = "GET"
      /\ seen \in {file, NoFile}
  OBVIOUS
<1>4. pc = "put" => seen \in Files /\ m.method # "GET"
  BY DEF Missing
<1> HIDE DEF pc, seen
<1>5. req' \in [Admins -> Requests]
  <2>1. req[a] \in Requests
    BY <1>1
  <2> DEFINE r == [req[a] EXCEPT !.pc = pc, !.seen = seen, !.file = NoFile]
  <2>2. r \in Requests
    BY <1>3, <2>1 DEF Requests
  <2>3. req' = [req EXCEPT ![a] = r]
    BY <1>1, <1>2, <2>1 DEF Requests
  <2> HIDE DEF r
  <2> QED
    BY <1>1, <2>2, <2>3
<1>6. ASSUME NEW b \in Admins
      PROVE  /\ req'[b].cmd = req[b].cmd
             /\ req'[b].seen = (IF b = a THEN seen ELSE req[b].seen)
             /\ req'[b].file \in {req[b].file, NoFile}
             /\ req'[b].pc = (IF b = a THEN pc ELSE req[b].pc)
             /\ req'[b].tag = req[b].tag
  BY <1>1, <1>2 DEF Requests
<1>7. Shown' /\ Agreed'
  BY <1>3, <1>4, <1>6 DEF Typed, Shown, Agreed
<1> QED
  BY <1>3, <1>5, <1>6, <1>7 DEF Moved

\* userHandler, with a description in hand.
LEMMA UserTagMoves ==
    ASSUME Typed, NEW a \in Admins, NEW file \in Files \cup {NoFile},
           UserTag(a, file), req[a].pc \in {"put", "put-cached"}
    PROVE  Moved(a, NoFile)
<1> DEFINE m == req[a].cmd
<1>1. CASE ~Missing(file, m.on)
  <2>1. file.tag \in Tags
    BY <1>1 DEF Missing, Files
  <2> QED
    BY <1>1, <2>1, CheckMoves DEF UserTag
<1>2. CASE Missing(file, m.on) /\ m.method = "PUT"
  BY <1>2, CheckMoves DEF UserTag
<1>3. CASE Missing(file, m.on) /\ m.method # "PUT"
  <2>1. req \in [Admins -> Requests]
    BY DEF Typed, TypeOK, Requests
  <2>2. req' = [req EXCEPT ![a] = [@ EXCEPT !.pc = "failed", !.file = NoFile]]
    BY <1>3, <2>1 DEF UserTag, Requests
  <2>3. req' \in [Admins -> Requests]
    BY <2>1, <2>2 DEF Requests
  <2>4. ASSUME NEW b \in Admins
        PROVE  /\ req'[b].cmd = req[b].cmd /\ req'[b].seen = req[b].seen
               /\ req'[b].file \in {req[b].file, NoFile}
               /\ req'[b].pc = (IF b = a THEN "failed" ELSE req[b].pc)
               /\ req'[b].tag = req[b].tag
    BY <2>1, <2>2 DEF Requests
  <2>5. Shown' /\ Agreed'
    BY <2>4 DEF Typed, Shown, Agreed
  <2> QED
    BY <2>3, <2>4, <2>5 DEF Moved
<1> QED
  BY <1>1, <1>2, <1>3

\* GetDescription returns.
LEMMA DeliverMoves ==
    ASSUME Typed, NEW a \in Admins, NEW file \in Files \cup {NoFile},
           Deliver(a, file),
           req[a].pc \in {"get", "get-cached", "put", "put-cached"}
    PROVE  Moved(a, file)
<1>1. CASE req[a].pc \in {"get", "get-cached"}
  BY <1>1, ReplyMoves DEF Deliver
<1>2. CASE req[a].pc \in {"put", "put-cached"}
  BY <1>2, UserTagMoves DEF Deliver, Moved
<1> QED
  BY <1>1, <1>2
-----------------------------------------------------------------------------
\* What every step does: nothing comes into anybody's hands that was not in
\* somebody's, or in the file, and the file changes only when it is written.
Harmless == /\ Typed'
            /\ InHand' \subseteq InHand \cup {disk, NoFile}
            /\ (disk' = disk /\ clock' = clock) \/ Written

\* A step of a request that changes nothing else.
LEMMA RequestStep ==
    ASSUME Typed, NEW a \in Admins, NEW file \in {cache, disk, NoFile, req[a].file},
           Moved(a, file),
           UNCHANGED <<cache, held, budget>>,
           (disk' = disk /\ clock' = clock) \/ Written
    PROVE  Harmless
<1>1. TypeOK'
  BY DEF Typed, TypeOK, Moved, Requests, Written
<1>2. Shown' /\ Agreed'
  BY DEF Moved
<1>3. InHand' \subseteq {cache, held, file, NoFile} \cup InHand
  BY Hands
<1>4. {cache, held, req[a].file} \subseteq InHand
  BY DEF InHand
<1> QED
  BY <1>1, <1>2, <1>3, <1>4 DEF Harmless, Typed

\* A step that leaves requests, file and date alone.
LEMMA MemoryStep ==
    ASSUME Typed, UNCHANGED <<disk, clock, req, budget>>,
           cache' \in {cache, disk, held, NoFile},
           held' \in {cache, disk, held, NoFile}
    PROVE  Harmless
<1>1. Typed'
  BY DEF Typed, TypeOK, Shown, Agreed
<1>2. InHand' \subseteq InHand \cup {disk, NoFile}
  BY DEF InHand
<1> QED
  BY <1>1, <1>2 DEF Harmless

\* A new command begins with nothing in hand.
LEMMA StartStep ==
    ASSUME Typed, NEW a \in Admins, Start(a)
    PROVE  Harmless
<1>1. PICK m \in Commands :
          req' = [req EXCEPT ![a] =
                     [Idle EXCEPT !.cmd = m,
                                  !.pc = IF m.reads THEN "get" ELSE "put"]]
  BY DEF Start
<1> DEFINE pc == IF m.reads THEN "get" ELSE "put"
           r == [Idle EXCEPT !.cmd = m, !.pc = pc]
<1>2. req' = [req EXCEPT ![a] = r]
  BY <1>1
<1>3. r \in Requests
  <2>1. Idle \in Requests
    BY DEF Idle, Requests
  <2> QED
    BY <2>1 DEF Requests
<1>4. req \in [Admins -> Requests]
  BY DEF Typed, TypeOK, Requests
<1>5. m.match = "seen" \/ m.method = "GET" => r.pc = "get"
  <2>1. m \in AllCommands
    BY DescriptionsAssumption
  <2> QED
    BY <2>1, CommandsWellFormed DEF WellFormed, Idle
<1>6. /\ r.cmd = m /\ r.file = NoFile /\ r.seen = NoFile
  BY DEF Idle
<1>7. r.pc \in {"get", "put"}
  BY DEF Idle
<1> HIDE DEF r
<1>8. req' \in [Admins -> Requests]
  BY <1>2, <1>3, <1>4
<1>9. ASSUME NEW b \in Admins PROVE req'[b] = IF b = a THEN r ELSE req[b]
  BY <1>2, <1>4
<1>10. Shown' /\ Agreed'
  BY <1>5, <1>6, <1>9, <1>7 DEF Typed, Shown, Agreed
<1>11. budget' \in 0..MaxBudget
  BY DescriptionsAssumption DEF Start, Typed, TypeOK
<1>12. TypeOK'
  BY <1>8, <1>11 DEF Start, Typed, TypeOK, Requests
<1>13. InHand' \subseteq InHand \cup {disk, NoFile}
  BY <1>6, <1>9, ZenonT(30) DEF InHand, Start
<1> QED
  BY <1>10, <1>12, <1>13 DEF Harmless, Typed, Start

\* A restart empties the hands of those who wait.
LEMMA RestartStep == ASSUME Typed, Restart PROVE Harmless
<1>1. req \in [Admins -> Requests]
  BY DEF Typed, TypeOK, Requests
<1> DEFINE gone(a) == [req[a] EXCEPT !.pc = "failed", !.file = NoFile]
<1>2. ASSUME NEW a \in Admins
      PROVE  /\ req'[a] \in Requests
             /\ req'[a].cmd = req[a].cmd /\ req'[a].seen = req[a].seen
             /\ req'[a].file \in {req[a].file, NoFile}
             /\ req'[a].pc \in {"done", "failed"}
  <2>1. req[a] \in Requests
    BY <1>1
  <2>2. req'[a] = IF req[a].pc \in {"done", "failed"} THEN req[a] ELSE gone(a)
    BY DEF Restart
  <2> QED
    BY <2>1, <2>2 DEF Requests
<1>3. req' \in [Admins -> Requests]
  BY <1>2 DEF Restart
<1>4. Shown' /\ Agreed'
  BY <1>2 DEF Shown, Agreed
<1>5. TypeOK'
  BY <1>3 DEF Restart, Typed, TypeOK, Requests
<1>6. ASSUME NEW x \in InHand' PROVE x \in InHand \cup {NoFile}
  <2>1. \/ x \in {cache', held'}
        \/ \E b \in Admins : x = req'[b].file \/ x = req'[b].seen
    BY DEF InHand
  <2>2. ASSUME NEW b \in Admins
        PROVE  req[b].file \in InHand /\ req[b].seen \in InHand
    BY DEF InHand
  <2>3. cache' = NoFile /\ held' = NoFile
    BY DEF Restart
  <2> QED
    BY <1>2, <2>1, <2>2, <2>3
<1> QED
  BY <1>4, <1>5, <1>6 DEF Harmless, Typed, Restart

\* What an administrator's request does to the requests, in each of its steps.
LEMMA RequestMoves ==
    ASSUME Typed, NEW a \in Admins,
           \/ CacheHit(a) \/ CacheRead(a) \/ ReadDisk(a) \/ StatTag(a)
           \/ NoTagNeeded(a) \/ Commit(a) \/ Answer(a) \/ Error(a)
    PROVE  \E file \in {cache, disk, NoFile, req[a].file} : Moved(a, file)
<1> USE DEF Typed
<1>1. /\ cache \in Files \cup {NoFile} /\ disk \in Files \cup {NoFile}
      /\ \A b \in Admins : req[b].file \in Files \cup {NoFile}
  BY DEF TypeOK
<1>2. CASE CacheHit(a)
  <2>1. req \in [Admins -> Requests]
    BY DEF TypeOK, Requests
  <2>2. req[a] \in Requests
    BY <2>1
  <2> DEFINE pc == IF req[a].pc = "get" THEN "get-cached" ELSE "put-cached"
             r == [req[a] EXCEPT !.pc = pc, !.file = cache]
  <2>3. req' = [req EXCEPT ![a] = r]
    BY <1>2, <2>1, <2>2 DEF CacheHit, Requests
  <2>4. r \in Requests
    BY <1>1, <2>2 DEF Requests
  <2>5. /\ r.cmd = req[a].cmd /\ r.seen = req[a].seen /\ r.file = cache
        /\ r.pc = pc
    BY <2>2 DEF Requests
  <2>6. pc = "put-cached" => req[a].pc = "put"
    BY <1>2 DEF CacheHit, UsesDescription
  <2>7. pc \in {"get-cached", "put-cached"}
    OBVIOUS
  <2> HIDE DEF r, pc
  <2>8. req' \in [Admins -> Requests]
    BY <2>1, <2>3, <2>4
  <2>9. ASSUME NEW b \in Admins PROVE req'[b] = IF b = a THEN r ELSE req[b]
    BY <2>1, <2>3
  <2>10. Shown' /\ Agreed'
    BY <2>5, <2>6, <2>7, <2>9 DEF Shown, Agreed
  <2>11. Moved(a, cache)
    BY <2>5, <2>7, <2>8, <2>9, <2>10 DEF Moved
  <2> QED
    BY <2>11
<1>3. CASE CacheRead(a)
  <2>1. PICK file \in {req[a].file, cache} \ {NoFile} : Deliver(a, file)
    BY <1>3 DEF CacheRead
  <2>2. Moved(a, file)
    BY <1>1, <1>3, <2>1, DeliverMoves DEF CacheRead
  <2> QED
    BY <2>1, <2>2
<1>4. CASE ReadDisk(a)
  BY <1>1, <1>4, DeliverMoves DEF ReadDisk, UsesDescription
<1>5. CASE StatTag(a)
  <2>1. TagOf(disk) \in Tags \cup {NoTag}
    BY <1>1 DEF TagOf, Files
  <2> QED
    BY <1>5, <2>1, GotoMoves, CheckMoves DEF StatTag
<1>6. CASE NoTagNeeded(a)
  BY <1>6, GotoMoves DEF NoTagNeeded
<1>7. CASE Commit(a)
  BY <1>7, GotoMoves DEF Commit
<1>8. CASE Answer(a)
  BY <1>8, GotoMoves DEF Answer
<1>9. CASE Error(a)
  BY <1>9, GotoMoves DEF Error
<1> QED
  BY <1>2, <1>3, <1>4, <1>5, <1>6, <1>7, <1>8, <1>9

\* Every step is harmless.
LEMMA EveryStep == ASSUME Typed, [Next]_vars PROVE Harmless
<1>1. ASSUME NEW a \in Admins, Start(a) PROVE Harmless
  BY <1>1, StartStep
<1>2. ASSUME NEW a \in Admins,
             \/ CacheHit(a) \/ CacheRead(a) \/ ReadDisk(a) \/ StatTag(a)
             \/ NoTagNeeded(a) \/ Answer(a) \/ Error(a)
      PROVE  Harmless
  <2>1. PICK file \in {cache, disk, NoFile, req[a].file} : Moved(a, file)
    BY <1>2, RequestMoves
  <2>2. UNCHANGED <<disk, cache, held, clock, budget>>
    BY <1>2 DEF CacheHit, CacheRead, ReadDisk, StatTag, NoTagNeeded, Answer, Error
  <2> QED
    BY <2>1, <2>2, RequestStep
<1>3. ASSUME NEW a \in Admins, Commit(a) PROVE Harmless
  <2>1. PICK file \in {cache, disk, NoFile, req[a].file} : Moved(a, file)
    BY <1>3, RequestMoves
  <2>2. Written /\ UNCHANGED <<cache, held, budget>>
    BY <1>3, WriteType DEF Commit
  <2> QED
    BY <2>1, <2>2, RequestStep
<1>4. CASE Refresh
  BY <1>4, MemoryStep DEF Refresh
<1>5. CASE Forget
  BY <1>5, MemoryStep DEF Forget
<1>6. CASE UpdateReads
  BY <1>6, MemoryStep DEF UpdateReads
<1>7. CASE UpdateAdds
  BY <1>7, MemoryStep DEF UpdateAdds
<1>8. CASE Restart
  BY <1>8, RestartStep
<1>9. CASE UNCHANGED vars
  BY <1>9, MemoryStep DEF vars
<1> QED
  BY <1>1, <1>2, <1>3, <1>4, <1>5, <1>6, <1>7, <1>8, <1>9 DEF Next

\* At the beginning nobody has anything in hand.
LEMMA Initially == Init => IInv
<1> SUFFICES ASSUME Init PROVE IInv
  OBVIOUS
<1>1. disk \in Files \cup {NoFile} /\ (disk = NoFile \/ disk.tag[2] = 0)
  <2>1. ASSUME NEW d \in InitialDocs
        PROVE  File(d, 0) \in Files /\ File(d, 0).tag[2] = 0
    BY FileType, DescriptionsAssumption DEF File, Tag
  <2> QED
    BY <2>1 DEF Init
<1>2. Idle \in Requests /\ Idle.file = NoFile /\ Idle.seen = NoFile /\ Idle.pc = "done"
  BY DEF Idle, Requests
<1>3. \A a \in Admins : req[a] = Idle
  BY DEF Init
<1>4. TypeOK
  BY <1>1, <1>2, DescriptionsAssumption DEF Init, TypeOK, Requests
<1>5. Shown /\ Agreed
  BY <1>2, <1>3 DEF Shown, Agreed
<1>6. InHand \subseteq {NoFile}
  BY <1>2, <1>3 DEF InHand, Init
<1> QED
  BY <1>1, <1>4, <1>5, <1>6 DEF IInv, Typed, Dated, TagsFaithful, Init

\* The variables have their types, whatever the dates are: in particular the
\* group's file always contains a definition, and a program that updates what
\* it was shown was shown something.
THEOREM TypeCorrect == Spec => []TypeOK
<1>1. Init => Typed
  BY Initially DEF IInv
<1>2. Typed /\ [Next]_vars => Typed'
  BY EveryStep DEF Harmless
<1> QED
  BY <1>1, <1>2, PTL DEF Spec, Typed

\* What is written has a date that is later than that of everything anybody
\* has in hand, which came from the file.
LEMMA FaithfulStep ==
    ASSUME Precise, IInv, [Next]_vars
    PROVE  IInv'
<1>1. Harmless
  BY EveryStep DEF IInv
<1>2. clock \in Nat /\ disk \in Files \cup {NoFile}
  BY DEF IInv, Typed, TypeOK
<1>3. \A file \in InHand \cup {disk} : Dated(file)
  BY DEF IInv
<1>4. CASE disk' = disk /\ clock' = clock
  <2>1. \A file \in InHand' \cup {disk'} : Dated(file)'
    BY <1>1, <1>3, <1>4 DEF Harmless, Dated
  <2>2. TagsFaithful'
    BY <1>1, <1>4 DEF Harmless, IInv, TagsFaithful
  <2> QED
    BY <1>1, <2>1, <2>2 DEF Harmless, IInv
<1>5. CASE Written
  <2>1. ASSUME NEW file \in InHand', file # NoFile
        PROVE  file.tag[2] \in Nat /\ file.tag[2] <= clock
    <3>1. file \in InHand \cup {disk}
      BY <1>1, <2>1 DEF Harmless
    <3>2. file \in Files
      BY <2>1, <3>1 DEF IInv, Typed, TypeOK, InHand
    <3>3. file.tag[2] \in Nat
      BY <3>2 DEF Files, Tags
    <3> QED
      BY <1>3, <2>1, <3>1, <3>3 DEF Dated
  <2>2. \A file \in InHand' \cup {disk'} : Dated(file)'
    BY <1>2, <1>5, <2>1 DEF Written, Dated
  <2>3. TagsFaithful'
    <3>1. ASSUME disk' # NoFile PROVE disk'.tag[2] = clock + 1
      BY <1>5, <3>1 DEF Written
    <3>2. ASSUME NEW file \in InHand', file # NoFile, disk' # NoFile
          PROVE  file.tag # disk'.tag
      BY <1>2, <2>1, <3>1, <3>2
    <3> QED
      BY <3>2 DEF TagsFaithful
  <2> QED
    BY <1>1, <2>2, <2>3 DEF Harmless, IInv
<1> QED
  BY <1>1, <1>4, <1>5 DEF Harmless

\* A tag stands for the content, for every number of administrators, commands,
\* restarts and updates of the group in memory.
THEOREM TagsAreFaithful ==
    ASSUME Precise
    PROVE  Spec => []TagsFaithful
<1>1. IInv /\ [Next]_vars => IInv'
  BY FaithfulStep
<1> QED
  BY <1>1, Initially, PTL DEF Spec, IInv
-----------------------------------------------------------------------------
\* What the register sees of the state.
DocBar == IF disk = NoFile THEN NoDoc ELSE disk.doc

RunningBar == [a \in Admins |-> req[a].cmd]

StatusBar == [a \in Admins |->
                IF req[a].pc \in {"done", "failed"} THEN req[a].pc
                ELSE IF req[a].pc = "reply" THEN "applied"
                ELSE "running"]

\* A program that writes what it was shown writes what is still there.
LEMMA StillThere ==
    ASSUME IInv, NEW a \in Admins, req[a].pc = "commit",
           req[a].cmd.on[1] \in {"group", "user"}, req[a].cmd.match = "seen",
           disk # NoFile, req[a].tag = disk.tag
    PROVE  disk = req[a].seen
<1>1. req[a].tag = req[a].seen.tag /\ req[a].seen \in Files
  BY DEF IInv, Typed, Shown, Agreed
<1>2. req[a].seen # NoFile
  BY <1>1, DescriptionsAssumption
<1>3. req[a].seen \in InHand
  BY DEF InHand
<1> QED
  BY <1>1, <1>2, <1>3 DEF IInv, TagsFaithful

\* The tag of a file is not the empty tag.
LEMMA FileTag ==
    ASSUME Typed, disk # NoFile
    PROVE  disk \in Files /\ disk.doc \in Doc /\ disk.tag # NoTag
           /\ TagOf(disk) = disk.tag
<1>1. disk \in Files
  BY DEF Typed, TypeOK
<1>2. disk.tag \in Tags /\ disk.doc \in Doc
  BY <1>1 DEF Files
<1> QED
  BY <1>1, <1>2, DescriptionsAssumption DEF TagOf

\* The definition that a PUT of a group writes is the one that the register
\* makes, of nothing or of the definition that it has.
LEMMA GroupPut ==
    ASSUME IInv, NEW a \in Admins, req[a].pc = "commit",
           req[a].cmd.on = Group, req[a].cmd.method = "PUT",
           UpdateDescription(a)
    PROVE  Atomic!Effect(req[a].cmd)
<1> DEFINE m == req[a].cmd
           users == IF disk = NoFile THEN [u \in Users |-> NoUser]
                    ELSE disk.doc.users
           keys == IF disk = NoFile THEN NoKeys ELSE disk.doc.keys
           d == [general |-> Body(a), users |-> users, keys |-> keys]
<1>1. /\ Typed /\ TypeOK /\ clock \in Nat /\ WellFormed(m)
      /\ disk \in Files \cup {NoFile}
  BY RunsWellFormed DEF IInv, Typed, TypeOK
<1>2. d \in Doc
  <2>1. Body(a) \in [Fields -> Values]
    BY <1>1, BodyType
  <2>2. users \in [Users -> User \cup {NoUser}] /\ keys \in KeySets \cup {NoKeys}
    BY <1>1 DEF Files, Doc
  <2> QED
    BY <2>1, <2>2 DEF Doc
<1>3. Rewrite(d) /\ req[a].tag = TagOf(disk)
  BY DEF UpdateDescription
<1>4. disk' # NoFile /\ disk'.doc = d
  BY <1>1, <1>2, <1>3, RewriteType DEF Rewritten
<1>5. m.on[1] = "group"
  BY GroupKind
<1>6. m.match \in {"seen", "absent"}
  BY <1>1, <1>5 DEF WellFormed
<1>7. CASE m.match = "absent"
  <2>1. disk = NoFile
    BY <1>1, <1>3, <1>5, <1>7, FileTag DEF IInv, Typed, Agreed
  <2>2. Body(a) = [f \in Fields |-> IF f \in DOMAIN m.set THEN m.set[f] ELSE Default]
    BY <1>7 DEF Body
  <2>3. Atomic!Create(m.set)
    BY <1>4, <2>1, <2>2 DEF Atomic!Create
  <2> QED
    BY <1>7, <2>3 DEF Atomic!Effect, Atomic!Group, Group
<1>8. CASE m.match = "seen"
  <2>1. req[a].seen \in Files /\ req[a].tag = req[a].seen.tag
    BY <1>5, <1>8 DEF IInv, Typed, Shown, Agreed
  <2>2. disk # NoFile
    BY <1>3, <2>1, DescriptionsAssumption DEF TagOf, Files
  <2>3. disk = req[a].seen
    BY <1>1, <1>3, <1>5, <1>8, <2>2, FileTag, StillThere
  <2>4. Body(a) = [f \in Fields |-> IF f \in DOMAIN m.set THEN m.set[f]
                                    ELSE disk.doc.general[f]]
    <3>1. Body(a) = [f \in Fields |-> IF f \in DOMAIN m.set THEN m.set[f]
                                      ELSE req[a].seen.doc.general[f]]
      BY <1>8 DEF Body
    <3> QED
      BY <2>3, <3>1
  <2>5. disk.doc \in Doc /\ disk.doc # NoDoc
    BY <1>1, <2>2, FileTag, DescriptionsAssumption
  <2>6. d = [disk.doc EXCEPT !.general =
                [f \in Fields |-> IF f \in DOMAIN m.set THEN m.set[f] ELSE @[f]]]
    BY <2>2, <2>4, <2>5 DEF Doc
  <2>7. Atomic!Change(m.set)
    BY <1>4, <2>2, <2>5, <2>6 DEF Atomic!Change
  <2> QED
    BY <1>8, <2>7 DEF Atomic!Effect, Atomic!Group, Group
<1> QED
  BY <1>6, <1>7, <1>8

\* So does every other change of the file.
LEMMA UserPut ==
    ASSUME IInv, NEW a \in Admins, NEW u \in Users, req[a].pc = "commit",
           req[a].cmd.on = UserOf(u), req[a].cmd.method = "PUT",
           UpdateUser(a, u)
    PROVE  Atomic!Effect(req[a].cmd)
<1> DEFINE m == req[a].cmd
           new == [perm |-> m.set,
                   password |-> IF Defined(disk, u)
                                THEN disk.doc.users[u].password
                                ELSE NoPassword]
<1>1. /\ Typed /\ TypeOK /\ WellFormed(m) /\ m.on[1] = "user"
      /\ disk # NoFile /\ SetUser(u, new)
  BY RunsWellFormed, Kinds DEF IInv, Typed, UpdateUser
<1>2. disk \in Files /\ disk.doc \in Doc /\ disk.doc # NoDoc /\ disk.tag # NoTag
  BY <1>1, FileTag, DescriptionsAssumption
<1>3. m.set \in Perms
  BY <1>1 DEF WellFormed
<1>4. new \in User
  BY <1>1, <1>2, <1>3, DefinedType DEF User
<1> HIDE DEF new
<1>5. disk' # NoFile /\ disk'.doc = [disk.doc EXCEPT !.users[u] = new]
  BY <1>1, <1>2, <1>4, SetUserType DEF Rewritten
<1>6. m.match \in {"seen", "absent"}
  BY <1>1 DEF WellFormed
<1>7. CASE m.match = "absent"
  <2>1. ~Defined(disk, u)
    BY <1>1, <1>2, <1>7 DEF IInv, Typed, Agreed, UpdateUser
  <2>2. new = [perm |-> m.set, password |-> NoPassword]
    BY <2>1 DEF new
  <2>3. Atomic!UserEffect(m, u)
    BY <1>1, <1>2, <1>5, <1>7, <2>1, <2>2
    DEF Atomic!UserEffect, Atomic!Defined, Atomic!SetUser, Defined
  <2> QED
    BY <2>3 DEF Atomic!Effect, Atomic!UserOf, UserOf
<1>8. CASE m.match = "seen"
  <2>1. req[a].seen \in Files /\ req[a].tag = req[a].seen.tag
    BY <1>1, <1>8 DEF IInv, Typed, Shown, Agreed
  <2>2. Defined(disk, u)
    BY <2>1, DescriptionsAssumption DEF UpdateUser, Files
  <2>3. new = [disk.doc.users[u] EXCEPT !.perm = m.set]
    BY <1>1, <1>2, <2>2, DefinedType DEF new, User
  <2>4. Atomic!UserEffect(m, u)
    BY <1>2, <1>5, <1>8, <2>2, <2>3
    DEF Atomic!UserEffect, Atomic!Defined, Atomic!SetUser, Defined
  <2> QED
    BY <2>4 DEF Atomic!Effect, Atomic!UserOf, UserOf
<1> QED
  BY <1>6, <1>7, <1>8

\* What a request that succeeds does to the file is what its command promises.
LEMMA CommitEffect ==
    ASSUME IInv, NEW a \in Admins, req[a].pc = "commit", Write(a)
    PROVE  Atomic!Effect(req[a].cmd)
<1> DEFINE m == req[a].cmd
<1>1. Typed /\ TypeOK /\ WellFormed(m) /\ clock \in Nat
  BY RunsWellFormed DEF IInv, Typed, TypeOK
<1>2. ASSUME disk # NoFile
      PROVE  disk \in Files /\ disk.doc \in Doc /\ disk.doc # NoDoc
  BY <1>1, <1>2, FileTag, DescriptionsAssumption
<1>3. m.method # "GET"
  BY DEF IInv, Typed, Shown
<1>4. CASE m.on = Group
  <2>1. m.on[1] = "group"
    BY <1>4, GroupKind
  <2>2. CASE m.method = "PUT"
    BY <1>4, <2>1, <2>2, GroupPut DEF Write
  <2>3. CASE m.method = "DELETE"
    <3>1. DeleteDescription(a)
      BY <2>1, <2>3 DEF Write
    <3> QED
      BY <1>2, <1>4, <2>3, <3>1
      DEF DeleteDescription, Atomic!Effect, Atomic!Group, Group
  <2> QED
    BY <1>1, <1>3, <2>2, <2>3 DEF WellFormed
<1>5. ASSUME NEW u \in Users, m.on = UserOf(u) PROVE Atomic!Effect(m)
  <2>1. m.on[1] = "user" /\ m.on[2] = u
    BY <1>5, Kinds
  <2>2. CASE m.method = "PUT"
    BY <1>5, <2>1, <2>2, UserPut DEF Write
  <2>3. CASE m.method = "DELETE"
    <3>1. Defined(disk, u) /\ SetUser(u, NoUser)
      BY <2>1, <2>3 DEF Write, DeleteUser
    <3>2. disk # NoFile /\ disk.doc.users[u] # NoUser
      BY <3>1 DEF Defined
    <3>3. disk' # NoFile /\ disk'.doc = [disk.doc EXCEPT !.users[u] = NoUser]
      BY <1>1, <1>2, <3>1, <3>2, SetUserType DEF Rewritten
    <3>4. Atomic!UserEffect(m, u)
      BY <1>2, <2>3, <3>2, <3>3
      DEF Atomic!UserEffect, Atomic!Defined, Atomic!SetUser
    <3> QED
      BY <1>5, <3>4 DEF Atomic!Effect, Atomic!UserOf, UserOf
  <2> QED
    BY <1>1, <1>3, <2>2, <2>3 DEF WellFormed
<1>6. ASSUME NEW u \in Users, m.on = PasswordOf(u) PROVE Atomic!Effect(m)
  <2>1. m.on[1] = "password" /\ m.on[2] = u
    BY <1>6, Kinds
  <2> DEFINE password == IF m.method = "PUT" THEN m.set ELSE NoPassword
             new == [disk.doc.users[u] EXCEPT !.password = password]
  <2>2. SetUserPassword(u, password)
    BY <2>1 DEF Write
  <2>3. Defined(disk, u) /\ SetUser(u, new)
    BY <2>2 DEF SetUserPassword
  <2>4. disk # NoFile /\ disk.doc.users[u] # NoUser
    BY <2>3 DEF Defined
  <2>5. password \in Hashes \cup {NoPassword}
    BY <1>1, <1>6 DEF WellFormed
  <2>6. new \in User
    BY <1>1, <1>2, <2>3, <2>4, <2>5, DefinedType DEF User
  <2>7. disk' # NoFile /\ disk'.doc = [disk.doc EXCEPT !.users[u] = new]
    BY <1>1, <1>2, <2>3, <2>4, <2>6, SetUserType DEF Rewritten
  <2>8. Atomic!Defined(u) /\ Atomic!SetUser(u, new)
    BY <1>2, <2>4, <2>7 DEF Atomic!Defined, Atomic!SetUser
  <2>9. new = [DocBar.users[u] EXCEPT !.password =
                  IF m.method = "PUT" THEN m.set ELSE NoPassword]
    BY <2>4 DEF DocBar
  <2> QED
    BY <1>6, <2>8, <2>9
    DEF Atomic!Effect, Atomic!PasswordOf, PasswordOf, Atomic!SetUser, DocBar
<1>7. CASE m.on = Keys
  <2>1. m.on[1] = "keys"
    BY <1>7, GroupKind
  <2> DEFINE keys == IF m.method = "PUT" THEN m.set ELSE NoKeys
             d == [disk.doc EXCEPT !.keys = keys]
  <2>2. SetKeys(keys)
    BY <2>1 DEF Write
  <2>3. disk # NoFile /\ Rewrite(d)
    BY <2>2 DEF SetKeys
  <2>4. keys \in KeySets \cup {NoKeys}
    BY <1>1, <1>7 DEF WellFormed
  <2>5. d \in Doc
    BY <1>2, <2>3, <2>4 DEF Doc
  <2>6. disk' # NoFile /\ disk'.doc = d
    BY <1>1, <2>3, <2>5, RewriteType DEF Rewritten
  <2> QED
    BY <1>2, <1>7, <2>3, <2>6 DEF Atomic!Effect, Atomic!Keys, Keys
<1> QED
  BY <1>1, <1>4, <1>5, <1>6, <1>7 DEF WellFormed
-----------------------------------------------------------------------------
\* A step of a request that leaves the file alone is invisible, the failure of
\* its command, or the success of one that only reads.
LEMMA RequestRefines ==
    ASSUME Typed, NEW a \in Admins, NEW file, Moved(a, file),
           disk' = disk, req[a].pc \notin {"reply", "done", "failed"},
           req'[a].pc # "reply",
           req'[a].pc = "done" => req[a].cmd.method = "GET"
    PROVE  [Atomic!Next]_(Atomic!vars)
<1>1. DocBar' = DocBar /\ RunningBar' = RunningBar
  BY DEF DocBar, RunningBar, Moved
<1>2. StatusBar[a] = "running"
  BY DEF StatusBar
<1>3. ASSUME NEW b \in Admins, b # a PROVE StatusBar'[b] = StatusBar[b]
  BY <1>3 DEF StatusBar, Moved
<1>4. CASE req'[a].pc \notin {"done", "failed"}
  <2>1. StatusBar' = StatusBar
    BY <1>4 DEF StatusBar, Moved
  <2> QED
    BY <1>1, <2>1 DEF Atomic!vars, DocBar, RunningBar, StatusBar
<1>5. CASE req'[a].pc = "failed"
  <2>1. StatusBar' = [StatusBar EXCEPT ![a] = "failed"]
    BY <1>5 DEF StatusBar, Moved
  <2>2. Atomic!Fail(a)
    BY <1>1, <1>2, <2>1 DEF Atomic!Fail, DocBar, RunningBar, StatusBar
  <2> QED
    BY <2>2 DEF Atomic!Next
<1>6. CASE req'[a].pc = "done"
  <2>1. StatusBar' = [StatusBar EXCEPT ![a] = "done"]
    BY <1>6 DEF StatusBar, Moved
  <2>2. Atomic!Effect(RunningBar[a])
    BY <1>1, <1>6 DEF Atomic!Effect, DocBar, RunningBar
  <2>3. Atomic!Perform(a)
    BY <1>1, <1>2, <2>1, <2>2 DEF Atomic!Perform, DocBar, RunningBar, StatusBar
  <2> QED
    BY <2>3 DEF Atomic!Next
<1> QED
  BY <1>4, <1>5, <1>6

\* A step that leaves file and requests alone is invisible.
LEMMA Invisible ==
    ASSUME UNCHANGED <<disk, req>>
    PROVE  [Atomic!Next]_(Atomic!vars)
  BY DEF Atomic!vars

\* Every step of the server and of the administrators is a step of the register
\* or invisible: a command takes effect when the file is written, or when it
\* has read.
LEMMA StepRefines ==
    ASSUME IInv, [Next]_vars
    PROVE  [Atomic!Next]_(Atomic!vars)
<1>1. Typed
  BY DEF IInv
<1>2. ASSUME NEW a \in Admins, Start(a) PROVE [Atomic!Next]_(Atomic!vars)
  <2>1. PICK m \in Commands :
            req' = [req EXCEPT ![a] =
                       [Idle EXCEPT !.cmd = m,
                                    !.pc = IF m.reads THEN "get" ELSE "put"]]
    BY <1>2 DEF Start
  <2> DEFINE r == [Idle EXCEPT !.cmd = m,
                               !.pc = IF m.reads THEN "get" ELSE "put"]
  <2>2. r.cmd = m /\ r.pc \in {"get", "put"}
    BY DEF Idle
  <2> HIDE DEF r
  <2>3. \A b \in Admins : req'[b] = IF b = a THEN r ELSE req[b]
    BY <1>1, <2>1 DEF Typed, TypeOK, r
  <2>4. RunningBar' = [RunningBar EXCEPT ![a] = m]
    BY <2>2, <2>3 DEF RunningBar
  <2>5. StatusBar' = [StatusBar EXCEPT ![a] = "running"]
    BY <2>2, <2>3 DEF StatusBar
  <2>6. StatusBar[a] \in {"done", "failed"}
    BY <1>2 DEF Start, StatusBar
  <2>7. DocBar' = DocBar
    BY <1>2 DEF Start, DocBar
  <2>8. Atomic!Begin(a)
    BY <2>4, <2>5, <2>6, <2>7 DEF Atomic!Begin, DocBar, RunningBar, StatusBar
  <2> QED
    BY <2>8 DEF Atomic!Next
<1>3. ASSUME NEW a \in Admins,
             \/ CacheHit(a) \/ CacheRead(a) \/ ReadDisk(a) \/ StatTag(a)
             \/ NoTagNeeded(a) \/ Error(a)
      PROVE  [Atomic!Next]_(Atomic!vars)
  <2>1. PICK file \in {cache, disk, NoFile, req[a].file} : Moved(a, file)
    BY <1>1, <1>3, RequestMoves
  <2>2. disk' = disk
    BY <1>3 DEF CacheHit, CacheRead, ReadDisk, StatTag, NoTagNeeded, Error
  <2>3. CASE Error(a)
    <3>1. req[a].pc = "commit" /\ req'[a].pc = "failed"
      BY <1>1, <2>3 DEF Error, Goto, Typed, TypeOK
    <3> QED
      BY <1>1, <2>1, <2>2, <3>1, RequestRefines
  <2>4. CASE ~Error(a)
    <3>1. req[a].pc \in {"get", "get-cached", "put", "put-cached"}
      BY <1>3, <2>4
      DEF CacheHit, CacheRead, ReadDisk, StatTag, NoTagNeeded, UsesDescription
    <3>2. /\ req'[a].pc = "done" => req[a].cmd.method = "GET"
          /\ req'[a].pc # "reply"
      BY <2>1, <3>1 DEF Moved
    <3> QED
      BY <1>1, <2>1, <2>2, <3>1, <3>2, RequestRefines
  <2> QED
    BY <2>3, <2>4
<1>4. ASSUME NEW a \in Admins, Commit(a) PROVE [Atomic!Next]_(Atomic!vars)
  <2>1. PICK file \in {cache, disk, NoFile, req[a].file} : Moved(a, file)
    BY <1>1, <1>4, RequestMoves
  <2>2. Atomic!Effect(req[a].cmd)
    BY <1>4, CommitEffect DEF Commit
  <2>3. req[a].pc = "commit" /\ req'[a].pc = "reply"
    BY <1>1, <1>4 DEF Commit, Goto, Typed, TypeOK
  <2>4. RunningBar' = RunningBar /\ RunningBar[a] = req[a].cmd
    BY <2>1 DEF RunningBar, Moved
  <2>5. StatusBar[a] = "running" /\ StatusBar' = [StatusBar EXCEPT ![a] = "applied"]
    BY <2>1, <2>3 DEF StatusBar, Moved
  <2>6. Atomic!Perform(a)
    BY <2>2, <2>4, <2>5 DEF Atomic!Perform, RunningBar, StatusBar
  <2> QED
    BY <2>6 DEF Atomic!Next
<1>5. CASE Refresh \/ Forget \/ UpdateReads \/ UpdateAdds \/ UNCHANGED vars
  BY <1>5, Invisible DEF Refresh, Forget, UpdateReads, UpdateAdds, vars
<1>6. CASE Restart
  <2>1. ASSUME NEW b \in Admins
        PROVE  /\ req'[b].cmd = req[b].cmd
               /\ req'[b].pc = IF req[b].pc \in {"done", "failed"} THEN req[b].pc
                               ELSE "failed"
    <3>1. req[b] \in Requests
      BY <1>1 DEF Typed, TypeOK, Requests
    <3>2. req'[b] = IF req[b].pc \in {"done", "failed"} THEN req[b]
                    ELSE [req[b] EXCEPT !.pc = "failed", !.file = NoFile]
      BY <1>6 DEF Restart
    <3> QED
      BY <3>1, <3>2 DEF Requests
  <2>2. DocBar' = DocBar
    BY <1>6 DEF Restart, DocBar
  <2>3. RunningBar' = RunningBar
    BY <2>1 DEF RunningBar
  <2>4. StatusBar' = [b \in Admins |->
                        IF StatusBar[b] \in {"running", "applied"} THEN "failed"
                        ELSE StatusBar[b]]
    BY <2>1 DEF StatusBar
  <2>5. Atomic!FailAll
    BY <2>2, <2>3, <2>4 DEF Atomic!FailAll, DocBar, RunningBar, StatusBar
  <2> QED
    BY <2>5 DEF Atomic!Next
<1>7. ASSUME NEW a \in Admins, Answer(a) PROVE [Atomic!Next]_(Atomic!vars)
  <2>1. PICK file \in {cache, disk, NoFile, req[a].file} : Moved(a, file)
    BY <1>1, <1>7, RequestMoves
  <2>2. PICK pc \in {"done", "failed"} : req[a].pc = "reply" /\ req'[a].pc = pc
    BY <1>1, <1>7 DEF Answer, Goto, Typed, TypeOK
  <2>3. DocBar' = DocBar /\ RunningBar' = RunningBar
    BY <1>7, <2>1 DEF Answer, DocBar, RunningBar, Moved
  <2>4. StatusBar[a] = "applied" /\ StatusBar' = [StatusBar EXCEPT ![a] = pc]
    BY <2>1, <2>2 DEF StatusBar, Moved
  <2>5. Atomic!Answer(a)
    BY <2>3, <2>4 DEF Atomic!Answer, DocBar, RunningBar, StatusBar
  <2> QED
    BY <2>5 DEF Atomic!Next
<1> QED
  BY <1>2, <1>3, <1>4, <1>5, <1>6, <1>7 DEF Next

\* Administration is atomic: whatever the interleaving of requests, updates of
\* the copy in memory and restarts, commands take effect one after the other,
\* on the definition of that moment, or not at all; what has failed has had no
\* effect, unless only its answer was lost.
THEOREM AdministrationAtomic ==
    ASSUME Precise
    PROVE  Spec => AtomicUpdates
<1>1. Init => Atomic!Init
  <2> SUFFICES ASSUME Init PROVE Atomic!Init
    OBVIOUS
  <2>1. ASSUME disk # NoFile PROVE disk.doc \in Doc
    BY <2>1, DescriptionsAssumption DEF Init, File
  <2>2. DocBar \in Doc \cup {NoDoc}
    BY <2>1 DEF DocBar
  <2>3. \A a \in Admins : req[a].cmd = ShowGroupCmd /\ req[a].pc = "done"
    BY DEF Init, Idle
  <2>4. RunningBar = [a \in Admins |-> ShowGroupCmd]
    BY <2>3 DEF RunningBar
  <2>5. StatusBar = [a \in Admins |-> "done"]
    BY <2>3 DEF StatusBar
  <2> QED
    BY <2>2, <2>4, <2>5
    DEF Atomic!Init, Atomic!Doc, Atomic!User, Doc, User, DocBar, RunningBar,
        StatusBar, Atomic!ShowGroupCmd, ShowGroupCmd, Atomic!GetJSON, GetJSON,
        Atomic!Command, Command, Atomic!Group, Group
<1>2. IInv /\ [Next]_vars => IInv'
  BY FaithfulStep
<1>3. IInv /\ [Next]_vars => [Atomic!Next]_(Atomic!vars)
  BY StepRefines
<1> QED
  BY <1>1, <1>2, <1>3, Initially, PTL DEF Spec, AtomicUpdates, Atomic!Spec
=============================================================================
