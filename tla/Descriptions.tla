---------------------------- MODULE Descriptions ----------------------------
(***************************************************************************)
(* The administration of one group: group/description.go, which keeps the  *)
(* definition in a file, the handlers of webserver/api.go, which read and  *)
(* change it, and administrators who run the commands of module Galenectl. *)
(*                                                                         *)
(* A change of the file is made under groups.mu, from a file read under    *)
(* the same lock, and becomes visible when a complete temporary file is    *)
(* renamed over the old one: it is one step.  The answer is another: the   *)
(* server may stop, or the connection break, before it arrives.  The tag   *)
(* that the handler checks first, and the description a GET returns, are   *)
(* read without any lock, the latter perhaps from the group in memory.     *)
(*                                                                         *)
(* Definitions marked "Mutation" are mistakes that the properties must     *)
(* notice, and not part of the model.                                      *)
(***************************************************************************)
EXTENDS Galenectl

CONSTANTS Admins,       \* the programs that use the API
          Commands,     \* the commands they may run
          NoDoc, NoUser,
          InitialDocs,  \* the definitions there may be at the beginning
          NoFile,
          NoTag,        \* the empty tag
          Size(_),      \* the size of the file of a definition
          Precise,      \* every write of the file has a date of its own
          MaxBudget     \* bound: the number of commands

User == [perm : Perms, password : Hashes \cup {NoPassword}]

Doc == [general : [Fields -> Values],
        users : [Users -> User \cup {NoUser}],
        keys : KeySets \cup {NoKeys}]

Tags == Nat \X Nat

Files == [doc : Doc, tag : Tags]

ASSUME DescriptionsAssumption ==
    /\ InitialDocs \subseteq Doc
    /\ Commands \subseteq AllCommands
    /\ NoUser \notin User /\ NoDoc \notin Doc
    /\ NoFile \notin Files /\ NoTag \notin Tags
    /\ \A d \in Doc : Size(d) \in Nat
    /\ Precise \in BOOLEAN
    /\ MaxBudget \in Nat

VARIABLES disk,         \* the group's file, or NoFile
          cache,        \* g.description, or NoFile without a group in memory
          held,         \* the description the periodic update is to Add
          clock,        \* the date
          req,          \* the request of each administrator
          budget        \* what is left of MaxBudget

vars == <<disk, cache, held, clock, req, budget>>

\* Mutation: the date is ignored.
TagOfSize(doc, date) == <<Size(doc), 0>>

\* makeETag: the size of the file and its date.
Tag(doc, date) == <<Size(doc), date>>

File(doc, date) == [doc |-> doc, tag |-> Tag(doc, date)]

TagOf(file) == IF file = NoFile THEN NoTag ELSE file.tag

Defined(file, u) == file # NoFile /\ file.doc.users[u] # NoUser

Idle == [pc |-> "done", cmd |-> ShowGroupCmd, file |-> NoFile,
         seen |-> NoFile, tag |-> NoTag]

Init == /\ disk \in {NoFile} \cup {File(d, 0) : d \in InitialDocs}
        /\ cache = NoFile
        /\ held = NoFile
        /\ clock = 0
        /\ req = [a \in Admins |-> Idle]
        /\ budget = MaxBudget

Goto(a, pc) == req' = [req EXCEPT ![a].pc = pc]

\* A program sends the first request of a command: the GET of updateJSON, or
\* the only one there is.
Start(a) ==
    /\ req[a].pc \in {"done", "failed"}
    /\ budget > 0
    /\ budget' = budget - 1
    /\ \E m \in Commands :
         req' = [req EXCEPT ![a] =
                    [Idle EXCEPT !.cmd = m,
                                 !.pc = IF m.reads THEN "get" ELSE "put"]]
    /\ UNCHANGED <<disk, cache, held, clock>>
-----------------------------------------------------------------------------
(* Preconditions. *)

\* etagMatch: no tag of the header matches an object that does not exist.
ETagMatch(tag, match, seen) ==
    CASE match = "seen" -> tag # NoTag /\ tag = seen.tag
      [] match = "absent" -> tag # NoTag       \* the header is a star

\* checkPreconditions: If-Match must match, If-None-Match must not.
Precondition(a, tag) ==
    LET m == req[a].cmd.match
    IN CASE m = "any" -> TRUE
         [] m = "seen" -> ETagMatch(tag, m, req[a].seen)
         [] m = "absent" -> ~ETagMatch(tag, m, req[a].seen)

\* The handler keeps the tag it has checked, for the change to check again.
Check(a, tag) ==
    req' = [req EXCEPT ![a].pc = IF Precondition(a, tag) THEN "commit"
                                                         ELSE "failed",
                       ![a].tag = tag,
                       ![a].file = NoFile]
-----------------------------------------------------------------------------
(* Reading.  GetDescription serves the GETs, and GetUserTag, with which the
   handlers of a user's PUT and DELETE begin. *)

\* What the request is about does not exist in the description.
Missing(file, on) ==
    \/ file = NoFile
    \/ on[1] = "user" /\ ~Defined(file, on[2])

\* GetSanitisedDescription, GetSanitisedUser or GetUsers, and the answer: the
\* program goes on to its second request, with the tag and what it was shown.
Reply(a, file) ==
    LET m == req[a].cmd
    IN req' = [req EXCEPT
         ![a].pc = CASE Missing(file, m.on) -> "failed"
                     [] ~Missing(file, m.on) /\ m.method = "GET" -> "done"
                     [] OTHER -> "put",
         ![a].seen = IF Missing(file, m.on) \/ m.method = "GET" THEN NoFile
                     ELSE file,
         ![a].file = NoFile]

\* userHandler, once it has a description: a user that does not exist has
\* the empty tag, and cannot be deleted.
UserTag(a, file) ==
    LET m == req[a].cmd
    IN CASE ~Missing(file, m.on) -> Check(a, file.tag)
         [] Missing(file, m.on) /\ m.method = "PUT" -> Check(a, NoTag)
         [] OTHER -> req' = [req EXCEPT ![a].pc = "failed", ![a].file = NoFile]

UsesDescription(a) ==
    \/ req[a].pc = "get"
    \/ req[a].pc = "put" /\ req[a].cmd.on[1] = "user"

Deliver(a, file) == IF req[a].pc \in {"get", "get-cached"} THEN Reply(a, file)
                                                           ELSE UserTag(a, file)

\* descriptionUnchanged: the description in memory has the tag of the file.
Unchanged(file) == file # NoFile /\ disk # NoFile /\ file.tag = disk.tag

\* GetDescription finds the description in memory up to date ...
CacheHit(a) ==
    /\ UsesDescription(a)
    /\ Unchanged(cache)
    /\ req' = [req EXCEPT ![a].pc = IF @ = "get" THEN "get-cached"
                                                 ELSE "put-cached",
                          ![a].file = cache]
    /\ UNCHANGED <<disk, cache, held, clock, budget>>

\* ... and reads g.description again, without a lock: it returns what it
\* compared, or what another goroutine has put there in the meantime.
CacheRead(a) ==
    /\ req[a].pc \in {"get-cached", "put-cached"}
    /\ \E file \in {req[a].file, cache} \ {NoFile} : Deliver(a, file)
    /\ UNCHANGED <<disk, cache, held, clock, budget>>

\* There is no group in memory, or its description was out of date when it
\* was compared: readDescription.
ReadDisk(a) ==
    /\ UsesDescription(a)
    /\ Deliver(a, disk)
    /\ UNCHANGED <<disk, cache, held, clock, budget>>

\* apiGroupHandler: PUT and DELETE of a group ask for the file's tag.
StatTag(a) ==
    /\ req[a].pc = "put" /\ req[a].cmd.on = Group
    /\ IF req[a].cmd.method = "DELETE" /\ disk = NoFile
       THEN Goto(a, "failed")
       ELSE Check(a, TagOf(disk))
    /\ UNCHANGED <<disk, cache, held, clock, budget>>

\* passwordHandler and keysHandler check nothing first.
NoTagNeeded(a) ==
    /\ req[a].pc = "put"
    /\ req[a].cmd.on[1] \in {"password", "keys"}
    /\ Goto(a, "commit")
    /\ UNCHANGED <<disk, cache, held, clock, budget>>
-----------------------------------------------------------------------------
(* Writing: what is done under groups.mu. *)

\* rewriteDescriptionFile.
Rewrite(doc) ==
    /\ clock' \in IF Precise THEN {clock + 1} ELSE {clock, clock + 1}
    /\ disk' = File(doc, clock')

\* Mutation: what the program does not give has no value at all.
BodyPartial(a) ==
    [f \in Fields |-> IF f \in DOMAIN req[a].cmd.set THEN req[a].cmd.set[f]
                      ELSE NoChange]

\* What a PUT of a group defines: a program that updates sends all the fields
\* it was shown, with its own changes.
Body(a) ==
    [f \in Fields |->
        IF f \in DOMAIN req[a].cmd.set THEN req[a].cmd.set[f]
        ELSE IF req[a].cmd.match = "seen" THEN req[a].seen.doc.general[f]
        ELSE Default]

\* Mutation: the tag is checked by the handler only.
UpdateDescriptionUnchecked(a) ==
    Rewrite([general |-> Body(a),
             users |-> IF disk = NoFile THEN [u \in Users |-> NoUser]
                       ELSE disk.doc.users,
             keys |-> IF disk = NoFile THEN NoKeys ELSE disk.doc.keys])

\* UpdateDescription: users and keys are those of the old file.
UpdateDescription(a) ==
    /\ req[a].tag = TagOf(disk)
    /\ Rewrite([general |-> Body(a),
                users |-> IF disk = NoFile THEN [u \in Users |-> NoUser]
                          ELSE disk.doc.users,
                keys |-> IF disk = NoFile THEN NoKeys ELSE disk.doc.keys])

DeleteDescription(a) ==
    /\ disk # NoFile
    /\ req[a].tag = disk.tag
    /\ disk' = NoFile
    /\ UNCHANGED clock

SetUser(u, new) == Rewrite([disk.doc EXCEPT !.users[u] = new])

\* UpdateUser: the tag is empty if there is no such user; the password is
\* that of the old file.
UpdateUser(a, u) ==
    /\ disk # NoFile
    /\ req[a].tag = IF Defined(disk, u) THEN disk.tag ELSE NoTag
    /\ SetUser(u, [perm |-> req[a].cmd.set,
                   password |-> IF Defined(disk, u)
                                THEN disk.doc.users[u].password
                                ELSE NoPassword])

DeleteUser(a, u) ==
    /\ Defined(disk, u)
    /\ req[a].tag = disk.tag
    /\ SetUser(u, NoUser)

\* SetUserPassword, without a precondition.
SetUserPassword(u, password) ==
    /\ Defined(disk, u)
    /\ SetUser(u, [disk.doc.users[u] EXCEPT !.password = password])

SetKeys(keys) == disk # NoFile /\ Rewrite([disk.doc EXCEPT !.keys = keys])

Write(a) ==
    LET m == req[a].cmd
        put == m.method = "PUT"
        u == m.on[2]
    IN CASE m.on[1] = "group" ->
              IF put THEN UpdateDescription(a) ELSE DeleteDescription(a)
         [] m.on[1] = "user" ->
              IF put THEN UpdateUser(a, u) ELSE DeleteUser(a, u)
         [] m.on[1] = "password" ->
              SetUserPassword(u, IF put THEN m.set ELSE NoPassword)
         [] m.on[1] = "keys" ->
              SetKeys(IF put THEN m.set ELSE NoKeys)

\* The change is made, and the handler is about to answer ...
Commit(a) ==
    /\ req[a].pc = "commit"
    /\ Write(a)
    /\ Goto(a, "reply")
    /\ UNCHANGED <<cache, held, budget>>

\* ... and the answer reaches the program, unless the connection breaks.
Answer(a) ==
    /\ req[a].pc = "reply"
    /\ \E pc \in {"done", "failed"} : Goto(a, pc)
    /\ UNCHANGED <<disk, cache, held, clock, budget>>

\* The function returns an error: its object is missing, the tag does not
\* match, groups may not be written, or the file system fails.
Error(a) ==
    /\ req[a].pc = "commit"
    /\ Goto(a, "failed")
    /\ UNCHANGED <<disk, cache, held, clock, budget>>
-----------------------------------------------------------------------------
(* The group in memory. *)

\* add, without a description: a client joins, or the periodic update looks
\* at the groups in memory.  A group whose file is gone stays only while it
\* has clients.
Refresh ==
    /\ ~Unchanged(cache)
    /\ cache' \in IF disk = NoFile THEN {cache, NoFile} ELSE {disk}
    /\ UNCHANGED <<disk, held, clock, req, budget>>

\* Delete: an empty group is removed from memory.
Forget ==
    /\ cache' = NoFile
    /\ UNCHANGED <<disk, held, clock, req, budget>>

\* Update walks the files, and gets the description of each ...
UpdateReads ==
    /\ disk # NoFile
    /\ held = NoFile
    /\ held' = IF Unchanged(cache) THEN cache ELSE disk
    /\ UNCHANGED <<disk, cache, clock, req, budget>>

\* ... and adds the group with it, however old it is by now, if it is public.
UpdateAdds ==
    /\ held # NoFile
    /\ cache' \in {cache, IF TagOf(cache) = held.tag THEN cache ELSE held}
    /\ held' = NoFile
    /\ UNCHANGED <<disk, clock, req, budget>>

\* The server stops and starts again.  Requests under way are not answered: a
\* change that was made stays, one that was not leaves a temporary file at most.
Restart ==
    /\ cache' = NoFile
    /\ held' = NoFile
    /\ req' = [a \in Admins |->
                 IF req[a].pc \in {"done", "failed"} THEN req[a]
                 ELSE [req[a] EXCEPT !.pc = "failed", !.file = NoFile]]
    /\ UNCHANGED <<disk, clock, budget>>

Next == \/ \E a \in Admins : \/ Start(a)
                             \/ CacheHit(a)
                             \/ CacheRead(a)
                             \/ ReadDisk(a)
                             \/ StatTag(a)
                             \/ NoTagNeeded(a)
                             \/ Commit(a)
                             \/ Answer(a)
                             \/ Error(a)
        \/ Refresh
        \/ Forget
        \/ UpdateReads
        \/ UpdateAdds
        \/ Restart

Spec == Init /\ [][Next]_vars
-----------------------------------------------------------------------------
TypeOK ==
    /\ disk \in Files \cup {NoFile}
    /\ cache \in Files \cup {NoFile}
    /\ held \in Files \cup {NoFile}
    /\ clock \in Nat
    /\ req \in [Admins ->
                  [pc : {"get", "get-cached", "put", "put-cached", "commit",
                         "reply", "done", "failed"},
                   cmd : Commands \cup {ShowGroupCmd},
                   file : Files \cup {NoFile},
                   seen : Files \cup {NoFile},
                   tag : Tags \cup {NoTag}]]
    /\ budget \in 0..MaxBudget

\* Every description that somebody has in hand.
InHand == {cache, held} \cup {req[a].file : a \in Admins}
                        \cup {req[a].seen : a \in Admins}

(* A tag stands for the content: whatever has the tag of the file, in memory
   or in a program that is about to update it, is what the file contains, so
   that comparing tags, as all the conditional requests and GetDescription's
   cache do, compares contents. *)
TagsFaithful ==
    \A file \in InHand \ {NoFile} :
        disk # NoFile /\ file.tag = disk.tag => file = disk

(* Administration is atomic: each command changes the definition at once, as
   if it had read it at that moment, or fails without effect, unless it fails
   because only the answer was lost.  No update is lost, whoever else changes
   the group between the requests of a command, between the two checks of a
   tag, or in the group's cache in memory, and whenever the server stops. *)
Atomic == INSTANCE DescriptionRegister
          WITH doc <- IF disk = NoFile THEN NoDoc ELSE disk.doc,
               running <- [a \in Admins |-> req[a].cmd],
               status <- [a \in Admins |->
                            IF req[a].pc \in {"done", "failed"} THEN req[a].pc
                            ELSE IF req[a].pc = "reply" THEN "applied"
                            ELSE "running"]

AtomicUpdates == Atomic!Spec
=============================================================================
