------------------------------ MODULE TokenStore ------------------------------
(***************************************************************************)
(* token/stateful.go: the stateful tokens, in a file and in memory; the    *)
(* handlers of webserver/api.go and the messages of rtpconn/webclient.go   *)
(* that make, edit, list, use and delete them; and the administrators and  *)
(* members (module Galenectl) who send those.                              *)
(*                                                                         *)
(* Every operation of the store holds its mutex, and is one step: it first *)
(* makes memory agree with the file, which somebody else may have changed, *)
(* then appends to the file or replaces it.  A handler that reads and then *)
(* writes a token releases the mutex in between.  The answer to a change   *)
(* is a step of its own: the server may stop, or the connection break,     *)
(* before it arrives.                                                      *)
(*                                                                         *)
(* Definitions marked "Mutation" are mistakes that the properties must     *)
(* notice, and not part of the model.                                      *)
(***************************************************************************)
EXTENDS Galenectl

CONSTANTS Callers,      \* programs that use the API, and members of groups
          Tokens,       \* the names of tokens
          Commands,     \* what the callers may ask for
          NoToken,
          InitialTokens, \* what the file may contain when the server starts
          NoFile,
          NoStamp,      \* the zero time, and the empty tag
          Size(_, _),   \* the size of a file, by its tokens and damage
          Precise,      \* every version of the file has a date of its own
          Week,         \* how long expired tokens are kept
          MaxTime,      \* bound: the date
          MaxBudget,    \* bound: the number of commands
          MaxEdits,     \* bound: edits of the file by hand
          MaxFaults     \* bound: writes that fail half-way

Token == [perms : TokenPerms, expires : Times]

Tags == Nat \X Nat

Files == [tokens : [Tokens -> Token \cup {NoToken}], tag : Tags, torn : BOOLEAN]

\* What galenectl, the management page and members of the group may ask for.
TokenCommands ==
    {CreateTokenCmd(p, x) : p \in TokenPerms, x \in Times}
    \cup {UpdateTokenCmd(t, p, x) : t \in Tokens, p \in TokenPerms \cup {NoChange},
                                    x \in Times \cup {NoChange}}
    \cup {RevokeTokenCmd(t) : t \in Tokens} \cup ListTokensCmd(Tokens)
    \cup {DeleteTokenCmd(t) : t \in Tokens}
    \cup {DeleteSeen(TokenNamed(t)) : t \in Tokens}
    \cup {EditToken(t, x) : t \in Tokens, x \in Times \cup {NoChange}}
    \cup {UseToken(t) : t \in Tokens}

ASSUME TokensAssumption ==
    /\ InitialTokens \subseteq [Tokens -> Token \cup {NoToken}]
    /\ Commands \subseteq TokenCommands
    /\ NoToken \notin Token /\ NoFile \notin Files /\ NoStamp \notin Tags
    /\ \A f \in [Tokens -> Token \cup {NoToken}], torn \in BOOLEAN :
         Size(f, torn) \in Nat
    /\ Precise \in BOOLEAN
    /\ NoChange \notin TokenPerms \cup Times
    /\ Times \subseteq Nat /\ 0 \in Times
    /\ Week \in Nat /\ MaxTime \in Nat
    /\ MaxBudget \in Nat /\ MaxEdits \in Nat /\ MaxFaults \in Nat

VARIABLES file,         \* the tokens, the tag and whether the end is damaged
          mem,          \* state.tokens, and the tag of modTime and fileSize
          clock,        \* the date of the last version of the file
          now,          \* the date
          used,         \* names that have been given to tokens
          call,         \* what each caller is doing
          edits, faults, budget  \* what happened, and what is left to happen

fileVars == <<file, mem, clock, used>>
restVars == <<now, edits, faults, budget>>
vars == <<fileVars, call, restVars>>

None == [t \in Tokens |-> NoToken]

Reset == [tokens |-> None, tag |-> NoStamp]

\* A version of the file.  Its tag, in the store and in the answers to requests
\* alike, is its size and its date.
Version(tokens, torn, date) ==
    [tokens |-> tokens, tag |-> <<Size(tokens, torn), date>>, torn |-> torn]

\* Time may pass before the file is written.
NewDate == clock' \in IF Precise THEN {clock + 1} ELSE {clock, clock + 1}

Idle == [pc |-> "done", cmd |-> ListTokens, tag |-> NoStamp, old |-> NoToken]

Init == /\ file \in {NoFile} \cup {Version(f, FALSE, 1) : f \in InitialTokens}
        /\ mem = Reset
        /\ clock = 1
        /\ now = 1
        /\ used = IF file = NoFile THEN {}
                  ELSE {t \in Tokens : file.tokens[t] # NoToken}
        /\ call = [c \in Callers |-> Idle]
        /\ edits = 0
        /\ faults = 0
        /\ budget = MaxBudget

Expired(x) == x # NoToken /\ x.expires < now

LongExpired(x) == x # NoToken /\ x.expires + Week < now

\* Mutation: what a request leaves out is lost.
GivenOnly(new, old) == new

\* What a request leaves out stays.
Given(new, old) == IF new = NoChange THEN old ELSE new

Goto(c, pc) == call' = [call EXCEPT ![c].pc = pc]

\* A command begins with its GET, if it has one.
Start(c) ==
    /\ call[c].pc \in {"done", "failed"}
    /\ budget > 0
    /\ budget' = budget - 1
    /\ \E m \in Commands :
         call' = [call EXCEPT ![c] =
                    [Idle EXCEPT !.cmd = m,
                                 !.pc = IF m.reads THEN "get" ELSE "ask"]]
    /\ UNCHANGED <<fileVars, now, edits, faults>>
-----------------------------------------------------------------------------
(* The store: what is done with the mutex held. *)

\* A last line that is not complete cannot be decoded.
Unreadable == file # NoFile /\ file.torn /\ file.tag # mem.tag

\* Mutation: only the size is compared.
LoadedBySize ==
    CASE file = NoFile -> Reset
      [] file # NoFile /\ mem.tag # NoStamp /\ file.tag[1] = mem.tag[1] -> mem
      [] Unreadable -> Reset
      [] OTHER -> [tokens |-> file.tokens, tag |-> file.tag]

\* load: memory is kept if the file has the size and date it had.
Loaded == CASE file = NoFile -> Reset
            [] file # NoFile /\ file.tag = mem.tag -> mem
            [] Unreadable -> Reset
            [] OTHER -> [tokens |-> file.tokens, tag |-> file.tag]

\* A new version of the file, of which memory records the tag.
Store(tokens) ==
    /\ NewDate
    /\ file' = Version(tokens, FALSE, clock')
    /\ mem' = [tokens |-> tokens, tag |-> file'.tag]

\* The tokens in the file.
InFile == IF file = NoFile THEN None ELSE file.tokens

\* rewrite: a temporary file is renamed over the old one, or the file is
\* removed when no tokens are left, and its date remembered.
Rewrite(tokens) ==
    IF tokens = None
    THEN /\ file' = NoFile
         /\ mem' = [tokens |-> None, tag |-> Loaded.tag]
         /\ UNCHANGED clock
    ELSE Store(tokens)

\* add: append to the file as it is.  (Memory may lack tokens that expired
\* long ago, see Expire.)
Add(t, x) ==
    /\ NewDate
    /\ file' = Version([InFile EXCEPT ![t] = x], FALSE, clock')
    /\ mem' = [tokens |-> [Loaded.tokens EXCEPT ![t] = x], tag |-> file'.tag]

\* add, when the disk is full or the server is killed: part of a line, which is
\* not yet a token.
Tear == /\ NewDate
        /\ file' = Version(InFile, TRUE, clock')
        /\ mem' = Loaded

\* Mutation: the tag is not compared.
UpdateUntagged(t, x, tag) ==
    /\ ~Unreadable
    /\ IF Loaded.tokens[t] # NoToken
       THEN Rewrite([Loaded.tokens EXCEPT ![t] = x])
       ELSE Add(t, x)

\* state.Update, when it succeeds: the token must have the tag the caller
\* knows, or not exist if the caller knows of none.
Update(t, x, tag) ==
    /\ ~Unreadable
    /\ IF Loaded.tokens[t] # NoToken
       THEN tag = Loaded.tag /\ Rewrite([Loaded.tokens EXCEPT ![t] = x])
       ELSE tag = NoStamp /\ Add(t, x)

\* state.Delete, when it succeeds.
Delete(t, tag) ==
    /\ ~Unreadable
    /\ Loaded.tokens[t] # NoToken
    /\ tag = Loaded.tag
    /\ Rewrite([Loaded.tokens EXCEPT ![t] = NoToken])

\* An operation that only reads.
Read == mem' = Loaded /\ UNCHANGED <<file, clock, used>>

\* The tag of a token, or the empty tag.
Tagged(t) == IF Loaded.tokens[t] = NoToken THEN NoStamp ELSE Loaded.tag

\* state.Expire, which the main program's ticker calls.
Expire ==
    LET dead == {t \in Tokens : LongExpired(Loaded.tokens[t])}
        left == [t \in Tokens |-> IF t \in dead THEN NoToken
                                  ELSE Loaded.tokens[t]]
    IN /\ ~Unreadable
       /\ IF dead = {} THEN Read ELSE Rewrite(left) /\ UNCHANGED used

\* The rewrite fails; what was deleted from memory is not put back.
ExpireFails ==
    /\ ~Unreadable
    /\ mem' = [Loaded EXCEPT !.tokens =
                  [t \in Tokens |-> IF LongExpired(@[t]) THEN NoToken ELSE @[t]]]
    /\ UNCHANGED <<file, clock, used>>

PeriodicExpiry == Expire /\ UNCHANGED <<call, restVars>>

PeriodicExpiryFails ==
    /\ faults < MaxFaults
    /\ faults' = faults + 1
    /\ ExpireFails
    /\ UNCHANGED <<call, now, edits, budget>>
-----------------------------------------------------------------------------
(* The handlers. *)

\* Whether the operation of the store succeeds or not, memory is up to date.
Fails(c) == Read /\ Goto(c, "failed")

\* tokensHandler's GET of a token, the first request of an update.
GetToken(c) ==
    /\ call[c].pc = "get"
    /\ LET m == call[c].cmd
           t == m.on[2]
       IN CASE m.on = TokenList ->
                  Read /\ Goto(c, IF Unreadable THEN "failed" ELSE "done")
            [] m.on # TokenList /\ (Unreadable \/ Loaded.tokens[t] = NoToken) ->
                  Fails(c)
            [] OTHER ->
                  /\ Read
                  /\ call' = [call EXCEPT
                        ![c].pc = IF m.method = "GET" THEN "done" ELSE "ask",
                        ![c].tag = IF m.method = "GET" THEN @ ELSE Loaded.tag,
                        ![c].old = IF m.method = "GET" THEN @
                                   ELSE Loaded.tokens[t]]
    /\ UNCHANGED restVars

\* tokensHandler's POST, and maketoken: a new name, drawn at random.
PostToken(c) ==
    /\ call[c].pc = "ask" /\ call[c].cmd.method = "POST"
    /\ \/ \E t \in Tokens \ used :
            /\ Update(t, call[c].cmd.set, NoStamp)
            /\ used' = used \cup {t}
            /\ Goto(c, "reply")
       \/ Fails(c)
    /\ UNCHANGED restVars

\* The write fails after part of the line.
PostTears(c) ==
    /\ call[c].pc = "ask" /\ call[c].cmd.method = "POST"
    /\ faults < MaxFaults
    /\ ~Unreadable
    /\ Tear
    /\ faults' = faults + 1
    /\ Goto(c, "failed")
    /\ UNCHANGED <<used, now, edits, budget>>

\* tokensHandler, PUT and DELETE up to the preconditions: token.Get, and the
\* comparison of its tag with the one that the program was given.  (A PUT of
\* a token that does not exist dereferences nil, which ends the request.)
CheckToken(c) ==
    LET m == call[c].cmd
        t == m.on[2]
        matches == m.match = "seen" => Tagged(t) = call[c].tag
    IN /\ call[c].pc = "ask" /\ m.method \in {"PUT", "DELETE"}
       /\ IF Unreadable \/ Loaded.tokens[t] = NoToken \/ ~matches
          THEN Fails(c)
          ELSE /\ Read
               /\ call' = [call EXCEPT ![c].pc = "commit",
                                       ![c].tag = Loaded.tag]
       /\ UNCHANGED restVars

\* edittoken gets the token on the server.
EditGets(c) ==
    /\ call[c].pc = "ask" /\ call[c].cmd.method = "EDIT"
    /\ LET t == call[c].cmd.on[2]
       IN IF Unreadable \/ Loaded.tokens[t] = NoToken
          THEN Fails(c)
          ELSE /\ Read
               /\ call' = [call EXCEPT ![c].pc = "commit",
                                       ![c].tag = Loaded.tag,
                                       ![c].old = Loaded.tokens[t]]
    /\ UNCHANGED restVars

\* token.Update or token.Delete with the tag that was checked; updates send
\* the token as it was, with the changes.
Commit(c) ==
    /\ call[c].pc = "commit"
    /\ LET m == call[c].cmd
           t == m.on[2]
           x == [perms |-> Given(m.set.perms, call[c].old.perms),
                 expires |-> Given(m.set.expires, call[c].old.expires)]
       IN \/ /\ IF m.method = "DELETE" THEN Delete(t, call[c].tag)
                                       ELSE Update(t, x, call[c].tag)
             /\ Goto(c, "reply")
             /\ UNCHANGED used
          \/ Fails(c)
    /\ UNCHANGED restVars

\* The answer to a change, or the message with the token, reaches the caller,
\* unless the connection breaks first.
Answer(c) ==
    /\ call[c].pc = "reply"
    /\ \E pc \in {"done", "failed"} : Goto(c, pc)
    /\ UNCHANGED <<fileVars, restVars>>

\* A client joins with a token: Get, and Check of the token it returned.
CheckUse(c) ==
    /\ call[c].pc = "ask" /\ call[c].cmd.method = "USE"
    /\ LET x == Loaded.tokens[call[c].cmd.on[2]]
       IN Goto(c, IF Unreadable \/ x = NoToken \/ Expired(x) THEN "failed"
                                                           ELSE "done")
    /\ Read
    /\ UNCHANGED restVars
-----------------------------------------------------------------------------
(* The rest of the world. *)

\* Somebody edits the file, or restores a backup of it.
Edit ==
    /\ edits < MaxEdits
    /\ edits' = edits + 1
    /\ NewDate
    /\ \E t \in Tokens, x \in Token \cup {NoToken} :
         /\ file' = Version([InFile EXCEPT ![t] = x], FALSE, clock')
         /\ used' = used \cup {t}
    /\ UNCHANGED <<mem, call, now, faults, budget>>

Tick == /\ now < MaxTime
        /\ now' = now + 1
        /\ UNCHANGED <<fileVars, call, edits, faults, budget>>

\* The server stops and starts again.  Nobody who waits gets an answer, even if
\* the change was made.
Restart ==
    /\ mem' = Reset
    /\ call' = [c \in Callers |->
                  IF call[c].pc \in {"done", "failed"} THEN call[c]
                  ELSE [call[c] EXCEPT !.pc = "failed"]]
    /\ UNCHANGED <<file, clock, used, restVars>>

Next == \/ \E c \in Callers : \/ Start(c)
                              \/ GetToken(c)
                              \/ PostToken(c)
                              \/ PostTears(c)
                              \/ CheckToken(c)
                              \/ EditGets(c)
                              \/ Commit(c)
                              \/ Answer(c)
                              \/ CheckUse(c)
        \/ PeriodicExpiry
        \/ PeriodicExpiryFails
        \/ Edit
        \/ Tick
        \/ Restart

Spec == Init /\ [][Next]_vars
-----------------------------------------------------------------------------
TypeOK ==
    /\ file \in [tokens : [Tokens -> Token \cup {NoToken}],
                 tag : Nat \X (1..clock), torn : BOOLEAN] \cup {NoFile}
    /\ mem \in [tokens : [Tokens -> Token \cup {NoToken}],
                tag : (Nat \X (1..clock)) \cup {NoStamp}]
    /\ clock \in Nat
    /\ now \in 1..(MaxTime + 1)
    /\ used \subseteq Tokens
    /\ call \in [Callers -> [pc : {"get", "ask", "commit", "reply", "done",
                                   "failed"},
                             cmd : Commands \cup {ListTokens},
                             tag : (Nat \X (1..clock)) \cup {NoStamp},
                             old : Token \cup {NoToken}]]
    /\ edits \in 0..MaxEdits
    /\ faults \in 0..MaxFaults
    /\ budget \in 0..MaxBudget

(* Memory that is taken to be current agrees with the file about every token
   that did not expire long ago, whatever was edited by hand, torn or written
   in between: load may skip the file when size and date are the same. *)
InSync ==
    file # NoFile /\ mem.tag = file.tag =>
        \A t \in Tokens : \/ mem.tokens[t] = file.tokens[t]
                          \/ /\ LongExpired(file.tokens[t])
                             /\ mem.tokens[t] = NoToken

(* Operations on tokens are atomic and durable: what is acknowledged was done
   to the file, at a single moment before, what fails has no effect unless
   only its answer was lost, and no edit is lost between the Get and the
   Update of a handler or a program. *)
Atomic == INSTANCE TokenRegister
          WITH tokens <- InFile,
               running <- [c \in Callers |-> call[c].cmd],
               status <- [c \in Callers |->
                            IF call[c].pc \in {"done", "failed"} THEN call[c].pc
                            ELSE IF call[c].pc = "reply" THEN "applied"
                            ELSE "running"]

AtomicTokens == Atomic!Spec
=============================================================================
