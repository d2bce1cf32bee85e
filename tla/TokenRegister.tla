---------------------------- MODULE TokenRegister ----------------------------
(***************************************************************************)
(* What the store of tokens promises: every operation takes effect at a    *)
(* single moment on the tokens there are at that moment, and is either     *)
(* acknowledged or without effect, unless only the acknowledgement is      *)
(* lost; what is acknowledged is on disk.                                  *)
(* Tokens that expired more than a week ago may vanish.                    *)
(***************************************************************************)
EXTENDS Galenectl

CONSTANTS Callers, Tokens, Commands, NoToken, Week

VARIABLES tokens,       \* the token of each name, or NoToken
          now,          \* the date
          edits,        \* how often an administrator has edited the file
          running,      \* the command of each caller
          status        \* and what became of it: running, applied but not
                        \* yet acknowledged, done or failed

vars == <<tokens, now, edits, running, status>>

Token == [perms : TokenPerms, expires : Nat]

Expired(x) == x # NoToken /\ x.expires < now

LongExpired(x) == x # NoToken /\ x.expires + Week < now

Init == /\ tokens \in [Tokens -> Token \cup {NoToken}]
        /\ now = 1
        /\ edits = 0
        /\ running = [c \in Callers |-> GetJSON(TokenList)]
        /\ status = [c \in Callers |-> "done"]

Begin(c) == /\ status[c] \in {"done", "failed"}
            /\ \E m \in Commands : running' = [running EXCEPT ![c] = m]
            /\ status' = [status EXCEPT ![c] = "running"]
            /\ UNCHANGED <<tokens, now, edits>>

\* What does not change stays, except for tokens that expired long ago.
Becomes(t, x) ==
    /\ tokens'[t] = x
    /\ \A s \in Tokens \ {t} :
         \/ tokens'[s] = tokens[s]
         \/ LongExpired(tokens[s]) /\ tokens'[s] = NoToken
    /\ tokens' \in [Tokens -> Token \cup {NoToken}]

Given(new, old) == IF new = NoChange THEN old ELSE new

Effect(m) ==
    \/ m.method = "GET" /\ UNCHANGED tokens
    \/ /\ m.method = "POST"
       /\ \E t \in Tokens : tokens[t] = NoToken /\ Becomes(t, m.set)
    \/ \E t \in Tokens :
         /\ m.on = TokenNamed(t) /\ tokens[t] # NoToken
         /\ \/ /\ m.method \in {"PUT", "EDIT"}
               /\ Becomes(t, [perms |-> Given(m.set.perms, tokens[t].perms),
                              expires |-> Given(m.set.expires,
                                                tokens[t].expires)])
            \/ m.method = "DELETE" /\ Becomes(t, NoToken)
            \/ m.method = "USE" /\ ~Expired(tokens[t]) /\ UNCHANGED tokens

Perform(c) == /\ status[c] = "running"
              /\ Effect(running[c])
              /\ \E s \in {"applied", "done"} : status' = [status EXCEPT ![c] = s]
              /\ UNCHANGED <<now, edits, running>>

\* The acknowledgement of what was done arrives, or is lost.
Answer(c) == /\ status[c] = "applied"
             /\ \E s \in {"done", "failed"} : status' = [status EXCEPT ![c] = s]
             /\ UNCHANGED <<tokens, now, edits, running>>

Fail(c) == /\ status[c] = "running"
           /\ status' = [status EXCEPT ![c] = "failed"]
           /\ UNCHANGED <<tokens, now, edits, running>>

FailAll == /\ status' = [c \in Callers |-> IF status[c] \in {"running", "applied"}
                                           THEN "failed" ELSE status[c]]
           /\ UNCHANGED <<tokens, now, edits, running>>

\* The periodic expiry.
Expire == /\ tokens' \in [Tokens -> Token \cup {NoToken}]
          /\ \A t \in Tokens : \/ tokens'[t] = tokens[t]
                               \/ LongExpired(tokens[t]) /\ tokens'[t] = NoToken
          /\ UNCHANGED <<now, edits, running, status>>

\* An administrator restores or edits the file.
Edit == /\ tokens' \in [Tokens -> Token \cup {NoToken}]
        /\ edits' = edits + 1
        /\ UNCHANGED <<now, running, status>>

Tick == now' = now + 1 /\ UNCHANGED <<tokens, edits, running, status>>

Next == \/ \E c \in Callers : Begin(c) \/ Perform(c) \/ Answer(c) \/ Fail(c)
        \/ FailAll \/ Expire \/ Edit \/ Tick

Spec == Init /\ [][Next]_vars
=============================================================================
