---------------------------- MODULE MCTokenStore ----------------------------
(* Two callers and two names; tokens have expired or are about to. *)
EXTENDS TokenStore, TLC, FiniteSets

CONSTANTS c1, c2, t1, t2, message, present

MCCallers == {c1, c2}
CallerSymmetry == Permutations(MCCallers)

MCTokens == {t1, t2}
MCTimes == {0, 1}
MCTokenPerms == {message, present}

MCInitialTokens ==
    {(t1 :> [perms |-> message, expires |-> 1]) @@ (t2 :> NoToken)}

\* Tokens have records of the same length, except for the damaged one.
MCSize(tokens, torn) == 2 * Cardinality({t \in Tokens : tokens[t] # NoToken})
                        + (IF torn THEN 1 ELSE 0)

MCCommands ==
    {CreateTokenCmd(message, 1), MakeToken(present, 1),
     UpdateTokenCmd(t1, present, NoChange), RevokeTokenCmd(t1),
     DeleteTokenCmd(t1), DeleteSeen(TokenNamed(t1)),
     EditToken(t1, 1), UseToken(t1)} \cup ListTokensCmd({t1})
=============================================================================
