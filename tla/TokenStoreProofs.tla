-------------------------- MODULE TokenStoreProofs --------------------------
(* The store of tokens keeps its promises for any number of callers, tokens,
   commands, edits by hand, failed writes and restarts. *)
EXTENDS TokenStore, TLAPS

Contents == [Tokens -> Token \cup {NoToken}]

\* The tags of versions up to a date.
Stamps(n) == Nat \X (1..n)

Memories(n) == [tokens : Contents, tag : Stamps(n) \cup {NoStamp}]

Calls(n) == [pc : {"get", "ask", "commit", "reply", "done", "failed"},
             cmd : Commands \cup {ListTokens},
             tag : Stamps(n) \cup {NoStamp},
             old : Token \cup {NoToken}]

Changes == [perms : TokenPerms \cup {NoChange}, expires : Times \cup {NoChange}]

\* What the commands of galenectl and the messages of members may ask for.
WellFormed(m) ==
    /\ m \in [reads : BOOLEAN, match : {"any", "seen"}, set : Changes \cup {NoChange},
              method : {"GET", "POST", "PUT", "DELETE", "EDIT", "USE"},
              on : {TokenList} \cup {TokenNamed(t) : t \in Tokens}]
    /\ m.method = "POST" => m.set \in Token
    /\ m.method \in {"PUT", "EDIT"} => m.set \in Changes
    /\ m.method \in {"PUT", "EDIT", "DELETE", "USE"} => m.on # TokenList
    /\ m.method = "PUT" => m.reads /\ m.match = "seen"
    /\ m.reads => m.method \in {"GET", "PUT", "DELETE"}

\* A token and the list of them are told apart.
LEMMA Kinds ==
    /\ \A t : TokenNamed(t)[1] = "token" /\ TokenNamed(t)[2] = t
    /\ \A t : TokenNamed(t) # TokenList
    /\ \A s, t : TokenNamed(s) = TokenNamed(t) => s = t
  BY DEF TokenNamed, TokenList

\* Every command that anyone may use makes sense.
LEMMA CommandsWellFormed ==
    ASSUME NEW m \in Commands \cup {ListTokens}
    PROVE  WellFormed(m)
<1>1. /\ \A p \in TokenPerms \cup {NoChange}, x \in Times \cup {NoChange} :
            TokenBody(p, x) \in Changes
      /\ \A p \in TokenPerms, x \in Times : TokenBody(p, x) \in Token
      /\ 0 \in Times
  BY TokensAssumption DEF TokenBody, Changes, Token
<1>2. ASSUME NEW p \in TokenPerms, NEW x \in Times, m = CreateTokenCmd(p, x)
      PROVE  WellFormed(m)
  BY <1>1, <1>2 DEF WellFormed, CreateTokenCmd, Command
<1>3. ASSUME NEW t \in Tokens, NEW c \in Changes, m = UpdateJSON(TokenNamed(t), c)
      PROVE  WellFormed(m)
  BY <1>3, Kinds DEF WellFormed, UpdateJSON, Command
<1>4. ASSUME NEW t \in Tokens,
             m = DeleteTokenCmd(t) \/ m = DeleteSeen(TokenNamed(t)) \/ m = UseToken(t)
      PROVE  WellFormed(m)
  <2>1. \E reads \in BOOLEAN, method \in {"DELETE", "USE"}, match \in {"any", "seen"} :
           /\ m = Command(reads, method, TokenNamed(t), match, NoChange)
           /\ reads => method = "DELETE"
    BY <1>4 DEF DeleteTokenCmd, DeleteSeen, UseToken, DeleteValue
  <2> QED
    BY <2>1, Kinds DEF WellFormed, Command
<1>5. ASSUME NEW t \in Tokens, NEW x \in Times \cup {NoChange}, m = EditToken(t, x)
      PROVE  WellFormed(m)
  BY <1>1, <1>5, Kinds DEF WellFormed, EditToken, Command
<1>6. ASSUME m \in ListTokensCmd(Tokens) \cup {ListTokens} PROVE WellFormed(m)
  <2>1. \E on \in {TokenList} \cup {TokenNamed(t) : t \in Tokens} :
           m = Command(TRUE, "GET", on, "any", NoChange)
    BY <1>6 DEF ListTokensCmd, ListTokens, GetJSON
  <2> QED
    BY <2>1 DEF WellFormed, Command
<1>7. m \in TokenCommands \cup {ListTokens}
  BY TokensAssumption
<1>8. NoChange \in Times \cup {NoChange} /\ NoChange \in TokenPerms \cup {NoChange}
  OBVIOUS
<1>9. ASSUME NEW t \in Tokens, NEW p \in TokenPerms \cup {NoChange},
             NEW x \in Times \cup {NoChange},
             m = UpdateTokenCmd(t, p, x) \/ m = RevokeTokenCmd(t)
      PROVE  WellFormed(m)
  BY <1>1, <1>3, <1>8, <1>9 DEF UpdateTokenCmd, RevokeTokenCmd
<1> QED
  BY <1>2, <1>4, <1>5, <1>6, <1>7, <1>8, <1>9 DEF TokenCommands
-----------------------------------------------------------------------------
(* The invariant. *)

\* What is in the file has a name that was used.
Named == file # NoFile => \A t \in Tokens : file.tokens[t] # NoToken => t \in used

\* A file whose end is damaged is never taken to be what is in memory.
Whole == file # NoFile /\ file.torn => mem.tag # file.tag

\* A request that changes a token it was given before.
Updating(r) == \/ r.pc = "ask" /\ r.cmd.method = "PUT"
               \/ r.pc = "commit" /\ r.cmd.method # "DELETE"

\* It has a token and a tag, and if the file still has that tag then the file
\* still has that token.
Right(r) ==
    Updating(r) =>
        /\ r.old # NoToken
        /\ r.tag # NoStamp
        /\ file # NoFile /\ file.tag = r.tag => file.tokens[r.cmd.on[2]] = r.old

\* A request does what its command asks for.
Ready(r) == /\ r.pc = "get" => r.cmd.reads
            /\ r.pc = "commit" => r.cmd.method \in {"PUT", "DELETE", "EDIT"}

Informed == \A c \in Callers : Right(call[c]) /\ Ready(call[c])

IInv == Precise /\ TypeOK /\ InSync /\ Named /\ Whole /\ Informed

\* A tag is never the empty one.
LEMMA StampsType ==
    ASSUME NEW n \in Nat, NEW stamp \in Stamps(n)
    PROVE  stamp \in Tags /\ stamp # NoStamp /\ stamp[2] \in 1..n
<1>1. stamp \in Tags /\ stamp[2] \in 1..n
  BY DEF Stamps, Tags
<1> QED
  BY <1>1, TokensAssumption

\* A new version of the file is one, and has a tag that no version had before.
LEMMA NewVersion ==
    ASSUME Precise, clock \in Nat, NewDate, NEW f \in Contents,
           NEW torn \in BOOLEAN, file' = Version(f, torn, clock')
    PROVE  /\ clock' \in Nat /\ clock <= clock'
           /\ file' \in Files /\ file' # NoFile
           /\ file'.tokens = f /\ file'.torn = torn
           /\ file'.tag \in Stamps(clock') /\ file'.tag[2] > clock
           /\ file'.tag \notin Stamps(clock) /\ file'.tag # NoStamp
<1>1. clock' = clock + 1
  BY DEF NewDate
<1>2. Size(f, torn) \in Nat
  BY TokensAssumption DEF Contents
<1>3. file'.tokens = f /\ file'.torn = torn /\ file'.tag = <<Size(f, torn), clock'>>
  BY DEF Version
<1>4. <<Size(f, torn), clock'>> \in Stamps(clock')
  BY <1>1, <1>2 DEF Stamps
<1>5. file' \in Files
  BY <1>1, <1>2 DEF Version, Files, Tags, Contents
<1>6. file'.tag[2] = clock + 1
  BY <1>1, <1>3
<1>7. file'.tag \notin Stamps(clock)
  BY <1>6 DEF Stamps
<1> QED
  BY <1>1, <1>3, <1>4, <1>5, <1>6, <1>7, StampsType, TokensAssumption

\* What the invariant says of the store.
LEMMA StoreType ==
    ASSUME IInv
    PROVE  /\ file # NoFile => /\ file \in Files /\ file.tag \in Stamps(clock)
                               /\ file.tag # NoStamp /\ file.tag[2] \in 1..clock
                               /\ file.tokens \in Contents
           /\ mem \in Memories(clock)
           /\ clock \in Nat
           /\ call \in [Callers -> Calls(clock)]
           /\ InFile \in Contents
           /\ None \in Contents
           /\ Reset \in Memories(clock)
<1>1. None \in Contents
  BY DEF None, Contents
<1>2. mem \in Memories(clock) /\ clock \in Nat /\ call \in [Callers -> Calls(clock)]
  BY DEF IInv, TypeOK, Memories, Contents, Calls, Stamps
<1>3. ASSUME file # NoFile
      PROVE  /\ file \in Files /\ file.tag \in Stamps(clock)
             /\ file.tokens \in Contents
  <2>1. file \in [tokens : Contents, tag : Stamps(clock), torn : BOOLEAN]
    BY <1>3 DEF IInv, TypeOK, Contents, Stamps
  <2>2. file.tag \in Tags
    BY <1>2, <2>1, StampsType
  <2> QED
    BY <2>1, <2>2 DEF Files, Contents
<1> QED
  BY <1>1, <1>2, <1>3, StampsType DEF InFile, Reset, Memories

\* What a caller asks for is well-formed.
LEMMA CallsWellFormed ==
    ASSUME IInv, NEW c \in Callers
    PROVE  call[c] \in Calls(clock) /\ WellFormed(call[c].cmd)
  BY StoreType, CommandsWellFormed DEF Calls

\* load: what is in memory afterwards is what is in the file, except for tokens
\* that expired long ago; nothing, if the file cannot be read.
LEMMA LoadedFaithful ==
    ASSUME IInv
    PROVE  /\ Loaded \in Memories(clock)
           /\ Unreadable <=> file # NoFile /\ file.torn
           /\ ~Unreadable =>
                \A t \in Tokens :
                   \/ Loaded.tokens[t] = InFile[t]
                   \/ LongExpired(InFile[t]) /\ Loaded.tokens[t] = NoToken
           /\ file # NoFile => IF Unreadable THEN Loaded = Reset
                               ELSE Loaded.tag = file.tag
           /\ file = NoFile => Loaded = Reset
           /\ \A t \in Tokens :
                Loaded.tokens[t] # NoToken =>
                   /\ file # NoFile /\ ~Unreadable /\ Loaded.tag = file.tag
                   /\ InFile[t] = Loaded.tokens[t]
<1>1. Unreadable <=> file # NoFile /\ file.torn
  BY DEF IInv, Whole, Unreadable
<1>2. Reset \in Memories(clock) /\ \A t \in Tokens : Reset.tokens[t] = NoToken
  BY StoreType DEF Reset, None
<1>3. CASE file = NoFile
  <2>1. Loaded = Reset /\ InFile = None
    BY <1>3 DEF Loaded, InFile
  <2> QED
    BY <1>1, <1>2, <1>3, <2>1 DEF Reset
<1>4. CASE Unreadable
  <2>1. file # NoFile /\ file.tag # mem.tag
    BY <1>4 DEF Unreadable
  <2>2. Loaded = Reset
    BY <1>4, <2>1 DEF Loaded
  <2> QED
    BY <1>1, <1>2, <1>4, <2>1, <2>2
<1>5. CASE file # NoFile /\ ~Unreadable /\ file.tag = mem.tag
  <2>1. Loaded = mem /\ InFile = file.tokens
    BY <1>5 DEF Loaded, InFile
  <2>2. \A t \in Tokens : \/ mem.tokens[t] = file.tokens[t]
                          \/ LongExpired(file.tokens[t]) /\ mem.tokens[t] = NoToken
    BY <1>5 DEF IInv, InSync
  <2> QED
    BY <1>1, <1>5, <2>1, <2>2, StoreType
<1>6. CASE file # NoFile /\ ~Unreadable /\ file.tag # mem.tag
  <2>1. Loaded = [tokens |-> file.tokens, tag |-> file.tag] /\ InFile = file.tokens
    BY <1>6 DEF Loaded, InFile
  <2>2. Loaded \in Memories(clock)
    BY <1>6, <2>1, StoreType DEF Memories
  <2> QED
    BY <1>1, <1>6, <2>1, <2>2
<1> QED
  BY <1>3, <1>4, <1>5, <1>6
-----------------------------------------------------------------------------
(* The operations of the store. *)

\* What every one of them does: what is new has a new tag, memory and file
\* agree when they have the same tag, and a damaged file is told from memory.
Sound ==
    /\ clock' \in Nat /\ clock <= clock'
    /\ file' # NoFile => /\ file' \in Files /\ file'.tag \in Stamps(clock')
                         /\ file' = file \/ file'.tag[2] > clock
    /\ mem' \in Memories(clock')
    /\ InSync' /\ Whole'

\* What there may be at a date there may be later.
LEMMA MemoriesGrow ==
    ASSUME NEW m \in Nat, NEW n \in Nat, m <= n
    PROVE  /\ Stamps(m) \subseteq Stamps(n)
           /\ Memories(m) \subseteq Memories(n) /\ Calls(m) \subseteq Calls(n)
<1>1. Stamps(m) \subseteq Stamps(n)
  BY DEF Stamps
<1> QED
  BY <1>1 DEF Memories, Calls

\* Memory agrees with the file, or with nothing.
LEMMA ReadSound ==
    ASSUME IInv, UNCHANGED <<file, clock, now>>,
           mem' \in {mem, Loaded, Reset}
    PROVE  Sound
<1>1. CASE mem' = mem
  <2>1. InSync' /\ Whole'
    BY <1>1 DEF IInv, InSync, Whole, LongExpired
  <2> QED
    BY <1>1, <2>1, StoreType DEF Sound
<1>2. CASE mem' = Reset
  <2>1. file # NoFile => mem'.tag # file.tag
    BY <1>2, StoreType, TokensAssumption DEF Reset
  <2>2. InSync' /\ Whole'
    BY <2>1 DEF InSync, Whole
  <2> QED
    BY <1>2, <2>2, StoreType DEF Sound
<1>3. CASE mem' = Loaded /\ Loaded # Reset
  <2>1. file # NoFile /\ ~Unreadable
    BY <1>3, LoadedFaithful
  <2>2. InFile = file.tokens
    BY <2>1 DEF InFile
  <2>3. InSync'
    BY <1>3, <2>1, <2>2, LoadedFaithful DEF InSync, LongExpired
  <2>4. Whole'
    BY <2>1, LoadedFaithful DEF Whole
  <2> QED
    BY <1>3, <2>3, <2>4, LoadedFaithful, StoreType DEF Sound
<1> QED
  BY <1>1, <1>2, <1>3

\* rewrite puts the tokens into the file and into memory.
LEMMA RewriteSound ==
    ASSUME IInv, NEW tokens \in Contents, Rewrite(tokens), now' = now
    PROVE  Sound /\ InFile' = tokens
<1>1. CASE tokens = None
  <2>1. file' = NoFile /\ clock' = clock
        /\ mem' = [tokens |-> None, tag |-> Loaded.tag]
    BY <1>1 DEF Rewrite
  <2>2. mem' \in Memories(clock)
    BY <2>1, LoadedFaithful, StoreType DEF Memories
  <2>3. InSync' /\ Whole'
    BY <2>1 DEF InSync, Whole
  <2> QED
    BY <1>1, <2>1, <2>2, <2>3, StoreType DEF Sound, InFile, None
<1>2. CASE tokens # None
  <2>1. /\ NewDate /\ file' = Version(tokens, FALSE, clock')
        /\ mem' = [tokens |-> tokens, tag |-> file'.tag]
    BY <1>2 DEF Rewrite, Store
  <2>2. /\ clock' \in Nat /\ clock <= clock' /\ file' \in Files /\ file' # NoFile
        /\ file'.tokens = tokens /\ ~file'.torn
        /\ file'.tag \in Stamps(clock') /\ file'.tag[2] > clock
    BY <2>1, StoreType, NewVersion DEF IInv
  <2>3. mem' \in Memories(clock')
    BY <2>1, <2>2 DEF Memories
  <2>4. InSync' /\ Whole'
    BY <2>1, <2>2 DEF InSync, Whole
  <2>5. Sound
    BY <2>2, <2>3, <2>4 DEF Sound
  <2> QED
    BY <2>2, <2>5 DEF InFile
<1> QED
  BY <1>1, <1>2

\* add appends a token to the file, and to memory.
LEMMA AddSound ==
    ASSUME IInv, NEW t \in Tokens, NEW x \in Token, ~Unreadable, Add(t, x),
           now' = now
    PROVE  Sound /\ InFile' = [InFile EXCEPT ![t] = x]
<1> DEFINE new == [InFile EXCEPT ![t] = x]
           held == [Loaded.tokens EXCEPT ![t] = x]
<1>1. /\ NewDate /\ file' = Version(new, FALSE, clock')
      /\ mem' = [tokens |-> held, tag |-> file'.tag]
  BY DEF Add
<1>2. new \in Contents /\ held \in Contents
  BY StoreType, LoadedFaithful DEF Contents, Memories
<1> HIDE DEF new, held
<1>3. /\ clock' \in Nat /\ clock <= clock' /\ file' \in Files /\ file' # NoFile
      /\ file'.tokens = new /\ ~file'.torn
      /\ file'.tag \in Stamps(clock') /\ file'.tag[2] > clock
  BY <1>1, <1>2, StoreType, NewVersion DEF IInv
<1>4. mem' \in Memories(clock')
  BY <1>1, <1>2, <1>3 DEF Memories
<1>6. ASSUME NEW s \in Tokens
      PROVE  held[s] = new[s] \/ (LongExpired(new[s]) /\ held[s] = NoToken)
  <2>1. Loaded.tokens \in Contents /\ InFile \in Contents
    BY StoreType, LoadedFaithful DEF Memories
  <2>2. held[s] = (IF s = t THEN x ELSE Loaded.tokens[s])
        /\ new[s] = (IF s = t THEN x ELSE InFile[s])
    BY <2>1 DEF Contents, new, held
  <2>3. \/ Loaded.tokens[s] = InFile[s]
        \/ LongExpired(InFile[s]) /\ Loaded.tokens[s] = NoToken
    BY LoadedFaithful
  <2> QED
    BY <2>2, <2>3 DEF LongExpired
<1>7. InSync' /\ Whole'
  BY <1>1, <1>3, <1>6 DEF InSync, Whole, LongExpired
<1>8. Sound
  BY <1>3, <1>4, <1>7 DEF Sound
<1>9. InFile' = new
  BY <1>3 DEF InFile
<1> QED
  BY <1>8, <1>9 DEF new

\* A line that is cut short adds no token, and gives the file a tag that memory
\* does not have.
LEMMA TearSound ==
    ASSUME IInv, Tear, now' = now
    PROVE  Sound /\ InFile' = InFile
<1>1. /\ NewDate /\ file' = Version(InFile, TRUE, clock')
      /\ mem' = Loaded
  BY DEF Tear
<1>2. /\ clock' \in Nat /\ clock <= clock' /\ file' \in Files /\ file' # NoFile
      /\ file'.tokens = InFile
      /\ file'.tag \in Stamps(clock') /\ file'.tag[2] > clock
      /\ file'.tag \notin Stamps(clock) /\ file'.tag # NoStamp
  BY <1>1, StoreType, NewVersion DEF IInv
<1>3. mem' \in Memories(clock') /\ mem'.tag # file'.tag
  BY <1>1, <1>2, MemoriesGrow, LoadedFaithful, StoreType DEF Memories
<1>4. InSync' /\ Whole'
  BY <1>3 DEF InSync, Whole
<1>5. Sound
  BY <1>2, <1>3, <1>4 DEF Sound
<1> QED
  BY <1>2, <1>5 DEF InFile

\* Tokens that expired long ago may be missing in memory.
LEMMA ExpireFailsSound ==
    ASSUME IInv, ExpireFails, now' = now
    PROVE  Sound /\ InFile' = InFile
<1> DEFINE left == [t \in Tokens |-> IF LongExpired(Loaded.tokens[t])
                                     THEN NoToken ELSE Loaded.tokens[t]]
<1>1. ~Unreadable /\ UNCHANGED <<file, clock>>
  BY DEF ExpireFails
<1>2. /\ Loaded \in Memories(clock)
      /\ \A t \in Tokens : \/ Loaded.tokens[t] = InFile[t]
                           \/ LongExpired(InFile[t]) /\ Loaded.tokens[t] = NoToken
  BY <1>1, LoadedFaithful
<1>3. mem' = [Loaded EXCEPT !.tokens = left]
  <2>1. \A t \in Tokens : Loaded.tokens[t] = Loaded.tokens[t]
    OBVIOUS
  <2> QED
    BY <1>2 DEF ExpireFails, Memories
<1>4. left \in Contents
  BY <1>2 DEF Memories, Contents
<1>5. mem'.tokens = left /\ mem'.tag = Loaded.tag /\ mem' \in Memories(clock)
  BY <1>2, <1>3, <1>4 DEF Memories
<1>6. ASSUME file # NoFile PROVE InFile = file.tokens /\ mem'.tag = file.tag
  BY <1>1, <1>5, <1>6, LoadedFaithful DEF InFile
<1>7. InSync'
  BY <1>1, <1>2, <1>5, <1>6 DEF InSync, LongExpired
<1>8. Whole'
  BY <1>1, LoadedFaithful DEF Whole
<1> QED
  BY <1>1, <1>5, <1>7, <1>8, StoreType DEF Sound, InFile
-----------------------------------------------------------------------------
(* The callers. *)

\* The call of c becomes r; what r knows of the file it knows before.
Becoming(c, r) ==
    /\ call' = [call EXCEPT ![c] = r]
    /\ r \in Calls(clock)
    /\ Right(r) /\ Ready(r)

\* What a caller knows of a version of the file stays true of that version.
LEMMA CallsSound ==
    ASSUME IInv, Sound,
           call' = call \/ \E c \in Callers, r \in Calls(clock) : Becoming(c, r)
    PROVE  call' \in [Callers -> Calls(clock')] /\ Informed'
<1>1. Calls(clock) \subseteq Calls(clock')
  BY StoreType, MemoriesGrow DEF Sound
<1>2. \A c \in Callers : call[c] \in Calls(clock) /\ Right(call[c]) /\ Ready(call[c])
  BY StoreType DEF IInv, Informed
<1>3. ASSUME NEW c \in Callers
      PROVE  call'[c] \in Calls(clock) /\ Right(call'[c]) /\ Ready(call'[c])
  BY <1>2, StoreType DEF Becoming
<1>4. ASSUME NEW r \in Calls(clock), Right(r) PROVE Right(r)'
  <2>1. CASE file' # NoFile /\ file' = file
    BY <1>4, <2>1 DEF Right, Updating
  <2>2. CASE file' # NoFile /\ file'.tag[2] > clock
    <3>1. r.tag # NoStamp => r.tag[2] \in 1..clock
      BY StoreType, StampsType DEF Calls
    <3>2. r.tag # NoStamp => file'.tag # r.tag
      BY <2>2, <3>1, StoreType
    <3> QED
      BY <1>4, <2>2, <3>2 DEF Right, Updating
  <2>3. CASE file' = NoFile
    BY <1>4, <2>3 DEF Right, Updating
  <2> QED
    BY <2>1, <2>2, <2>3 DEF Sound
<1>5. DOMAIN call' = Callers /\ call' \in [Callers -> Calls(clock')]
  BY <1>1, <1>3, StoreType DEF Becoming
<1>6. Informed'
  BY <1>3, <1>4 DEF Informed, Ready
<1> QED
  BY <1>5, <1>6

\* A call that goes on or ends without learning anything.
LEMMA GotoBecoming ==
    ASSUME IInv, NEW c \in Callers, NEW pc \in {"reply", "done", "failed"},
           Goto(c, pc)
    PROVE  Becoming(c, [call[c] EXCEPT !.pc = pc])
<1> DEFINE r == [call[c] EXCEPT !.pc = pc]
<1>1. call[c] \in Calls(clock)
  BY CallsWellFormed
<1>2. r \in Calls(clock) /\ r.pc = pc
  BY <1>1 DEF Calls
<1>3. Right(r) /\ Ready(r)
  BY <1>2 DEF Right, Updating, Ready
<1> QED
  BY <1>2, <1>3 DEF Becoming, Goto
-----------------------------------------------------------------------------
(* What the operations mean to the register. *)

\* The names of the tokens there are have been used.
UsedBar == used \subseteq Tokens /\ \A t \in Tokens : InFile[t] # NoToken => t \in used

\* The names in the file have been used.
LEMMA UsedType == ASSUME IInv PROVE UsedBar
  BY DEF IInv, TypeOK, Named, UsedBar, InFile, None

\* One token changes, and others may vanish that expired long ago.
LEMMA Becomes ==
    ASSUME IInv, NEW t \in Tokens, NEW x, InFile'[t] = x,
           InFile' \in Contents,
           \A s \in Tokens \ {t} :
              \/ InFile'[s] = InFile[s]
              \/ LongExpired(InFile[s]) /\ InFile'[s] = NoToken
    PROVE  Atomic!Becomes(t, x)
<1>1. InFile' \in [Tokens -> Atomic!Token \cup {NoToken}]
  <2>1. Token \subseteq Atomic!Token
    BY TokensAssumption DEF Token, Atomic!Token
  <2> QED
    BY <2>1 DEF Contents
<1>2. \A y : LongExpired(y) <=> Atomic!LongExpired(y)
  BY DEF LongExpired, Atomic!LongExpired
<1>3. \A s \in Tokens \ {t} :
         \/ InFile'[s] = InFile[s]
         \/ Atomic!LongExpired(InFile[s]) /\ InFile'[s] = NoToken
  BY <1>2
<1> QED
  BY <1>1, <1>3 DEF Atomic!Becomes, InFile

\* Memory is written back with one token changed.
LEMMA RewriteBecomes ==
    ASSUME IInv, NEW t \in Tokens, NEW x \in Token \cup {NoToken},
           Loaded.tokens[t] # NoToken,
           Rewrite([Loaded.tokens EXCEPT ![t] = x]), now' = now, used' = used
    PROVE  Sound /\ Atomic!Becomes(t, x) /\ UsedBar' /\ InFile[t] # NoToken
<1> DEFINE new == [Loaded.tokens EXCEPT ![t] = x]
<1>1. Loaded.tokens \in Contents /\ new \in Contents
  BY LoadedFaithful DEF Memories, Contents
<1>2. Sound /\ InFile' = new
  BY <1>1, RewriteSound
<1>3. ~Unreadable /\ InFile[t] = Loaded.tokens[t]
  BY LoadedFaithful
<1>4. \A s \in Tokens : new[s] = IF s = t THEN x ELSE Loaded.tokens[s]
  BY <1>1 DEF Contents
<1> HIDE DEF new
<1>5. Atomic!Becomes(t, x)
  <2>1. ASSUME NEW s \in Tokens \ {t}
        PROVE  \/ InFile'[s] = InFile[s]
               \/ LongExpired(InFile[s]) /\ InFile'[s] = NoToken
    BY <1>2, <1>3, <1>4, LoadedFaithful
  <2> QED
    BY <1>1, <1>2, <1>4, <2>1, Becomes
<1>6. UsedBar'
  <2>1. ASSUME NEW s \in Tokens, new[s] # NoToken PROVE InFile[s] # NoToken
    BY <1>3, <1>4, <2>1, LoadedFaithful
  <2> QED
    BY <1>2, <2>1, UsedType DEF UsedBar
<1> QED
  BY <1>2, <1>3, <1>5, <1>6

\* A token is added under a new name.
LEMMA AddBecomes ==
    ASSUME IInv, NEW t \in Tokens \ used, NEW x \in Token, ~Unreadable, Add(t, x),
           now' = now, used' = used \cup {t}
    PROVE  Sound /\ Atomic!Becomes(t, x) /\ UsedBar' /\ InFile[t] = NoToken
<1>1. Sound /\ InFile' = [InFile EXCEPT ![t] = x]
  BY AddSound
<1>2. InFile' \in Contents
  BY <1>1, StoreType DEF Contents
<1>3. \A s \in Tokens : InFile'[s] = IF s = t THEN x ELSE InFile[s]
  BY <1>1, StoreType DEF Contents
<1>4. Atomic!Becomes(t, x)
  BY <1>2, <1>3, Becomes
<1>5. UsedBar' /\ InFile[t] = NoToken
  BY <1>3, UsedType DEF UsedBar
<1> QED
  BY <1>1, <1>4, <1>5
-----------------------------------------------------------------------------
(* The steps of a call. *)

Active == {"get", "ask", "commit"}

\* A call goes on, fails without effect, or succeeds with the effect that its
\* command has on the register.
Outcome(c, r) ==
    /\ Sound /\ Becoming(c, r) /\ UsedBar'
    /\ r.cmd = call[c].cmd /\ call[c].pc \in Active
    /\ \/ r.pc \in {"reply", "done"} /\ Atomic!Effect(r.cmd)
       \/ r.pc \in Active \cup {"failed"} /\ InFile' = InFile

\* A step that only makes memory agree with the file.
LEMMA ReadOutcome ==
    ASSUME IInv, NEW c \in Callers, call[c].pc \in Active, Read, now' = now,
           NEW r \in Calls(clock), Becoming(c, r), r.cmd = call[c].cmd,
           r.pc # "reply", r.pc = "done" => Atomic!Effect(r.cmd)
    PROVE  Outcome(c, r)
<1>1. Sound
  BY ReadSound DEF Read
<1>2. InFile' = InFile /\ UsedBar'
  BY UsedType DEF Read, InFile, UsedBar
<1> QED
  BY <1>1, <1>2 DEF Outcome, Calls, Active

\* A command that fails.
LEMMA FailsOutcome ==
    ASSUME IInv, NEW c \in Callers, call[c].pc \in Active, Fails(c), now' = now
    PROVE  \E r \in Calls(clock) : Outcome(c, r)
<1> DEFINE r == [call[c] EXCEPT !.pc = "failed"]
<1>1. Becoming(c, r)
  BY GotoBecoming DEF Fails
<1>2. r \in Calls(clock) /\ r.pc = "failed" /\ r.cmd = call[c].cmd
  BY <1>1, CallsWellFormed DEF Becoming, Calls
<1> HIDE DEF r
<1> QED
  BY <1>1, <1>2, ReadOutcome DEF Fails

\* A command that succeeds.
LEMMA DoneOutcome ==
    ASSUME IInv, NEW c \in Callers, call[c].pc \in Active,
           NEW pc \in {"reply", "done"}, Goto(c, pc),
           Sound, UsedBar', Atomic!Effect(call[c].cmd)
    PROVE  \E r \in Calls(clock) : Outcome(c, r)
<1> DEFINE r == [call[c] EXCEPT !.pc = pc]
<1>1. Becoming(c, r)
  BY GotoBecoming
<1>2. r \in Calls(clock) /\ r.pc = pc /\ r.cmd = call[c].cmd
  BY <1>1, CallsWellFormed DEF Becoming, Calls
<1> HIDE DEF r
<1> QED
  BY <1>1, <1>2 DEF Outcome

\* What is only read is there.
LEMMA EffectOfReading ==
    ASSUME NEW m, m.method = "GET", InFile' = InFile
    PROVE  Atomic!Effect(m)
  BY DEF Atomic!Effect, InFile

\* A caller that has just read a token, and its tag, is right about it.
LEMMA ReadRight ==
    ASSUME IInv, NEW c \in Callers, NEW t \in Tokens, call[c].cmd.on = TokenNamed(t),
           Loaded.tokens[t] # NoToken, NEW pc \in {"ask", "commit"},
           pc = "commit" => call[c].cmd.method \in {"PUT", "DELETE", "EDIT"},
           NEW r \in Calls(clock), r.pc = pc, r.cmd = call[c].cmd,
           r.tag = Loaded.tag, r.old = Loaded.tokens[t],
           call' = [call EXCEPT ![c] = r]
    PROVE  Becoming(c, r)
<1>1. /\ file # NoFile /\ Loaded.tag = file.tag /\ InFile[t] = Loaded.tokens[t]
      /\ file.tag # NoStamp
  BY LoadedFaithful, StoreType, TokensAssumption
<1>2. r.cmd.on[2] = t
  BY Kinds
<1>3. Right(r) /\ Ready(r)
  BY <1>1, <1>2 DEF Right, Ready, InFile
<1> QED
  BY <1>3 DEF Becoming

\* The GET of a list, of a token, or of a token that is then to be changed.
LEMMA GetTokenOutcome ==
    ASSUME IInv, NEW c \in Callers, GetToken(c)
    PROVE  \E r \in Calls(clock) : Outcome(c, r)
<1> DEFINE m == call[c].cmd
           t == m.on[2]
<1>1. call[c].pc = "get" /\ call[c].pc \in Active /\ now' = now
  BY DEF GetToken, Active, restVars
<1>2. call[c] \in Calls(clock) /\ WellFormed(m) /\ m.reads
  BY <1>1, CallsWellFormed DEF IInv, Informed, Ready
<1>3. CASE m.on = TokenList
  <2>1. Read /\ Goto(c, IF Unreadable THEN "failed" ELSE "done")
    BY <1>3 DEF GetToken
  <2>2. CASE Unreadable
    BY <1>1, <2>1, <2>2, FailsOutcome DEF Fails
  <2>3. CASE ~Unreadable
    <3>1. m.method = "GET"
      BY <1>2, <1>3 DEF WellFormed
    <3>2. InFile' = InFile /\ UsedBar'
      BY <2>1, UsedType DEF Read, InFile, UsedBar
    <3>3. Sound /\ Atomic!Effect(m)
      BY <1>1, <2>1, <3>1, <3>2, ReadSound, EffectOfReading DEF Read
    <3> QED
      BY <1>1, <2>1, <2>3, <3>2, <3>3, DoneOutcome
  <2> QED
    BY <2>2, <2>3
<1>4. CASE m.on # TokenList /\ (Unreadable \/ Loaded.tokens[t] = NoToken)
  <2>1. Fails(c)
    BY <1>4 DEF GetToken
  <2> QED
    BY <1>1, <2>1, FailsOutcome
<1>5. CASE m.on # TokenList /\ ~Unreadable /\ Loaded.tokens[t] # NoToken
  <2>1. /\ Read
        /\ call' = [call EXCEPT
              ![c].pc = IF m.method = "GET" THEN "done" ELSE "ask",
              ![c].tag = IF m.method = "GET" THEN @ ELSE Loaded.tag,
              ![c].old = IF m.method = "GET" THEN @ ELSE Loaded.tokens[t]]
    BY <1>5 DEF GetToken
  <2>2. PICK s \in Tokens : m.on = TokenNamed(s) /\ t = s
    BY <1>2, <1>5, Kinds DEF WellFormed
  <2>3. InFile' = InFile
    BY <2>1 DEF Read, InFile
  <2>4. CASE m.method = "GET"
    <3> DEFINE r == [call[c] EXCEPT !.pc = "done"]
    <3>1. call' = [call EXCEPT ![c] = r]
      BY <1>2, <2>1, <2>4 DEF Calls
    <3>2. r \in Calls(clock) /\ r.pc = "done" /\ r.cmd = m
      BY <1>2 DEF Calls
    <3> HIDE DEF r
    <3>3. Becoming(c, r)
      BY <3>1, <3>2 DEF Becoming, Right, Updating, Ready
    <3> QED
      BY <1>1, <2>1, <2>3, <2>4, <3>2, <3>3, ReadOutcome, EffectOfReading
  <2>5. CASE m.method # "GET"
    <3> DEFINE r == [call[c] EXCEPT !.pc = "ask", !.tag = Loaded.tag,
                                    !.old = Loaded.tokens[t]]
    <3>1. call' = [call EXCEPT ![c] = r]
      BY <1>2, <2>1, <2>5 DEF Calls
    <3>2. /\ r \in Calls(clock) /\ r.pc = "ask" /\ r.cmd = m
          /\ r.tag = Loaded.tag /\ r.old = Loaded.tokens[t]
      BY <1>2, <2>2, LoadedFaithful DEF Calls, Memories, Contents
    <3> HIDE DEF r
    <3>3. Becoming(c, r)
      BY <1>5, <2>2, <3>1, <3>2, ReadRight
    <3> QED
      BY <1>1, <2>1, <3>2, <3>3, ReadOutcome
  <2> QED
    BY <2>4, <2>5
<1> QED
  BY <1>3, <1>4, <1>5

\* A POST adds a token under a name that was never used, or fails.
LEMMA PostTokenOutcome ==
    ASSUME IInv, NEW c \in Callers, PostToken(c)
    PROVE  \E r \in Calls(clock) : Outcome(c, r)
<1> DEFINE m == call[c].cmd
<1>1. call[c].pc \in Active /\ now' = now /\ m.method = "POST"
  BY DEF PostToken, Active, restVars
<1>2. CASE Fails(c)
  BY <1>1, <1>2, FailsOutcome
<1>3. ASSUME NEW t \in Tokens \ used, Update(t, m.set, NoStamp),
             used' = used \cup {t}, Goto(c, "reply")
      PROVE  \E r \in Calls(clock) : Outcome(c, r)
  <2>1. m.set \in Token
    BY <1>1, CallsWellFormed DEF WellFormed
  <2>2. Loaded.tokens[t] = NoToken
    <3>1. Loaded.tokens[t] # NoToken => Loaded.tag # NoStamp
      BY LoadedFaithful, StoreType, TokensAssumption
    <3> QED
      BY <1>3, <3>1 DEF Update
  <2>3. Add(t, m.set) /\ ~Unreadable
    BY <1>3, <2>2 DEF Update
  <2>4. Sound /\ Atomic!Becomes(t, m.set) /\ UsedBar' /\ InFile[t] = NoToken
    BY <1>1, <1>3, <2>1, <2>3, AddBecomes
  <2>5. Atomic!Effect(m)
    BY <1>1, <2>4 DEF Atomic!Effect, InFile
  <2> QED
    BY <1>1, <1>3, <2>4, <2>5, DoneOutcome
<1> QED
  BY <1>2, <1>3 DEF PostToken

\* A write that is cut short is a command that fails.
LEMMA PostTearsOutcome ==
    ASSUME IInv, NEW c \in Callers, PostTears(c)
    PROVE  \E r \in Calls(clock) : Outcome(c, r)
<1> DEFINE r == [call[c] EXCEPT !.pc = "failed"]
<1>1. Becoming(c, r)
  BY GotoBecoming DEF PostTears
<1>2. r \in Calls(clock) /\ r.pc = "failed" /\ r.cmd = call[c].cmd
  BY <1>1, CallsWellFormed DEF Becoming, Calls
<1>3. Sound /\ InFile' = InFile
  BY TearSound DEF PostTears
<1>4. UsedBar'
  BY <1>3, UsedType DEF PostTears, UsedBar
<1> HIDE DEF r
<1> QED
  BY <1>1, <1>2, <1>3, <1>4 DEF Outcome, PostTears, Active

\* The precondition of a PUT or DELETE: what the caller was given is current.
LEMMA CheckTokenOutcome ==
    ASSUME IInv, NEW c \in Callers, CheckToken(c)
    PROVE  \E r \in Calls(clock) : Outcome(c, r)
<1> DEFINE m == call[c].cmd
           t == m.on[2]
           matches == m.match = "seen" => Tagged(t) = call[c].tag
<1>1. /\ call[c].pc = "ask" /\ call[c].pc \in Active /\ now' = now
      /\ m.method \in {"PUT", "DELETE"}
  BY DEF CheckToken, Active, restVars
<1>2. call[c] \in Calls(clock) /\ WellFormed(m) /\ Right(call[c])
  BY CallsWellFormed DEF IInv, Informed
<1>3. CASE Unreadable \/ Loaded.tokens[t] = NoToken \/ ~matches
  <2>1. Fails(c)
    BY <1>3 DEF CheckToken
  <2> QED
    BY <1>1, <2>1, FailsOutcome
<1>4. CASE ~(Unreadable \/ Loaded.tokens[t] = NoToken \/ ~matches)
  <2> DEFINE r == [call[c] EXCEPT !.pc = "commit", !.tag = Loaded.tag]
  <2>1. Read /\ call' = [call EXCEPT ![c].pc = "commit", ![c].tag = Loaded.tag]
    BY <1>4 DEF CheckToken
  <2>2. call' = [call EXCEPT ![c] = r]
    BY <1>2, <2>1 DEF Calls
  <2>3. /\ r \in Calls(clock) /\ r.pc = "commit" /\ r.cmd = m
        /\ r.tag = Loaded.tag /\ r.old = call[c].old
    BY <1>2, LoadedFaithful DEF Calls, Memories
  <2> HIDE DEF r
  <2>4. PICK s \in Tokens : m.on = TokenNamed(s) /\ t = s
    BY <1>1, <1>2, Kinds DEF WellFormed
  <2>5. file # NoFile /\ Loaded.tag = file.tag /\ file.tag # NoStamp
    BY <1>4, <2>4, LoadedFaithful, StoreType, TokensAssumption
  <2>6. ASSUME m.method = "PUT" PROVE call[c].tag = Loaded.tag
    <3>1. m.match = "seen"
      BY <1>2, <2>6 DEF WellFormed
    <3> QED
      BY <1>4, <3>1 DEF Tagged
  <2>7. Right(r) /\ Ready(r)
    BY <1>1, <1>2, <2>3, <2>5, <2>6 DEF Right, Updating, Ready
  <2>8. Becoming(c, r)
    BY <2>2, <2>3, <2>7 DEF Becoming
  <2> QED
    BY <1>1, <2>1, <2>3, <2>8, ReadOutcome
<1> QED
  BY <1>3, <1>4

\* A member's edit gets the token first.
LEMMA EditGetsOutcome ==
    ASSUME IInv, NEW c \in Callers, EditGets(c)
    PROVE  \E r \in Calls(clock) : Outcome(c, r)
<1> DEFINE m == call[c].cmd
           t == m.on[2]
<1>1. call[c].pc \in Active /\ now' = now /\ m.method = "EDIT"
  BY DEF EditGets, Active, restVars
<1>2. call[c] \in Calls(clock) /\ WellFormed(m)
  BY CallsWellFormed
<1>3. CASE Unreadable \/ Loaded.tokens[t] = NoToken
  <2>1. Fails(c)
    BY <1>3 DEF EditGets
  <2> QED
    BY <1>1, <2>1, FailsOutcome
<1>4. CASE ~(Unreadable \/ Loaded.tokens[t] = NoToken)
  <2> DEFINE r == [call[c] EXCEPT !.pc = "commit", !.tag = Loaded.tag,
                                  !.old = Loaded.tokens[t]]
  <2>1. Read /\ call' = [call EXCEPT ![c].pc = "commit", ![c].tag = Loaded.tag,
                                     ![c].old = Loaded.tokens[t]]
    BY <1>4 DEF EditGets
  <2>2. PICK s \in Tokens : m.on = TokenNamed(s) /\ t = s
    BY <1>1, <1>2, Kinds DEF WellFormed
  <2>3. call' = [call EXCEPT ![c] = r]
    BY <1>2, <2>1 DEF Calls
  <2>4. /\ r \in Calls(clock) /\ r.pc = "commit" /\ r.cmd = m
        /\ r.tag = Loaded.tag /\ r.old = Loaded.tokens[t]
    BY <1>2, <2>2, LoadedFaithful DEF Calls, Memories, Contents
  <2> HIDE DEF r
  <2>5. Becoming(c, r)
    BY <1>1, <1>4, <2>2, <2>3, <2>4, ReadRight
  <2> QED
    BY <1>1, <2>1, <2>4, <2>5, ReadOutcome
<1> QED
  BY <1>3, <1>4

\* A token that admits somebody is in the file, and has not expired.
LEMMA CheckUseOutcome ==
    ASSUME IInv, NEW c \in Callers, CheckUse(c)
    PROVE  \E r \in Calls(clock) : Outcome(c, r)
<1> DEFINE m == call[c].cmd
           x == Loaded.tokens[m.on[2]]
<1>1. /\ call[c].pc \in Active /\ UNCHANGED <<now, file, clock>>
      /\ m.method = "USE" /\ Read
  BY DEF CheckUse, Active, restVars, Read
<1>2. CASE Unreadable \/ x = NoToken \/ Expired(x)
  <2>1. Fails(c)
    BY <1>2 DEF CheckUse, Fails
  <2> QED
    BY <1>1, <2>1, FailsOutcome
<1>3. CASE ~(Unreadable \/ x = NoToken \/ Expired(x))
  <2>1. Goto(c, "done")
    BY <1>3 DEF CheckUse
  <2>2. PICK t \in Tokens : m.on = TokenNamed(t) /\ m.on[2] = t
    BY <1>1, CallsWellFormed, Kinds DEF WellFormed
  <2>3. InFile[t] = x /\ x # NoToken /\ ~Atomic!Expired(x)
    BY <1>3, <2>2, LoadedFaithful DEF Expired, Atomic!Expired
  <2>4. InFile' = InFile /\ UsedBar'
    BY <1>1, UsedType DEF Read, InFile, UsedBar
  <2>5. Atomic!Effect(m)
    BY <1>1, <2>2, <2>3, <2>4
    DEF Atomic!Effect, InFile, TokenNamed, Atomic!TokenNamed
  <2>6. Sound
    BY <1>1, ReadSound DEF Read
  <2> QED
    BY <1>1, <2>1, <2>4, <2>5, <2>6, DoneOutcome
<1> QED
  BY <1>2, <1>3

\* A change or a deletion is made to the token that the caller knows.
LEMMA CommitOutcome ==
    ASSUME IInv, NEW c \in Callers, Commit(c)
    PROVE  \E r \in Calls(clock) : Outcome(c, r)
<1> DEFINE m == call[c].cmd
           t == m.on[2]
           x == [perms |-> Given(m.set.perms, call[c].old.perms),
                 expires |-> Given(m.set.expires, call[c].old.expires)]
<1>1. /\ call[c].pc = "commit" /\ call[c].pc \in Active /\ now' = now
      /\ m.method \in {"PUT", "DELETE", "EDIT"}
  BY DEF Commit, Active, restVars, IInv, Informed, Ready
<1>2. call[c] \in Calls(clock) /\ WellFormed(m) /\ Right(call[c])
  BY CallsWellFormed DEF IInv, Informed
<1>3. PICK s \in Tokens : m.on = TokenNamed(s) /\ t = s
  BY <1>1, <1>2, Kinds DEF WellFormed
<1>4. CASE Fails(c)
  BY <1>1, <1>4, FailsOutcome
<1>5. CASE m.method = "DELETE" /\ Delete(t, call[c].tag) /\ Goto(c, "reply")
           /\ used' = used
  <2>1. /\ Loaded.tokens[s] # NoToken
        /\ Rewrite([Loaded.tokens EXCEPT ![s] = NoToken])
    BY <1>3, <1>5 DEF Delete
  <2>2. Sound /\ Atomic!Becomes(s, NoToken) /\ UsedBar' /\ InFile[s] # NoToken
    BY <1>1, <1>5, <2>1, RewriteBecomes
  <2>3. Atomic!Effect(m)
    BY <1>3, <1>5, <2>2
    DEF Atomic!Effect, InFile, TokenNamed, Atomic!TokenNamed
  <2> QED
    BY <1>1, <1>5, <2>2, <2>3, DoneOutcome
<1>6. CASE m.method # "DELETE" /\ Update(t, x, call[c].tag) /\ Goto(c, "reply")
           /\ used' = used
  <2>1. /\ call[c].old \in Token /\ call[c].tag # NoStamp
        /\ file # NoFile /\ file.tag = call[c].tag => file.tokens[s] = call[c].old
    BY <1>1, <1>2, <1>3, <1>6 DEF Right, Updating, Calls
  <2>2. m.set \in Changes
    BY <1>1, <1>2, <1>6 DEF WellFormed
  <2>3. x \in Token
    BY <2>1, <2>2 DEF Changes, Token, Given
  <2> HIDE DEF x
  <2>4. /\ Loaded.tokens[s] # NoToken /\ call[c].tag = Loaded.tag
        /\ Rewrite([Loaded.tokens EXCEPT ![s] = x])
    BY <1>3, <1>6, <2>1 DEF Update
  <2>5. Sound /\ Atomic!Becomes(s, x) /\ UsedBar' /\ InFile[s] # NoToken
    BY <1>1, <1>6, <2>3, <2>4, RewriteBecomes
  <2>6. InFile[s] = call[c].old
    BY <2>1, <2>4, LoadedFaithful DEF InFile
  <2>7. x = [perms |-> Atomic!Given(m.set.perms, InFile[s].perms),
             expires |-> Atomic!Given(m.set.expires, InFile[s].expires)]
    BY <2>6 DEF x, Given, Atomic!Given
  <2>8. m.method \in {"PUT", "EDIT"}
    BY <1>1, <1>6
  <2>9. Atomic!Effect(m)
    BY <1>3, <2>5, <2>7, <2>8
    DEF Atomic!Effect, InFile, TokenNamed, Atomic!TokenNamed
  <2> QED
    BY <1>1, <1>6, <2>5, <2>9, DoneOutcome
<1> QED
  BY <1>4, <1>5, <1>6 DEF Commit

\* The steps of the handlers.
Handles(c) == \/ GetToken(c) \/ PostToken(c) \/ PostTears(c) \/ CheckToken(c)
              \/ EditGets(c) \/ Commit(c) \/ CheckUse(c)

\* Every one of them has one of the outcomes.
LEMMA HandlerOutcome ==
    ASSUME IInv, NEW c \in Callers, Handles(c)
    PROVE  \E r \in Calls(clock) : Outcome(c, r)
  BY GetTokenOutcome, PostTokenOutcome, PostTearsOutcome, CheckTokenOutcome,
     EditGetsOutcome, CommitOutcome, CheckUseOutcome DEF Handles
-----------------------------------------------------------------------------
(* The other steps, and the invariant. *)

\* A new command begins, knowing nothing.
LEMMA StartBecoming ==
    ASSUME IInv, NEW c \in Callers, Start(c)
    PROVE  \E r \in Calls(clock) : /\ Becoming(c, r) /\ r.cmd \in Commands
                                   /\ r.pc \in Active
<1>1. PICK m \in Commands :
         call' = [call EXCEPT ![c] =
                     [Idle EXCEPT !.cmd = m,
                                  !.pc = IF m.reads THEN "get" ELSE "ask"]]
  BY DEF Start
<1> DEFINE r == [Idle EXCEPT !.cmd = m, !.pc = IF m.reads THEN "get" ELSE "ask"]
<1>2. WellFormed(m)
  BY CommandsWellFormed
<1>3. /\ r \in Calls(clock) /\ r.cmd = m
      /\ r.pc = IF m.reads THEN "get" ELSE "ask"
  BY DEF Calls, Idle
<1>4. call' = [call EXCEPT ![c] = r]
  BY <1>1
<1> HIDE DEF r
<1>5. Right(r) /\ Ready(r)
  BY <1>2, <1>3 DEF Right, Updating, Ready, WellFormed
<1> QED
  BY <1>3, <1>4, <1>5 DEF Becoming, Active

\* A call is answered, or learns nothing of what it has done.
LEMMA AnswerBecoming ==
    ASSUME IInv, NEW c \in Callers, Answer(c)
    PROVE  \E r \in Calls(clock) : /\ Becoming(c, r) /\ r.cmd = call[c].cmd
                                   /\ r.pc \in {"done", "failed"}
<1>1. PICK pc \in {"done", "failed"} : Goto(c, pc)
  BY DEF Answer
<1> DEFINE r == [call[c] EXCEPT !.pc = pc]
<1>2. Becoming(c, r)
  BY <1>1, GotoBecoming
<1>3. r \in Calls(clock) /\ r.pc = pc /\ r.cmd = call[c].cmd
  BY <1>2, CallsWellFormed DEF Becoming, Calls
<1> HIDE DEF r
<1> QED
  BY <1>2, <1>3

\* The periodic expiry removes nothing but tokens that expired long ago.
LEMMA ExpirySound ==
    ASSUME IInv, Expire, now' = now
    PROVE  /\ Sound /\ UsedBar' /\ InFile' \in Contents
           /\ \A t \in Tokens : \/ InFile'[t] = InFile[t]
                                \/ /\ LongExpired(InFile[t])
                                   /\ InFile'[t] = NoToken
<1> DEFINE dead == {t \in Tokens : LongExpired(Loaded.tokens[t])}
           left == [t \in Tokens |-> IF t \in dead THEN NoToken
                                     ELSE Loaded.tokens[t]]
<1>1. CASE Read
  <2>1. InFile' = InFile /\ UsedBar'
    BY <1>1, UsedType DEF Read, InFile, UsedBar
  <2> QED
    BY <1>1, <2>1, ReadSound, StoreType DEF Read
<1>2. CASE Rewrite(left) /\ used' = used /\ ~Unreadable
  <2>1. left \in Contents
    BY LoadedFaithful DEF Memories, Contents
  <2>2. Sound /\ InFile' = left
    BY <1>2, <2>1, RewriteSound
  <2>3. ASSUME NEW t \in Tokens
        PROVE  \/ left[t] = InFile[t]
               \/ LongExpired(InFile[t]) /\ left[t] = NoToken
    <3>1. \/ Loaded.tokens[t] = InFile[t]
          \/ LongExpired(InFile[t]) /\ Loaded.tokens[t] = NoToken
      BY <1>2, LoadedFaithful
    <3>2. LongExpired(Loaded.tokens[t]) => Loaded.tokens[t] = InFile[t]
      BY <3>1 DEF LongExpired
    <3>3. left[t] = IF LongExpired(Loaded.tokens[t]) THEN NoToken
                    ELSE Loaded.tokens[t]
      OBVIOUS
    <3> HIDE DEF left
    <3> QED
      BY <3>1, <3>2, <3>3
  <2> HIDE DEF left
  <2>4. UsedBar'
    BY <1>2, <2>2, <2>3, UsedType DEF UsedBar
  <2> QED
    BY <2>1, <2>2, <2>3, <2>4
<1> QED
  BY <1>1, <1>2 DEF Expire

\* Whatever somebody makes of the file by hand has a new tag.
LEMMA EditSound ==
    ASSUME IInv, Edit
    PROVE  Sound /\ UsedBar' /\ InFile' \in Contents
<1>1. PICK t \in Tokens, x \in Token \cup {NoToken} :
         /\ file' = Version([InFile EXCEPT ![t] = x], FALSE, clock')
         /\ used' = used \cup {t}
  BY DEF Edit
<1> DEFINE new == [InFile EXCEPT ![t] = x]
<1>2. NewDate /\ mem' = mem
  BY DEF Edit
<1>3. new \in Contents /\ \A s \in Tokens : s # t => new[s] = InFile[s]
  BY StoreType DEF Contents
<1>4. file' = Version(new, FALSE, clock')
  BY <1>1
<1> HIDE DEF new
<1>5. /\ clock' \in Nat /\ clock <= clock' /\ file' \in Files /\ file' # NoFile
      /\ file'.tokens = new
      /\ file'.tag \in Stamps(clock') /\ file'.tag[2] > clock
      /\ file'.tag \notin Stamps(clock) /\ file'.tag # NoStamp
  BY <1>2, <1>3, <1>4, StoreType, NewVersion DEF IInv
<1>6. mem' \in Memories(clock') /\ mem'.tag # file'.tag
  BY <1>2, <1>5, MemoriesGrow, StoreType DEF Memories
<1>7. InSync' /\ Whole'
  BY <1>6 DEF InSync, Whole
<1>8. InFile' = new
  BY <1>5 DEF InFile
<1>9. UsedBar'
  BY <1>1, <1>3, <1>8, UsedType DEF UsedBar
<1> QED
  BY <1>3, <1>5, <1>6, <1>7, <1>8, <1>9 DEF Sound

\* A restart empties memory and ends the calls.
LEMMA RestartCalls ==
    ASSUME IInv, Restart
    PROVE  /\ call' \in [Callers -> Calls(clock')] /\ Informed'
           /\ \A c \in Callers :
                /\ call'[c].cmd = call[c].cmd
                /\ call'[c].pc = IF call[c].pc = "done" THEN "done" ELSE "failed"
<1>1. ASSUME NEW c \in Callers
      PROVE  /\ call'[c] \in Calls(clock)
             /\ call'[c].cmd = call[c].cmd
             /\ call'[c].pc = IF call[c].pc = "done" THEN "done" ELSE "failed"
  <2>1. call[c] \in Calls(clock)
    BY StoreType
  <2>2. call'[c] = IF call[c].pc \in {"done", "failed"} THEN call[c]
                   ELSE [call[c] EXCEPT !.pc = "failed"]
    BY DEF Restart
  <2> QED
    BY <2>1, <2>2 DEF Calls
<1>2. call' \in [Callers -> Calls(clock')]
  BY <1>1 DEF Restart
<1>3. Informed'
  BY <1>1 DEF Informed, Right, Ready, Updating
<1> QED
  BY <1>1, <1>2, <1>3

\* Time passes: what expired long ago did so longer ago.
LEMMA TickSound ==
    ASSUME IInv, Tick
    PROVE  Sound
<1>1. UNCHANGED <<file, mem, clock>> /\ now' = now + 1 /\ now \in Nat
  BY DEF Tick, fileVars, IInv, TypeOK
<1>2. ASSUME NEW x \in Token \cup {NoToken}, LongExpired(x) PROVE LongExpired(x)'
  <2>1. x.expires \in Nat /\ x # NoToken
    BY <1>2, TokensAssumption DEF LongExpired, Token
  <2> QED
    BY <1>1, <1>2, <2>1, TokensAssumption DEF LongExpired
<1>3. ASSUME file # NoFile, mem.tag = file.tag, NEW t \in Tokens
      PROVE  \/ mem.tokens[t] = file.tokens[t]
             \/ LongExpired(file.tokens[t])' /\ mem.tokens[t] = NoToken
  <2>1. file.tokens[t] \in Token \cup {NoToken}
    BY <1>3, StoreType DEF Contents
  <2>2. \/ mem.tokens[t] = file.tokens[t]
        \/ LongExpired(file.tokens[t]) /\ mem.tokens[t] = NoToken
    BY <1>3 DEF IInv, InSync
  <2>3. LongExpired(file.tokens[t]) => LongExpired(file.tokens[t])'
    BY <1>1, <1>2, <2>1 DEF LongExpired
  <2> QED
    BY <2>2, <2>3
<1>4. InSync'
  BY <1>1, <1>3 DEF InSync, LongExpired
<1>5. Whole'
  BY <1>1 DEF IInv, Whole
<1> QED
  BY <1>1, <1>4, <1>5, StoreType DEF Sound

\* What keeps the invariant.
LEMMA Keeps ==
    ASSUME IInv, Sound, UsedBar', call' \in [Callers -> Calls(clock')], Informed',
           now' \in 1..(MaxTime + 1), edits' \in 0..MaxEdits,
           faults' \in 0..MaxFaults, budget' \in 0..MaxBudget
    PROVE  IInv'
<1>1. Named'
  BY DEF UsedBar, Named, InFile
<1>2. file' # NoFile =>
         file' \in [tokens : Contents, tag : Stamps(clock'), torn : BOOLEAN]
  BY DEF Sound, Files, Contents
<1>3. TypeOK'
  BY <1>2 DEF Sound, TypeOK, Contents, Memories, Calls, UsedBar, Stamps
<1> QED
  BY <1>1, <1>3 DEF IInv, Sound

\* The bounds.
LEMMA Bounds ==
    ASSUME IInv
    PROVE  /\ now \in 1..(MaxTime + 1) /\ edits \in 0..MaxEdits
           /\ faults \in 0..MaxFaults /\ budget \in 0..MaxBudget
  BY DEF IInv, TypeOK

\* Every step keeps the invariant.
LEMMA StepKeeps ==
    ASSUME IInv, [Next]_vars
    PROVE  IInv'
<1> USE Bounds, StoreType, UsedType
<1>1. ASSUME NEW c \in Callers, Start(c) PROVE IInv'
  <2>1. PICK r \in Calls(clock) : Becoming(c, r)
    BY <1>1, StartBecoming
  <2>2. UNCHANGED <<file, mem, clock, used, now, edits, faults>>
        /\ budget' \in 0..MaxBudget
    BY <1>1, TokensAssumption DEF Start, fileVars
  <2>3. Sound /\ UsedBar'
    BY <2>2, ReadSound DEF UsedBar, InFile
  <2> QED
    BY <2>1, <2>2, <2>3, CallsSound, Keeps
<1>2. ASSUME NEW c \in Callers, Handles(c) PROVE IInv'
  <2>1. PICK r \in Calls(clock) : Outcome(c, r)
    BY <1>2, HandlerOutcome
  <2>2. UNCHANGED <<now, edits, budget>> /\ faults' \in 0..MaxFaults
    BY <1>2, TokensAssumption, SMTT(30)
    DEF Handles, GetToken, PostToken, PostTears, CheckToken, EditGets, Commit,
        CheckUse, restVars
  <2> QED
    BY <2>1, <2>2, CallsSound, Keeps DEF Outcome
<1>3. CASE PeriodicExpiry
  <2>1. UNCHANGED <<call, now, edits, faults, budget>>
    BY <1>3 DEF PeriodicExpiry, restVars
  <2> QED
    BY <1>3, <2>1, ExpirySound, CallsSound, Keeps DEF PeriodicExpiry
<1>4. CASE PeriodicExpiryFails
  <2>1. UNCHANGED <<call, now, edits, budget, used>> /\ faults' \in 0..MaxFaults
    BY <1>4, TokensAssumption DEF PeriodicExpiryFails, ExpireFails
  <2>2. Sound /\ InFile' = InFile
    BY <1>4, <2>1, ExpireFailsSound DEF PeriodicExpiryFails
  <2> QED
    BY <2>1, <2>2, CallsSound, Keeps DEF UsedBar
<1>5. CASE Edit
  <2>1. UNCHANGED <<call, now, faults, budget>> /\ edits' \in 0..MaxEdits
    BY <1>5, TokensAssumption DEF Edit
  <2> QED
    BY <1>5, <2>1, EditSound, CallsSound, Keeps
<1>6. CASE Tick
  <2>1. UNCHANGED <<call, file, used, edits, faults, budget>>
        /\ now' \in 1..(MaxTime + 1)
    BY <1>6, TokensAssumption DEF Tick, fileVars
  <2> QED
    BY <1>6, <2>1, TickSound, CallsSound, Keeps DEF UsedBar, InFile
<1>7. CASE Restart
  <2>1. UNCHANGED <<file, clock, used, now, edits, faults, budget>> /\ mem' = Reset
    BY <1>7 DEF Restart, restVars
  <2> QED
    BY <1>7, <2>1, ReadSound, RestartCalls, Keeps DEF UsedBar, InFile
<1>8. CASE UNCHANGED vars
  <2>1. UNCHANGED <<file, mem, clock, used, call, now, edits, faults, budget>>
    BY <1>8 DEF vars, fileVars, restVars
  <2> QED
    BY <2>1, ReadSound, CallsSound, Keeps DEF UsedBar, InFile
<1>9. ASSUME NEW c \in Callers, Answer(c) PROVE IInv'
  <2>1. PICK r \in Calls(clock) : Becoming(c, r)
    BY <1>9, AnswerBecoming
  <2>2. UNCHANGED <<file, mem, clock, used, now, edits, faults, budget>>
    BY <1>9 DEF Answer, fileVars, restVars
  <2>3. Sound /\ UsedBar'
    BY <2>2, ReadSound DEF UsedBar, InFile
  <2> QED
    BY <2>1, <2>2, <2>3, CallsSound, Keeps
<1> QED
  BY <1>1, <1>2, <1>3, <1>4, <1>5, <1>6, <1>7, <1>8, <1>9 DEF Next, Handles

\* At the beginning nobody knows anything, and memory is empty.
LEMMA Initially ==
    ASSUME Precise, Init
    PROVE  IInv
<1>1. Idle \in Calls(1) /\ Idle.pc = "done"
  BY DEF Idle, Calls
<1>2. None \in Contents
  BY DEF None, Contents
<1>3. file # NoFile => /\ file \in [tokens : Contents, tag : Stamps(1),
                                    torn : BOOLEAN]
                       /\ file.tag # NoStamp
  <2>1. ASSUME NEW f \in Contents
        PROVE  /\ Version(f, FALSE, 1)
                    \in [tokens : Contents, tag : Stamps(1), torn : BOOLEAN]
               /\ Version(f, FALSE, 1).tag \in Stamps(1)
    <3>1. Size(f, FALSE) \in Nat
      BY TokensAssumption DEF Contents
    <3>2. 1 \in 1..1
      OBVIOUS
    <3>3. <<Size(f, FALSE), 1>> \in Stamps(1)
      BY <3>1, <3>2, Zenon DEF Stamps
    <3> QED
      BY <3>3 DEF Version
  <2>2. ASSUME file # NoFile
        PROVE  \E f \in Contents : file = Version(f, FALSE, 1)
    BY <2>2, TokensAssumption DEF Init, Contents
  <2> QED
    BY <2>1, <2>2, StampsType
<1>4. TypeOK
  BY <1>1, <1>2, <1>3, TokensAssumption
  DEF Init, TypeOK, Reset, Contents, Calls, Stamps
<1>5. InSync /\ Whole
  BY <1>3, TokensAssumption DEF Init, InSync, Whole, Reset
<1>6. Named
  BY DEF Init, Named
<1>7. Informed
  BY <1>1 DEF Init, Informed, Right, Ready, Updating
<1> QED
  BY <1>4, <1>5, <1>6, <1>7 DEF IInv

\* The store, the callers and what they know have their types: whoever updates a
\* token has one that was read, and has its tag.
THEOREM TypeCorrect ==
    ASSUME Precise
    PROVE  Spec => []TypeOK
  BY Initially, StepKeeps, PTL DEF Spec, IInv

\* If dates are precise, then memory that has the tag of the file has its tokens,
\* for any number of callers, edits by hand, writes that fail half-way and restarts.
THEOREM MemoryInSync ==
    ASSUME Precise
    PROVE  Spec => []InSync
  BY Initially, StepKeeps, PTL DEF Spec, IInv
-----------------------------------------------------------------------------
(* The refinement. *)

RunningBar == [c \in Callers |-> call[c].cmd]

StatusOf(pc) == IF pc \in {"done", "failed"} THEN pc
                ELSE IF pc = "reply" THEN "applied"
                ELSE "running"

StatusBar == [c \in Callers |-> StatusOf(call[c].pc)]

\* A step that the register does not see.
LEMMA Invisible ==
    ASSUME InFile' = InFile, RunningBar' = RunningBar, StatusBar' = StatusBar,
           UNCHANGED <<now, edits>>
    PROVE  UNCHANGED Atomic!vars
  BY DEF Atomic!vars, InFile, RunningBar, StatusBar, StatusOf

\* What a caller's step does to what the register sees of the callers.
LEMMA BarsMove ==
    ASSUME IInv, NEW c \in Callers, NEW r \in Calls(clock), Becoming(c, r)
    PROVE  /\ RunningBar' = [RunningBar EXCEPT ![c] = r.cmd]
           /\ StatusBar' = [StatusBar EXCEPT ![c] = StatusOf(r.pc)]
<1>1. \A d \in Callers : call'[d] = IF d = c THEN r ELSE call[d]
  BY StoreType DEF Becoming
<1> QED
  BY <1>1 DEF RunningBar, StatusBar

\* A handler's step is the success or the failure of its command, or invisible.
LEMMA OutcomeRefines ==
    ASSUME IInv, NEW c \in Callers, NEW r \in Calls(clock), Outcome(c, r),
           UNCHANGED <<now, edits>>
    PROVE  [Atomic!Next]_(Atomic!vars)
<1>1. /\ RunningBar[c] = r.cmd /\ StatusBar[c] = "running"
      /\ RunningBar' = RunningBar
      /\ StatusBar' = [StatusBar EXCEPT ![c] = StatusOf(r.pc)]
  <2>1. RunningBar[c] = r.cmd /\ StatusBar[c] = "running"
    BY DEF Outcome, RunningBar, StatusBar, StatusOf, Active
  <2>2. [RunningBar EXCEPT ![c] = r.cmd] = RunningBar
    BY <2>1 DEF RunningBar
  <2> QED
    BY <2>1, <2>2, BarsMove DEF Outcome
<1>2. CASE r.pc \in {"reply", "done"}
  <2>1. Atomic!Effect(r.cmd)
    BY <1>2 DEF Outcome, Active
  <2>2. StatusOf(r.pc) \in {"applied", "done"}
    BY <1>2 DEF StatusOf
  <2>3. Atomic!Perform(c)
    BY <1>1, <2>1, <2>2 DEF Atomic!Perform, RunningBar, StatusBar, StatusOf
  <2> QED
    BY <2>3 DEF Atomic!Next
<1>3. CASE r.pc = "failed"
  <2>1. InFile' = InFile
    BY <1>3 DEF Outcome
  <2>2. Atomic!Fail(c)
    BY <1>1, <1>3, <2>1 DEF Atomic!Fail, InFile, RunningBar, StatusBar, StatusOf
  <2> QED
    BY <2>2 DEF Atomic!Next
<1>4. CASE r.pc \in Active
  <2>1. InFile' = InFile
    BY <1>4 DEF Outcome, Active
  <2>2. StatusBar' = StatusBar
    BY <1>1, <1>4 DEF Active, StatusBar, StatusOf
  <2> QED
    BY <1>1, <2>1, <2>2, Invisible
<1> QED
  BY <1>2, <1>3, <1>4 DEF Outcome

\* Every step of the store and of those who use it is a step of the register or
\* invisible.
LEMMA StepRefines ==
    ASSUME IInv, [Next]_vars
    PROVE  [Atomic!Next]_(Atomic!vars)
<1>1. ASSUME NEW c \in Callers, Start(c) PROVE [Atomic!Next]_(Atomic!vars)
  <2>1. PICK r \in Calls(clock) : /\ Becoming(c, r) /\ r.cmd \in Commands
                                  /\ r.pc \in Active
    BY <1>1, StartBecoming
  <2>2. /\ RunningBar' = [RunningBar EXCEPT ![c] = r.cmd]
        /\ StatusBar' = [StatusBar EXCEPT ![c] = "running"]
    BY <2>1, BarsMove DEF Active, StatusOf
  <2>3. StatusBar[c] \in {"done", "failed"} /\ InFile' = InFile
        /\ UNCHANGED <<now, edits>>
    BY <1>1 DEF Start, fileVars, StatusBar, StatusOf, InFile
  <2>4. Atomic!Begin(c)
    BY <2>1, <2>2, <2>3 DEF Atomic!Begin, InFile, RunningBar, StatusBar, StatusOf
  <2> QED
    BY <2>4 DEF Atomic!Next
<1>2. ASSUME NEW c \in Callers, Handles(c) PROVE [Atomic!Next]_(Atomic!vars)
  <2>1. PICK r \in Calls(clock) : Outcome(c, r)
    BY <1>2, HandlerOutcome
  <2>2. UNCHANGED <<now, edits>>
    BY <1>2
    DEF Handles, GetToken, PostToken, PostTears, CheckToken, EditGets, Commit,
        CheckUse, restVars
  <2> QED
    BY <2>1, <2>2, OutcomeRefines
<1>3. ASSUME UNCHANGED call
      PROVE  RunningBar' = RunningBar /\ StatusBar' = StatusBar
  BY <1>3 DEF RunningBar, StatusBar
<1>4. CASE PeriodicExpiry
  <2>1. Expire /\ UNCHANGED <<call, now, edits>>
    BY <1>4 DEF PeriodicExpiry, restVars
  <2>2. InFile' \in [Tokens -> Atomic!Token \cup {NoToken}]
    <3>1. Token \subseteq Atomic!Token
      BY TokensAssumption DEF Token, Atomic!Token
    <3> QED
      BY <2>1, <3>1, ExpirySound DEF Contents
  <2>3. \A t \in Tokens : \/ InFile'[t] = InFile[t]
                          \/ /\ Atomic!LongExpired(InFile[t])
                             /\ InFile'[t] = NoToken
    BY <2>1, ExpirySound DEF LongExpired, Atomic!LongExpired
  <2>4. Atomic!Expire
    BY <1>3, <2>1, <2>2, <2>3
    DEF Atomic!Expire, InFile, RunningBar, StatusBar
  <2> QED
    BY <2>4 DEF Atomic!Next
<1>5. CASE PeriodicExpiryFails
  <2>1. ExpireFails /\ UNCHANGED <<call, now, edits>>
    BY <1>5 DEF PeriodicExpiryFails
  <2> QED
    BY <1>3, <2>1, ExpireFailsSound, Invisible
<1>6. CASE Edit
  <2>1. InFile' \in [Tokens -> Atomic!Token \cup {NoToken}]
    <3>1. Token \subseteq Atomic!Token
      BY TokensAssumption DEF Token, Atomic!Token
    <3> QED
      BY <1>6, <3>1, EditSound DEF Contents
  <2>2. UNCHANGED <<call, now>> /\ edits' = edits + 1
    BY <1>6 DEF Edit
  <2>3. Atomic!Edit
    BY <1>3, <2>1, <2>2 DEF Atomic!Edit, InFile, RunningBar, StatusBar
  <2> QED
    BY <2>3 DEF Atomic!Next
<1>7. CASE Tick
  <2>1. UNCHANGED <<file, call, edits>> /\ now' = now + 1
    BY <1>7 DEF Tick, fileVars
  <2>2. Atomic!Tick
    BY <1>3, <2>1 DEF Atomic!Tick, InFile, RunningBar, StatusBar
  <2> QED
    BY <2>2 DEF Atomic!Next
<1>8. CASE Restart
  <2>1. UNCHANGED <<file, now, edits>>
    BY <1>8 DEF Restart, restVars
  <2>2. RunningBar' = RunningBar
    BY <1>8, RestartCalls DEF RunningBar
  <2>3. StatusBar' = [c \in Callers |->
                        IF StatusBar[c] \in {"running", "applied"} THEN "failed"
                        ELSE StatusBar[c]]
    BY <1>8, RestartCalls DEF StatusBar, StatusOf
  <2>4. Atomic!FailAll
    BY <2>1, <2>2, <2>3
    DEF Atomic!FailAll, InFile, RunningBar, StatusBar, StatusOf
  <2> QED
    BY <2>4 DEF Atomic!Next
<1>9. CASE UNCHANGED vars
  <2>1. UNCHANGED <<file, call, now, edits>>
    BY <1>9 DEF vars, fileVars, restVars
  <2> QED
    BY <1>3, <2>1, Invisible DEF InFile
<1>10. ASSUME NEW c \in Callers, Answer(c) PROVE [Atomic!Next]_(Atomic!vars)
  <2>1. PICK r \in Calls(clock) : /\ Becoming(c, r) /\ r.cmd = call[c].cmd
                                  /\ r.pc \in {"done", "failed"}
    BY <1>10, AnswerBecoming
  <2>2. /\ RunningBar' = [RunningBar EXCEPT ![c] = call[c].cmd]
        /\ StatusBar' = [StatusBar EXCEPT ![c] = r.pc]
    BY <2>1, BarsMove DEF StatusOf
  <2>3. RunningBar' = RunningBar
    BY <2>2 DEF RunningBar
  <2>4. StatusBar[c] = "applied" /\ InFile' = InFile /\ UNCHANGED <<now, edits>>
    BY <1>10 DEF Answer, fileVars, restVars, StatusBar, StatusOf, InFile
  <2>5. Atomic!Answer(c)
    BY <2>1, <2>2, <2>3, <2>4
    DEF Atomic!Answer, InFile, RunningBar, StatusBar, StatusOf
  <2> QED
    BY <2>5 DEF Atomic!Next
<1> QED
  BY <1>1, <1>2, <1>4, <1>5, <1>6, <1>7, <1>8, <1>9, <1>10 DEF Next, Handles

\* At the beginning the register has the tokens of the file.
LEMMA InitRefines ==
    ASSUME Precise, Init
    PROVE  Atomic!Init
<1>1. InFile \in [Tokens -> Atomic!Token \cup {NoToken}]
  <2>1. Token \subseteq Atomic!Token
    BY TokensAssumption DEF Token, Atomic!Token
  <2> QED
    BY <2>1, Initially, StoreType DEF Contents
<1>2. \A c \in Callers : call[c].cmd = ListTokens /\ call[c].pc = "done"
  BY DEF Init, Idle
<1>3. RunningBar = [c \in Callers |-> ListTokens]
  BY <1>2 DEF RunningBar
<1>4. StatusBar = [c \in Callers |-> "done"]
  BY <1>2 DEF StatusBar, StatusOf
<1>5. ListTokens = Atomic!GetJSON(Atomic!TokenList)
  BY DEF ListTokens, GetJSON, Command, TokenList, Atomic!GetJSON, Atomic!Command,
         Atomic!TokenList
<1> QED
  BY <1>1, <1>3, <1>4, <1>5
  DEF Init, Atomic!Init, InFile, RunningBar, StatusBar, StatusOf

\* If dates are precise, operations on tokens are atomic and durable, whatever
\* callers, edits of the file, failed writes and restarts do in between; what has
\* failed has had no effect, unless only its answer was lost.
THEOREM TokensAtomic ==
    ASSUME Precise
    PROVE  Spec => AtomicTokens
  BY Initially, StepKeeps, InitRefines, StepRefines, PTL
  DEF Spec, AtomicTokens, Atomic!Spec
=============================================================================
