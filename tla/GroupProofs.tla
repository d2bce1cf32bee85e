----------------------------- MODULE GroupProofs -----------------------------
(* Proofs about module Group, for any clients, identifiers, descriptions and
   bounds. *)
EXTENDS Group, SequenceTheorems, FiniteSetTheorems, TLAPS

(* What the operations are made of keeps the types of what it changes. *)
LEMMA SendTyping ==
    ASSUME TypeOK, NEW sent \in [Clients -> Seq(Action)], Send(sent)
    PROVE  actions' \in [Clients -> Seq(Action)]
<1>1. ASSUME NEW c \in Clients
      PROVE  actions[c] \o (IF c \in listening THEN sent[c] ELSE <<>>)
                 \in Seq(Action)
  <2>1. actions[c] \in Seq(Action) BY DEF TypeOK
  <2>2. sent[c] \in Seq(Action) OBVIOUS
  <2>3. <<>> \in Seq(Action) BY EmptySeq
  <2> QED BY <2>1, <2>2, <2>3, ConcatProperties
<1> QED BY <1>1 DEF Send

LEMMA SendChangeTyping ==
    ASSUME TypeOK, NEW cs, SendChange(cs)
    PROVE  actions' \in [Clients -> Seq(Action)]
<1>1. Joined("change") \in Action BY DEF Joined, Action
<1>2. <<Joined("change")>> \in Seq(Action) /\ <<>> \in Seq(Action)
  BY <1>1, EmptySeq
<1> DEFINE sent == [c \in Clients |-> IF c \in cs THEN <<Joined("change")>>
                                                  ELSE <<>>]
<1>3. sent \in [Clients -> Seq(Action)] BY <1>2
<1>4. Send(sent) BY DEF SendChange
<1> QED BY <1>3, <1>4, SendTyping

LEMMA KickTyping ==
    ASSUME TypeOK, NEW c \in Clients, Kick(c)
    PROVE  actions' \in [Clients -> Seq(Action)]
<1>1. CASE UNCHANGED actions BY <1>1 DEF TypeOK
<1> DEFINE sent == [x \in Clients |-> IF x = c THEN <<Kicked>> ELSE <<>>]
<1>2. CASE Send(sent)
  <2>1. Kicked \in Action BY DEF Kicked, Action
  <2>2. <<Kicked>> \in Seq(Action) /\ <<>> \in Seq(Action) BY <2>1, EmptySeq
  <2>3. sent \in [Clients -> Seq(Action)] BY <2>2
  <2> QED BY <1>2, <2>3, SendTyping
<1> QED BY <1>1, <1>2 DEF Kick

\* What Add leaves behind, whether it succeeds or not.
AddOK == /\ registry' \in Objs \cup {NoGroup}
         /\ desc' \in [Objs -> Descs \cup {NoDesc}]
         /\ locked' \in [Objs -> BOOLEAN]
         /\ actions' \in [Clients -> Seq(Action)]
         /\ toKick' \subseteq Clients

LEMMA MembersTyping ==
    ASSUME TypeOK, NEW o \in Objs
    PROVE  Members(o) \subseteq Clients
BY DEF TypeOK, Members

LEMMA AddSucceedsTyping ==
    ASSUME TypeOK, NEW d \in Descs \cup {NoDesc}, NEW o \in Objs,
           AddSucceeds(d, o)
    PROVE  AddOK /\ desc'[o] \in Descs /\ \A x \in Objs : x # o => desc'[x] = desc[x]
<1> DEFINE fresh == FreshDescription(d)
           wasLocked == ~(registry = NoGroup) /\ locked[o]
           locks == fresh.autolock /\ ~wasLocked /\ NoOps(o)
           changed == ~(registry = NoGroup) /\ desc[o] # fresh
<1>1. fresh \in Descs /\ desc' = [desc EXCEPT ![o] = fresh]
  BY DescsAssumption DEF AddSucceeds, FreshDescription, TypeOK
<1>2. desc' \in [Objs -> Descs \cup {NoDesc}] /\ desc'[o] \in Descs
      /\ \A x \in Objs : x # o => desc'[x] = desc[x]
  BY <1>1 DEF TypeOK
<1>3. registry' = o BY DEF AddSucceeds
<1>4. locked' \in [Objs -> BOOLEAN]
  <2>1. locked' = [locked EXCEPT ![o] = wasLocked \/ locks]
    BY Zenon DEF AddSucceeds
  <2>2. (wasLocked \/ locks) \in BOOLEAN OBVIOUS
  <2> HIDE DEF wasLocked, locks
  <2> QED BY <2>1, <2>2 DEF TypeOK
<1>5. actions' \in [Clients -> Seq(Action)]
  <2>1. SendChange(IF locks \/ changed THEN Members(o) ELSE {})
    BY Zenon DEF AddSucceeds
  <2> HIDE DEF locks, changed
  <2> QED BY <2>1, SendChangeTyping
<1>6. toKick' \subseteq Clients
  BY MembersTyping DEF AddSucceeds, TypeOK
<1> QED BY <1>2, <1>3, <1>4, <1>5, <1>6 DEF AddOK

LEMMA AddFailsTyping ==
    ASSUME TypeOK, NEW d, AddFails(d)
    PROVE  AddOK /\ UNCHANGED desc
BY DEF TypeOK, AddOK, AddFails, DeleteUnlocked
LEMMA AddTyping ==
    ASSUME TypeOK,
           (\E o \in Objs : AddSucceeds(NoDesc, o)) \/ AddFails(NoDesc)
    PROVE  AddOK
BY AddSucceedsTyping, AddFailsTyping

\* The actions of the update, of HTTP requests and of administrators.
ServerStep == \/ Request \/ Update
              \/ \E d \in Descs \cup {NoDesc} : EditDescription(d)

LEMMA ServerTyping ==
    ASSUME TypeOK, ServerStep
    PROVE  TypeOK'
<1> USE BudgetAssumption
<1>1. CASE Request
  BY <1>1, AddTyping DEF Request, AddOK, TypeOK, Spend, restVars, updateVars, callVars
<1>2. ASSUME NEW d \in Descs \cup {NoDesc}, EditDescription(d) PROVE TypeOK'
  BY <1>2 DEF EditDescription, TypeOK, Spend, registryVars, updateVars, callVars
<1>3. CASE UpdateCheck
  BY <1>3 DEF UpdateCheck, TypeOK, registryVars, callVars
<1>4. CASE UpdateDelete
  BY <1>4 DEF UpdateDelete, TypeOK, callVars
<1>5. CASE UpdateAdd
  BY <1>5, AddTyping DEF UpdateAdd, AddOK, TypeOK, callVars
<1>6. CASE UpdateRead
  BY <1>6 DEF UpdateRead, TypeOK, registryVars, callVars
<1>7. CASE UpdatePublic
  <2>1. read \in Descs \cup {NoDesc} BY DEF TypeOK
  <2>2. AddOK BY <1>7, <2>1, AddSucceedsTyping DEF UpdatePublic
  <2> QED BY <1>7, <2>2 DEF UpdatePublic, AddOK, TypeOK, callVars
<1> QED BY <1>1, <1>2, <1>3, <1>4, <1>5, <1>6, <1>7 DEF ServerStep, Update

(* An operation under way has found its group. *)
Located == \A c \in Clients : pc[c] # "idle" => at[c] \in Objs

LEMMA ClientTyping ==
    ASSUME TypeOK, Located, NEW c \in Clients, ClientStep(c)
    PROVE  TypeOK'
<1> USE BudgetAssumption, ClientsAssumption
<1>1. CASE AddClient(c)
  <2>1. AddOK
    BY <1>1, AddTyping DEF AddClient
  <2>2. pc' \in [Clients -> {"idle", "added", "removed", "told", "locking"}]
        /\ at' \in [Clients -> Objs \cup {NoGroup}]
    <3>1. CASE UNCHANGED <<pc, at>> BY <3>1 DEF TypeOK
    <3>2. ASSUME NEW o \in Objs, pc' = [pc EXCEPT ![c] = "added"],
                 at' = [at EXCEPT ![c] = o]
          PROVE  /\ pc' \in [Clients -> {"idle", "added", "removed", "told", "locking"}]
                 /\ at' \in [Clients -> Objs \cup {NoGroup}]
      BY <3>2 DEF TypeOK
    <3> QED BY <1>1, <3>1, <3>2, Zenon DEF AddClient
  <2> QED BY <1>1, <2>1, <2>2
          DEF AddClient, AddOK, TypeOK, Spend, restVars, updateVars
<1>2. CASE Admit(c)
  <2> DEFINE o == at[c]
             ids == {IdOf[y] : y \in Members(o) \cup {c}}
             new == [x \in Clients |->
                        IF x = c
                        THEN <<Joined("join"), Added(ids)>>
                        ELSE IF x \in Members(o) THEN <<Added({IdOf[c]})>>
                                                 ELSE <<>>]
  <2>1. o \in Objs BY <1>2 DEF Located, Admit
  <2>2. members' \in [Objs -> [Ids -> Clients \cup {NoClient}]]
    BY <1>2, <2>1 DEF Admit, TypeOK
  <2>3. group' \in [Clients -> Objs \cup {NoGroup}]
    BY <1>2, <2>1 DEF Admit, TypeOK
  <2>4. actions' \in [Clients -> Seq(Action)]
    <3>1. Members(o) \subseteq Clients BY <2>1, MembersTyping
    <3>2. ids \subseteq Ids BY <3>1
    <3>3. Joined("join") \in Action BY DEF Joined, Action
    <3>4. Added(ids) \in Action BY <3>2 DEF Added, Action
    <3>5. Added({IdOf[c]}) \in Action BY DEF Added, Action
    <3>6. new \in [Clients -> Seq(Action)]
      <4> HIDE DEF ids
      <4>1. <<Joined("join"), Added(ids)>> \in Seq(Action) BY <3>3, <3>4
      <4>2. <<Added({IdOf[c]})>> \in Seq(Action) BY <3>5
      <4>3. <<>> \in Seq(Action) BY EmptySeq
      <4> QED BY <4>1, <4>2, <4>3
    <3>7. Send(new) BY <1>2 DEF Admit
    <3> HIDE DEF new
    <3> QED BY <3>6, <3>7, SendTyping
  <2>5. op' \in [Clients -> BOOLEAN] BY <1>2 DEF Admit, TypeOK
  <2> QED BY <1>2, <2>2, <2>3, <2>4, <2>5
          DEF Admit, Return, TypeOK, registryVars, restVars, updateVars
<1>3. CASE Refuse(c)
  <2>1. op' = op \/ op' = [op EXCEPT ![c] = c \in LoginOp]
    BY <1>3, Zenon DEF Refuse
  <2>2. op' \in [Clients -> BOOLEAN]
    <3>1. CASE op' = op BY <3>1 DEF TypeOK
    <3>2. CASE op' = [op EXCEPT ![c] = c \in LoginOp] BY <3>2 DEF TypeOK
    <3> QED BY <2>1, <3>1, <3>2
  <2> QED BY <1>3, <2>2
          DEF Refuse, Return, TypeOK, registryVars, restVars, updateVars
<1>4. CASE DelClient(c)
  <2>1. group[c] \in Objs BY <1>4 DEF DelClient, TypeOK
  <2>2. CASE members[group[c]][IdOf[c]] = c
    <3>0. /\ members' = [members EXCEPT ![group[c]][IdOf[c]] = NoClient]
          /\ snapshot' = [snapshot EXCEPT ![c] = Members(group[c]) \ {c}]
      BY <1>4, <2>2, Zenon DEF DelClient
    <3>1. members' \in [Objs -> [Ids -> Clients \cup {NoClient}]]
      BY <2>1, <3>0 DEF TypeOK
    <3>2. Members(group[c]) \subseteq Clients BY <2>1, MembersTyping
    <3>3. snapshot' \in [Clients -> SUBSET Clients]
      BY <3>0, <3>2 DEF TypeOK
    <3> QED BY <1>4, <2>1, <2>2, <3>1, <3>3
            DEF DelClient, TypeOK, registryVars, restVars, updateVars
  <2>3. CASE members[group[c]][IdOf[c]] # c
    BY <1>4, <2>3
       DEF DelClient, Leave, Return, TypeOK, registryVars, restVars, updateVars
  <2> QED BY <2>2, <2>3
<1>5. CASE TellDeleted(c)
  <2> DEFINE new == [x \in Clients |->
                        IF x = c THEN <<Joined("leave")>>
                        ELSE IF x \in snapshot[c] THEN <<Deleted(IdOf[c])>>
                                                  ELSE <<>>]
  <2>1. Joined("leave") \in Action /\ Deleted(IdOf[c]) \in Action
    BY DEF Joined, Deleted, Action
  <2>2. new \in [Clients -> Seq(Action)] BY <2>1, EmptySeq
  <2>3. Send(new) BY <1>5 DEF TellDeleted
  <2>4. actions' \in [Clients -> Seq(Action)]
    <3> HIDE DEF new
    <3> QED BY <2>2, <2>3, SendTyping
  <2> QED BY <1>5, <2>4
          DEF TellDeleted, TypeOK, registryVars, restVars, updateVars
<1>6. CASE ScanForOps(c)
  <2>1. at[c] \in Objs BY <1>6 DEF Located, ScanForOps
  <2>2. Members(at[c]) \subseteq Clients BY <2>1, MembersTyping
  <2>3. snapshot' \in [Clients -> SUBSET Clients]
    <3>1. \/ snapshot' = [snapshot EXCEPT ![c] = Members(at[c])]
          \/ snapshot' = [snapshot EXCEPT ![c] = {}]
      BY <1>6, Zenon DEF ScanForOps, Leave, Return
    <3> QED BY <2>2, <3>1 DEF TypeOK
  <2> QED BY <1>6, <2>3
          DEF ScanForOps, Leave, Return, TypeOK, registryVars, restVars, updateVars
<1>7. CASE LockAndKick(c)
  <2>1. at[c] \in Objs BY <1>7 DEF Located, LockAndKick
  <2>2. Members(at[c]) \subseteq Clients BY <2>1, MembersTyping
  <2>3. actions' \in [Clients -> Seq(Action)]
    BY <1>7, SendChangeTyping, Zenon DEF LockAndKick
  <2>4. locked' \in [Objs -> BOOLEAN]
    BY <1>7 DEF LockAndKick, TypeOK
  <2> QED BY <1>7, <2>2, <2>3, <2>4
          DEF LockAndKick, Leave, Return, TypeOK, restVars, updateVars
<1>8. ASSUME NEW lock \in BOOLEAN, SetLocked(c, lock) PROVE TypeOK'
  <2>1. actions' \in [Clients -> Seq(Action)]
    BY <1>8, SendChangeTyping DEF SetLocked
  <2> QED BY <1>8, <2>1
          DEF SetLocked, TypeOK, Spend, callVars, restVars, updateVars
<1>9. ASSUME NEW target \in Clients, KickUser(c, target) PROVE TypeOK'
  <2>1. actions' \in [Clients -> Seq(Action)]
    BY <1>9, KickTyping DEF KickUser
  <2> QED BY <1>9, <2>1
          DEF KickUser, TypeOK, Spend, registryVars, callVars, restVars, updateVars
<1>10. ASSUME NEW value \in BOOLEAN, SetOp(c, value) PROVE TypeOK'
  BY <1>10 DEF SetOp, TypeOK, registryVars, callVars, restVars, updateVars
<1>11. CASE TakeActions(c)
  BY <1>11, EmptySeq
     DEF TakeActions, TypeOK, registryVars, callVars, restVars, updateVars
<1>12. CASE StopListening(c)
  BY <1>12, EmptySeq
     DEF StopListening, TypeOK, registryVars, callVars, updateVars
<1>13. CASE KickOne(c)
  <2>1. actions' \in [Clients -> Seq(Action)]
    BY <1>13, KickTyping DEF KickOne
  <2> QED BY <1>13, <2>1
          DEF KickOne, TypeOK, registryVars, callVars, restVars, updateVars
<1> QED BY <1>1, <1>2, <1>3, <1>4, <1>5, <1>6, <1>7, <1>8, <1>9, <1>10, <1>11,
           <1>12, <1>13 DEF ClientStep, Proceed

LEMMA LocatedInvariant ==
    ASSUME TypeOK, Located, [Next]_vars
    PROVE  Located'
<1>1. CASE UNCHANGED vars
  BY <1>1 DEF vars, callVars, Located
<1>2. CASE ServerStep
  BY <1>2 DEF ServerStep, Update, Request, EditDescription, UpdateCheck, UpdateDelete,
              UpdateAdd, UpdateRead, UpdatePublic, callVars, Located
<1>3. ASSUME NEW c \in Clients, ClientStep(c) PROVE Located'
  <2>1. CASE AddClient(c)
    BY <2>1 DEF AddClient, Located, TypeOK
  <2>2. CASE DelClient(c)
    BY <2>2 DEF DelClient, Leave, Return, Located, TypeOK
  <2>3. CASE Proceed(c)
    BY <2>3 DEF Proceed, Admit, Refuse, TellDeleted, ScanForOps, LockAndKick,
                Leave, Return, Located, TypeOK
  <2>4. CASE UNCHANGED callVars
    BY <2>4 DEF callVars, Located
  <2> QED BY <1>3, <2>1, <2>2, <2>3, <2>4
          DEF ClientStep, SetLocked, KickUser, SetOp, TakeActions, StopListening,
              KickOne
<1> QED BY <1>1, <1>2, <1>3 DEF Next, ServerStep

TypeInv == TypeOK /\ Located

LEMMA InitTyping == Init => TypeInv
<1> SUFFICES ASSUME Init PROVE TypeOK /\ Located BY DEF TypeInv
<1>1. TypeOK
  <2>1. actions \in [Clients -> Seq(Action)] BY EmptySeq DEF Init
  <2> QED BY <2>1, BudgetAssumption, ClientsAssumption DEF Init, TypeOK
<1>2. Located BY DEF Init, Located
<1> QED BY <1>1, <1>2

LEMMA StepTyping == TypeInv /\ [Next]_vars => TypeInv'
<1> SUFFICES ASSUME TypeOK, Located, [Next]_vars PROVE TypeOK' /\ Located'
  BY DEF TypeInv
<1>1. ASSUME UNCHANGED vars PROVE TypeOK'
  <2>1. /\ UNCHANGED <<registry, desc, locked, members, op, group, pc, at, snapshot>>
        /\ UNCHANGED <<actions, toKick, listening, disk, update, read, budget>>
    BY <1>1 DEF vars, registryVars, callVars, updateVars
  <2> QED BY <2>1 DEF TypeOK
<1>2. TypeOK'
  BY <1>1, ServerTyping, ClientTyping DEF Next, ServerStep
<1> QED BY <1>2, LocatedInvariant

(* Whatever clients, administrators and the update do, the variables keep their
   types; in particular, the registry only ever holds groups, and every
   operation works on the group that it found. *)
THEOREM TypeCorrect == Safety => []TypeOK
<1>1. TypeInv => TypeOK BY DEF TypeInv
<1> QED BY <1>1, InitTyping, StepTyping, PTL DEF Safety

-----------------------------------------------------------------------------
(* Membership. *)

\* The steps that leave the tables of clients, the clients' groups and their
\* operations alone, and those that do not.
LEMMA MembershipSteps ==
    ASSUME [Next]_vars
    PROVE  \/ UNCHANGED <<members, group, pc, at>>
           \/ \E c \in Clients : AddClient(c) \/ DelClient(c) \/ Proceed(c)
<1>1. CASE UNCHANGED vars BY <1>1 DEF vars, callVars
<1>2. CASE ServerStep
  BY <1>2 DEF ServerStep, Update, Request, EditDescription, UpdateCheck, UpdateDelete,
              UpdateAdd, UpdateRead, UpdatePublic, callVars
<1>3. ASSUME NEW c \in Clients, ClientStep(c)
      PROVE  \/ UNCHANGED <<members, group, pc, at>>
             \/ AddClient(c) \/ DelClient(c) \/ Proceed(c)
  BY <1>3 DEF ClientStep, SetLocked, KickUser, SetOp, TakeActions, StopListening,
              KickOne, callVars
<1> QED BY <1>1, <1>2, <1>3 DEF Next, ServerStep

\* What the end of an operation that leaves a group does.
LEMMA Leaves ==
    ASSUME TypeOK, NEW c \in Clients, Leave(c)
    PROVE  /\ group' = [group EXCEPT ![c] = NoGroup]
           /\ pc' = [pc EXCEPT ![c] = "idle"]
BY DEF Leave, Return

\* A client that is about to enter a group is in none.
Entering == \A c \in Clients : pc[c] = "added" => group[c] = NoGroup

MemberInv == TypeInv /\ StaysMember /\ Entering

LEMMA AdmitKeepsMembers ==
    ASSUME MemberInv, NEW c \in Clients, Admit(c)
    PROVE  StaysMember' /\ Entering'
<1> USE ClientsAssumption DEF MemberInv, TypeInv
<1> DEFINE o == at[c]
<1>1. /\ o \in Objs /\ IdOf[c] \in Ids
      /\ members[o][IdOf[c]] = NoClient
      /\ members' = [members EXCEPT ![o][IdOf[c]] = c]
      /\ pc' = [pc EXCEPT ![c] = "idle"]
      /\ group' = group \/ group' = [group EXCEPT ![c] = o]
  BY DEF Admit, Return, Located
<1>2. group[c] = NoGroup BY DEF Admit, Entering
<1>3. ASSUME NEW x \in Clients, group'[x] # NoGroup, pc'[x] = "idle"
      PROVE  members'[group'[x]][IdOf[x]] = x
  <2>1. CASE x = c
    BY <1>1, <1>2, <1>3, <2>1 DEF TypeOK
  <2>2. CASE x # c
    <3>1. group'[x] = group[x] /\ pc[x] = "idle" /\ group[x] \in Objs
      BY <1>1, <1>3, <2>2 DEF TypeOK
    <3>2. members[group[x]][IdOf[x]] = x BY <1>3, <3>1 DEF StaysMember
    <3>3. ~(group[x] = o /\ IdOf[x] = IdOf[c]) BY <1>1, <3>2
    <3>4. members'[group[x]][IdOf[x]] = members[group[x]][IdOf[x]]
      BY <1>1, <3>1, <3>3 DEF TypeOK
    <3> QED BY <3>1, <3>2, <3>4
  <2> QED BY <2>1, <2>2
<1>4. StaysMember' BY <1>3 DEF StaysMember
<1>5. Entering' BY <1>1 DEF Entering, TypeOK
<1> QED BY <1>4, <1>5

LEMMA DelClientKeepsMembers ==
    ASSUME MemberInv, NEW c \in Clients, DelClient(c)
    PROVE  /\ StaysMember' /\ Entering'
           /\ members[group[c]][IdOf[c]] = c
           /\ group[c] \in Objs
           /\ members' = [members EXCEPT ![group[c]][IdOf[c]] = NoClient]
           /\ pc' = [pc EXCEPT ![c] = "removed"]
           /\ UNCHANGED group
<1> USE ClientsAssumption DEF MemberInv, TypeInv
<1> DEFINE o == group[c]
<1>1. o \in Objs /\ IdOf[c] \in Ids /\ members[o][IdOf[c]] = c
  BY DEF DelClient, TypeOK, StaysMember
<1>2. /\ members' = [members EXCEPT ![o][IdOf[c]] = NoClient]
      /\ pc' = [pc EXCEPT ![c] = "removed"]
      /\ UNCHANGED group
  BY <1>1, Zenon DEF DelClient
<1>3. ASSUME NEW x \in Clients, group'[x] # NoGroup, pc'[x] = "idle"
      PROVE  members'[group'[x]][IdOf[x]] = x
  <2>1. x # c BY <1>2, <1>3 DEF TypeOK
  <2>2. group'[x] = group[x] /\ pc[x] = "idle" /\ group[x] \in Objs
    BY <1>2, <1>3, <2>1 DEF TypeOK
  <2>3. members[group[x]][IdOf[x]] = x BY <1>3, <2>2 DEF StaysMember
  <2>4. ~(group[x] = o /\ IdOf[x] = IdOf[c]) BY <1>1, <2>1, <2>3
  <2>5. members'[group[x]][IdOf[x]] = members[group[x]][IdOf[x]]
    BY <1>1, <1>2, <2>2, <2>4 DEF TypeOK
  <2> QED BY <2>2, <2>3, <2>5
<1>4. StaysMember' BY <1>3 DEF StaysMember
<1>5. Entering' BY <1>2 DEF Entering, TypeOK
<1> QED BY <1>1, <1>2, <1>4, <1>5

LEMMA MemberStep == MemberInv /\ [Next]_vars => MemberInv'
<1> SUFFICES ASSUME MemberInv, [Next]_vars PROVE StaysMember' /\ Entering'
  BY StepTyping DEF MemberInv
<1> USE DEF MemberInv, TypeInv
<1>1. CASE UNCHANGED <<members, group, pc, at>>
  BY <1>1 DEF StaysMember, Entering
<1>2. ASSUME NEW c \in Clients, AddClient(c) PROVE StaysMember' /\ Entering'
  <2>1. /\ UNCHANGED <<members, group>>
        /\ pc[c] = "idle" /\ group[c] = NoGroup
        /\ pc' = pc \/ pc' = [pc EXCEPT ![c] = "added"]
    BY <1>2 DEF AddClient
  <2> QED BY <2>1 DEF StaysMember, Entering, TypeOK
<1>3. ASSUME NEW c \in Clients, Refuse(c) PROVE StaysMember' /\ Entering'
  BY <1>3 DEF Refuse, Return, StaysMember, Entering, TypeOK
<1>4. ASSUME NEW c \in Clients, TellDeleted(c) PROVE StaysMember' /\ Entering'
  BY <1>4 DEF TellDeleted, StaysMember, Entering, TypeOK
<1>5. ASSUME NEW c \in Clients, ScanForOps(c) \/ LockAndKick(c)
      PROVE  StaysMember' /\ Entering'
  <2>1. /\ UNCHANGED members
        /\ \/ pc' = [pc EXCEPT ![c] = "locking"] /\ UNCHANGED group
           \/ /\ pc' = [pc EXCEPT ![c] = "idle"]
              /\ group' = [group EXCEPT ![c] = NoGroup]
    BY <1>5, Zenon DEF ScanForOps, LockAndKick, Leave, Return
  <2> QED BY <2>1 DEF StaysMember, Entering, TypeOK
<1> QED BY <1>1, <1>2, <1>3, <1>4, <1>5, MembershipSteps, AdmitKeepsMembers,
           DelClientKeepsMembers DEF Proceed

(* A client that has joined keeps its place in the group until it leaves,
   however the joins and departures of others, under its own identifier too,
   interleave with edits and with the deletion and re-creation of the group. *)
THEOREM MembersStay == Safety => []StaysMember
<1>1. Init => MemberInv
  BY InitTyping DEF Init, MemberInv, StaysMember, Entering
<1>2. MemberInv => StaysMember BY DEF MemberInv
<1> QED BY <1>1, <1>2, MemberStep, PTL DEF Safety

-----------------------------------------------------------------------------
(* Nobody is left behind. *)

\* Clients are filed under their own identifiers.
Filed == \A o \in Objs, i \in Ids :
             members[o][i] # NoClient => IdOf[members[o][i]] = i

\* The group that a client is about to enter has a description.
Described == \A c \in Clients : pc[c] = "added" => desc[at[c]] \in Descs

NoRedirects == \A d \in Descs : ~d.redirect

GhostInv == MemberInv /\ NoGhost /\ Filed

LEMMA DescribedStep ==
    ASSUME TypeInv, Described, [Next]_vars
    PROVE  Described'
<1> USE DEF TypeInv
<1> DEFINE Grows == \A x \in Objs : desc[x] \in Descs => desc'[x] \in Descs
<1>1. ASSUME NEW d \in Descs \cup {NoDesc}, NEW o \in Objs, AddSucceeds(d, o)
      PROVE  Grows /\ desc'[o] \in Descs
  BY <1>1, AddSucceedsTyping
<1>2. (\E o \in Objs : AddSucceeds(NoDesc, o)) \/ AddFails(NoDesc) => Grows
  BY <1>1, AddFailsTyping
<1>3. Grows
  <2>1. CASE UNCHANGED desc BY <2>1
  <2>2. CASE Request BY <1>2, <2>2 DEF Request
  <2>3. CASE UpdateAdd BY <1>2, <2>3 DEF UpdateAdd
  <2>4. CASE UpdatePublic BY <1>1, <2>4 DEF UpdatePublic, TypeOK
  <2>5. ASSUME NEW c \in Clients, AddClient(c) PROVE Grows
    BY <1>2, <2>5 DEF AddClient
  <2>6. CASE Update
    BY <2>1, <2>3, <2>4, <2>6 DEF Update, UpdateCheck, UpdateDelete, UpdateRead,
                                  registryVars
  <2>7. ASSUME NEW c \in Clients, ClientStep(c) PROVE Grows
    BY <2>1, <2>5, <2>7 DEF ClientStep, Proceed, Admit, Refuse, DelClient,
            TellDeleted, ScanForOps, LockAndKick, SetLocked, KickUser, SetOp,
            TakeActions, StopListening, KickOne, registryVars
  <2> QED BY <2>1, <2>2, <2>6, <2>7 DEF Next, EditDescription, vars, registryVars
<1>4. CASE UNCHANGED <<members, group, pc, at>>
  BY <1>3, <1>4 DEF Described, Located
<1>5. ASSUME NEW c \in Clients, AddClient(c) PROVE Described'
  <2>1. CASE UNCHANGED <<pc, at>> BY <1>3, <2>1 DEF Described, Located
  <2>2. ASSUME NEW o \in Objs, AddSucceeds(NoDesc, o),
               pc' = [pc EXCEPT ![c] = "added"], at' = [at EXCEPT ![c] = o]
        PROVE  Described'
    BY <1>1, <1>3, <2>2 DEF Described, Located, TypeOK
  <2> QED BY <1>5, <2>1, <2>2 DEF AddClient
<1>6. ASSUME NEW c \in Clients, DelClient(c) \/ Proceed(c) PROVE Described'
  <2>1. \E s \in {"idle", "removed", "told", "locking"} : pc' = [pc EXCEPT ![c] = s]
    BY <1>6, Zenon DEF DelClient, Proceed, Admit, Refuse, TellDeleted,
                       ScanForOps, LockAndKick, Leave, Return
  <2>2. \A x \in Clients : x # c => at'[x] = at[x]
    BY <1>6 DEF DelClient, Proceed, Admit, Refuse, TellDeleted, ScanForOps,
                LockAndKick, Leave, Return, TypeOK
  <2> QED BY <1>3, <2>1, <2>2 DEF Described, Located, TypeOK
<1> QED BY <1>4, <1>5, <1>6, MembershipSteps

LEMMA GhostStep ==
    ASSUME GhostInv, Described, NoRedirects, [Next]_vars
    PROVE  GhostInv'
<1> SUFFICES NoGhost' /\ Filed' BY MemberStep DEF GhostInv
<1> USE ClientsAssumption DEF GhostInv, MemberInv, TypeInv
<1>1. \A o \in Objs, c \in Clients :
          c \in Members(o) <=> members[o][IdOf[c]] = c
  BY DEF Members, Filed, TypeOK
<1>2. CASE UNCHANGED <<members, group, pc, at>>
  BY <1>2 DEF NoGhost, Filed, Members
<1>3. ASSUME NEW c \in Clients, Admit(c) PROVE NoGhost' /\ Filed'
  <2> DEFINE o == at[c]
  <2>1. /\ o \in Objs /\ IdOf[c] \in Ids
        /\ members[o][IdOf[c]] = NoClient
        /\ members' = [members EXCEPT ![o][IdOf[c]] = c]
        /\ pc' = [pc EXCEPT ![c] = "idle"]
    BY <1>3 DEF Admit, Return, Located
  <2>2. group' = [group EXCEPT ![c] = o]
    <3>1. ~desc[o].redirect BY <1>3 DEF Admit, Described, NoRedirects
    <3> QED BY <1>3, <3>1 DEF Admit
  <2>3. Filed' BY <2>1 DEF Filed, TypeOK
  <2>4. ASSUME NEW p \in Objs, NEW i \in Ids, members'[p][i] # NoClient
        PROVE  group'[members'[p][i]] = p /\ pc'[members'[p][i]] = "idle"
    <3>1. CASE p = o /\ i = IdOf[c] BY <2>1, <2>2, <3>1 DEF TypeOK
    <3>2. CASE ~(p = o /\ i = IdOf[c])
      <4>1. members'[p][i] = members[p][i] BY <2>1, <3>2 DEF TypeOK
      <4>2. members[p][i] \in Members(p) BY <2>4, <4>1 DEF Members
      <4>3. members[p][i] \in Clients BY <4>2, MembersTyping
      <4>4. group[members[p][i]] = p /\ pc[members[p][i]] = "idle"
        BY <4>2 DEF NoGhost
      <4>5. members[p][i] # c
        BY <1>3, <4>4 DEF Admit
      <4> QED BY <2>1, <2>2, <4>1, <4>3, <4>4, <4>5 DEF TypeOK
    <3> QED BY <3>1, <3>2
  <2> QED BY <2>3, <2>4 DEF NoGhost, Members
<1>4. ASSUME NEW c \in Clients, DelClient(c) PROVE NoGhost' /\ Filed'
  <2> DEFINE o == group[c]
  <2>1. /\ o \in Objs /\ IdOf[c] \in Ids /\ members[o][IdOf[c]] = c
        /\ members' = [members EXCEPT ![o][IdOf[c]] = NoClient]
        /\ pc' = [pc EXCEPT ![c] = "removed"]
        /\ UNCHANGED group
    BY <1>4, DelClientKeepsMembers
  <2>2. Filed' BY <2>1 DEF Filed, TypeOK
  <2>3. ASSUME NEW p \in Objs, NEW i \in Ids, members'[p][i] # NoClient
        PROVE  group'[members'[p][i]] = p /\ pc'[members'[p][i]] = "idle"
    <3>1. ~(p = o /\ i = IdOf[c]) BY <2>1, <2>3 DEF TypeOK
    <3>2. members'[p][i] = members[p][i] BY <2>1, <3>1 DEF TypeOK
    <3>3. members[p][i] \in Members(p) BY <2>3, <3>2 DEF Members
    <3>4. members[p][i] \in Clients BY <3>3, MembersTyping
    <3>5. group[members[p][i]] = p /\ pc[members[p][i]] = "idle"
      BY <3>3 DEF NoGhost
    <3>6. members[p][i] # c
      BY <2>3, <3>1, <3>2, <3>5 DEF Filed
    <3> QED BY <2>1, <3>2, <3>4, <3>5, <3>6 DEF TypeOK
  <2> QED BY <2>2, <2>3 DEF NoGhost, Members
<1>5. ASSUME NEW c \in Clients,
             AddClient(c) \/ Refuse(c) \/ TellDeleted(c) \/ ScanForOps(c)
                 \/ LockAndKick(c)
      PROVE  NoGhost' /\ Filed'
  <2>1. /\ UNCHANGED members
        /\ \A x \in Clients : x # c => group'[x] = group[x] /\ pc'[x] = pc[x]
    BY <1>5 DEF AddClient, Refuse, TellDeleted, ScanForOps, LockAndKick, Leave,
                Return, TypeOK
  <2>2. \A o \in Objs : c \notin Members(o)
    <3>1. CASE AddClient(c)
      BY <3>1, ObjsAssumption DEF AddClient, NoGhost
    <3>2. CASE Refuse(c) \/ TellDeleted(c) \/ ScanForOps(c) \/ LockAndKick(c)
      BY <3>2 DEF Refuse, TellDeleted, ScanForOps, LockAndKick, NoGhost
    <3> QED BY <1>5, <3>1, <3>2
  <2>3. Filed' BY <2>1 DEF Filed
  <2>4. NoGhost'
    <3>1. \A o \in Objs : Members(o)' = Members(o) BY <2>1 DEF Members
    <3> QED BY <2>1, <2>2, <3>1, MembersTyping DEF NoGhost
  <2> QED BY <2>3, <2>4
<1> QED BY <1>2, <1>3, <1>4, <1>5, MembershipSteps DEF Proceed

(* As long as no description redirects, whoever is in a group's table knows
   it: no client that has left, or that was refused, stays behind. *)
THEOREM NobodyLeftBehind ==
    ASSUME NoRedirects
    PROVE  Safety => []NoGhost
<1> DEFINE Inv == GhostInv /\ Described
<1>1. Init => Inv
  <2> SUFFICES ASSUME Init PROVE Inv OBVIOUS
  <2>1. MemberInv BY InitTyping DEF Init, MemberInv, StaysMember, Entering
  <2>2. NoGhost /\ Filed /\ Described
    BY DEF Init, NoGhost, Filed, Described, Members
  <2> QED BY <2>1, <2>2 DEF GhostInv
<1>2. Inv /\ [Next]_vars => Inv'
  BY GhostStep, DescribedStep DEF GhostInv, MemberInv
<1>3. Inv => NoGhost BY DEF GhostInv
<1> QED BY <1>1, <1>2, <1>3, PTL DEF Safety

-----------------------------------------------------------------------------
(* The bound on the number of clients. *)

Ordinary(o) == Members(o) \ LoginOp

LEMMA OrdinaryFinite ==
    ASSUME TypeOK, NEW o \in Objs
    PROVE  /\ IsFiniteSet(Members(o)) /\ Cardinality(Members(o)) \in Nat
           /\ IsFiniteSet(Ordinary(o)) /\ Cardinality(Ordinary(o)) \in Nat
           /\ Cardinality(Ordinary(o)) <= Cardinality(Members(o))
<1>1. IsFiniteSet(Members(o))
  BY MembersTyping, FS_Subset, ClientsAssumption
<1>2. Ordinary(o) \subseteq Members(o) BY DEF Ordinary
<1> QED BY <1>1, <1>2, FS_Subset, FS_CardinalityType

\* A table that does not gain ordinary clients does not exceed the bound.
LEMMA NoMoreClients ==
    ASSUME TypeOK, TypeOK', MaxClientsRespected, NEW o \in Objs,
           Ordinary(o)' \subseteq Ordinary(o)
    PROVE  Cardinality(Ordinary(o)') <= Cap
<1>1. Cardinality(Ordinary(o)) <= Cap /\ Cardinality(Ordinary(o)) \in Nat
  BY OrdinaryFinite DEF MaxClientsRespected, Ordinary
<1>2. IsFiniteSet(Ordinary(o)) BY OrdinaryFinite
<1>3. Cardinality(Ordinary(o)') <= Cardinality(Ordinary(o))
      /\ Cardinality(Ordinary(o)') \in Nat
  BY <1>2, FS_Subset, FS_CardinalityType
<1> QED BY <1>1, <1>3, CapAssumption

LEMMA AdmitBounded ==
    ASSUME TypeInv, TypeInv', Described, MaxClientsRespected,
           NEW c \in Clients, Admit(c)
    PROVE  MaxClientsRespected'
<1> USE ClientsAssumption DEF TypeInv
<1> DEFINE p == at[c]
<1>1. /\ p \in Objs /\ IdOf[c] \in Ids /\ members[p][IdOf[c]] = NoClient
      /\ members' = [members EXCEPT ![p][IdOf[c]] = c]
  BY DEF Admit, Located
<1>2. ASSUME NEW o \in Objs PROVE Cardinality(Ordinary(o)') <= Cap
  <2>1. CASE o # p
    <3>1. members'[o] = members[o] BY <1>1, <2>1 DEF TypeOK
    <3>2. Ordinary(o)' \subseteq Ordinary(o) BY <3>1 DEF Ordinary, Members
    <3> QED BY <3>2, NoMoreClients
  <2>2. CASE o = p /\ c \in LoginOp
    <3>1. \A i \in Ids : members'[o][i] = members[o][i] \/ members'[o][i] = c
      BY <1>1, <2>2 DEF TypeOK
    <3>2. Ordinary(o)' \subseteq Ordinary(o) BY <2>2, <3>1 DEF Ordinary, Members
    <3> QED BY <3>2, NoMoreClients
  <2>3. CASE o = p /\ c \notin LoginOp
    <3>1. \A i \in Ids : members'[o][i] = members[o][i] \/ members'[o][i] = c
      BY <1>1, <2>3 DEF TypeOK
    <3>2. Ordinary(o)' \subseteq Ordinary(o) \cup {c}
      BY <3>1 DEF Ordinary, Members
    <3>3. Cardinality(Members(o)) < desc[o].max
      BY <2>3 DEF Admit, MayEnter
    <3>4. desc[o].max \in 1..Cap
      BY <2>3, CapAssumption DEF Admit, Described
    <3>5. Cardinality(Ordinary(o)) < Cap /\ Cardinality(Ordinary(o)) \in Nat
      BY <3>3, <3>4, OrdinaryFinite, CapAssumption
    <3>6. /\ IsFiniteSet(Ordinary(o) \cup {c})
          /\ Cardinality(Ordinary(o) \cup {c}) \in Nat
          /\ Cardinality(Ordinary(o) \cup {c}) <= Cardinality(Ordinary(o)) + 1
      <4>1. IsFiniteSet(Ordinary(o)) /\ Cardinality(Ordinary(o)) \in Nat
        BY OrdinaryFinite
      <4>2. Cardinality(Ordinary(o) \cup {c})
                = IF c \in Ordinary(o) THEN Cardinality(Ordinary(o))
                                       ELSE Cardinality(Ordinary(o)) + 1
        BY <4>1, FS_AddElement
      <4>3. IsFiniteSet(Ordinary(o) \cup {c}) BY <4>1, FS_AddElement
      <4> QED BY <4>1, <4>2, <4>3
    <3>7. /\ Cardinality(Ordinary(o)') <= Cardinality(Ordinary(o) \cup {c})
          /\ Cardinality(Ordinary(o)') \in Nat
      BY <3>2, <3>6, FS_Subset, FS_CardinalityType
    <3> QED BY <3>5, <3>6, <3>7, CapAssumption
  <2> QED BY <2>1, <2>2, <2>3
<1> QED BY <1>2 DEF MaxClientsRespected, Ordinary

\* Every other step only takes clients away.
LEMMA OthersShrink ==
    ASSUME TypeInv, [Next]_vars, \A c \in Clients : ~Admit(c), NEW o \in Objs
    PROVE  Ordinary(o)' \subseteq Ordinary(o)
<1> USE ClientsAssumption DEF TypeInv
<1>1. CASE UNCHANGED members BY <1>1 DEF Ordinary, Members
<1>2. ASSUME NEW c \in Clients, DelClient(c)
      PROVE  Ordinary(o)' \subseteq Ordinary(o)
  <2>1. \/ UNCHANGED members
        \/ members' = [members EXCEPT ![group[c]][IdOf[c]] = NoClient]
    BY <1>2, Zenon DEF DelClient
  <2>2. group[c] \in Objs BY <1>2 DEF DelClient, TypeOK
  <2>3. ASSUME NEW i \in Ids
        PROVE  members'[o][i] = members[o][i] \/ members'[o][i] = NoClient
    <3>1. members[o] \in [Ids -> Clients \cup {NoClient}] BY DEF TypeOK
    <3>2. CASE UNCHANGED members BY <3>2
    <3>3. CASE members' = [members EXCEPT ![group[c]][IdOf[c]] = NoClient]
      BY <2>2, <3>1, <3>3 DEF TypeOK
    <3> QED BY <2>1, <3>2, <3>3
  <2> QED BY <2>3 DEF Ordinary, Members
<1>3. ASSUME NEW c \in Clients, AddClient(c) \/ (Proceed(c) /\ ~Admit(c))
      PROVE  UNCHANGED members
  BY <1>3 DEF AddClient, Proceed, Refuse, TellDeleted, ScanForOps, LockAndKick
<1> QED BY <1>1, <1>2, <1>3, MembershipSteps

(* max-clients is never exceeded by clients that log in as ordinary users,
   whatever edits of the description, demotions and concurrent joins do. *)
THEOREM ClientsBounded == Safety => []MaxClientsRespected
<1> DEFINE Inv == TypeInv /\ Described /\ MaxClientsRespected
<1>1. Init => Inv
  <2> SUFFICES ASSUME Init PROVE Inv OBVIOUS
  <2>1. TypeInv /\ Described BY InitTyping DEF Init, Described
  <2>2. \A o \in Objs : Members(o) \ LoginOp = {} BY DEF Init, Members
  <2>3. MaxClientsRespected
    BY <2>2, FS_EmptySet, CapAssumption DEF MaxClientsRespected
  <2> QED BY <2>1, <2>3
<1>2. Inv /\ [Next]_vars => Inv'
  <2> SUFFICES ASSUME Inv, [Next]_vars PROVE Inv' OBVIOUS
  <2>1. TypeInv' /\ Described' BY StepTyping, DescribedStep
  <2>2. CASE \E c \in Clients : Admit(c) BY <2>1, <2>2, AdmitBounded
  <2>3. CASE \A c \in Clients : ~Admit(c)
    <3>1. \A o \in Objs : Cardinality(Ordinary(o)') <= Cap
      BY <2>1, <2>3, OthersShrink, NoMoreClients DEF TypeInv
    <3> QED BY <2>1, <3>1 DEF MaxClientsRespected, Ordinary
  <2> QED BY <2>2, <2>3
<1>3. Inv => MaxClientsRespected OBVIOUS
<1> QED BY <1>1, <1>2, <1>3, PTL DEF Safety
=============================================================================
