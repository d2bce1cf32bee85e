---------------------------- MODULE WebClientProofs ----------------------------
(***************************************************************************)
(* Proofs about module WebClient, for any clients, identifiers and bounds. *)
(* What GroupProofs shows of groups is used for the groups of the server:  *)
(* each step of the loops is a step of module Group on the queues as the   *)
(* group sees them.  The rest is about what the queues and the batches     *)
(* will have told the browsers, and needs induction on sequences.          *)
(***************************************************************************)
EXTENDS WebClient, SequenceTheorems, FiniteSetTheorems, WellFoundedInduction,
        TLAPS

-----------------------------------------------------------------------------
(* Induction, on numbers and on sequences. *)

(* A set of numbers that is not empty has a least element. *)
LEMMA Least ==
    ASSUME NEW T \in SUBSET Nat, T # {}
    PROVE  \E n \in T : \A m \in T : n <= m
<1> DEFINE R == {p \in Nat \X Nat : p[1] < p[2]}
<1>0. IsWellFoundedOn(R, Nat) BY NatLessThanWellFounded DEF OpToRel
<1>1. \E n \in T : \A m \in T : <<m, n>> \notin R
  <2> HIDE DEF R
  <2> QED BY <1>0, WFMin
<1>2. PICK n \in T : \A m \in T : <<m, n>> \notin R BY <1>1
<1>3. ASSUME NEW m \in T PROVE n <= m
  <2>1. <<m, n>> \notin R /\ m \in Nat /\ n \in Nat BY <1>2, <1>3
  <2>2. <<m, n>> \in Nat \X Nat /\ <<m, n>>[1] = m /\ <<m, n>>[2] = n BY <2>1
  <2>3. ~(m < n) BY <2>1, <2>2
  <2> QED BY <2>1, <2>3
<1> QED BY <1>2, <1>3

(* A set of numbers with 0 and with the successors of its elements is Nat. *)
LEMMA Induction ==
    ASSUME NEW T \in SUBSET Nat, 0 \in T, \A n \in T : n + 1 \in T
    PROVE  T = Nat
<1> SUFFICES ASSUME Nat \ T # {} PROVE FALSE OBVIOUS
<1>1. PICK n \in Nat \ T : \A m \in Nat \ T : n <= m BY Least
<1>2. n # 0 /\ n - 1 \in Nat /\ n - 1 < n BY <1>1
<1>3. n - 1 \in T BY <1>1, <1>2
<1>4. (n - 1) + 1 = n BY <1>2
<1> QED BY <1>1, <1>3, <1>4

-----------------------------------------------------------------------------
(* Choosing elements of a sequence. *)

(* The function that Only computes, on the first N elements. *)
Kept(f, s, S, N) == f = [n \in 0..N |->
                            IF n = 0 THEN <<>>
                            ELSE IF s[n] \in S THEN Append(f[n - 1], s[n])
                                               ELSE f[n - 1]]

(* There is such a function, whatever the length. *)
LEMMA KeptExists ==
    ASSUME NEW s, NEW S, NEW N \in Nat
    PROVE  \E f : Kept(f, s, S, N)
<1> DEFINE T == {n \in Nat : \E f : Kept(f, s, S, n)}
<1>1. 0 \in T
  <2>1. Kept([n \in 0..0 |-> <<>>], s, S, 0) BY DEF Kept
  <2> QED BY <2>1
<1>2. ASSUME NEW n \in T PROVE n + 1 \in T
  <2>1. PICK f : Kept(f, s, S, n) OBVIOUS
  <2> DEFINE e == IF s[n + 1] \in S THEN Append(f[n], s[n + 1]) ELSE f[n]
             g == [m \in 0..(n + 1) |-> IF m = n + 1 THEN e ELSE f[m]]
  <2>2. ASSUME NEW m \in 0..(n + 1)
        PROVE  g[m] = IF m = 0 THEN <<>>
                      ELSE IF s[m] \in S THEN Append(g[m - 1], s[m])
                                         ELSE g[m - 1]
    <3>1. CASE m = n + 1
      <4>1. g[m] = e /\ g[m - 1] = f[n] /\ m # 0 BY <3>1
      <4> QED BY <3>1, <4>1
    <3>2. CASE m # n + 1
      <4>1. m \in 0..n /\ g[m] = f[m] BY <3>2
      <4>2. f[m] = IF m = 0 THEN <<>>
                   ELSE IF s[m] \in S THEN Append(f[m - 1], s[m]) ELSE f[m - 1]
        BY <2>1, <4>1 DEF Kept
      <4>3. m # 0 => g[m - 1] = f[m - 1] BY <4>1
      <4> HIDE DEF g
      <4> QED BY <4>1, <4>2, <4>3
    <3> QED BY <3>1, <3>2
  <2>3. Kept(g, s, S, n + 1)
    <3>1. g = [m \in 0..(n + 1) |-> g[m]] OBVIOUS
    <3> HIDE DEF g
    <3>2. g = [m \in 0..(n + 1) |->
                  IF m = 0 THEN <<>>
                  ELSE IF s[m] \in S THEN Append(g[m - 1], s[m]) ELSE g[m - 1]]
      BY <2>2, <3>1, Zenon
    <3> QED BY <3>2 DEF Kept
  <2> QED BY <2>3
<1>3. T = Nat
  <2> HIDE DEF T
  <2>1. T \in SUBSET Nat BY DEF T
  <2> QED BY <1>1, <1>2, <2>1, Induction
<1> QED BY <1>3

(* What Only returns is its last value. *)
LEMMA OnlyKept ==
    ASSUME NEW s, NEW S, Len(s) \in Nat
    PROVE  \E f : Kept(f, s, S, Len(s)) /\ Only(s, S) = f[Len(s)]
<1> DEFINE f == CHOOSE f : Kept(f, s, S, Len(s))
<1>1. Kept(f, s, S, Len(s)) BY KeptExists
<1>2. Only(s, S) = f[Len(s)] BY Zenon DEF Only, Kept
<1> QED BY <1>1, <1>2

(* Its values depend only on the elements seen so far. *)
LEMMA KeptPrefix ==
    ASSUME NEW s, NEW t, NEW S, NEW N \in Nat, NEW M \in Nat, N <= M,
           \A n \in 1..N : s[n] = t[n],
           NEW f, NEW g, Kept(f, s, S, N), Kept(g, t, S, M)
    PROVE  f[N] = g[N]
<1> DEFINE T == {n \in Nat : n <= N => f[n] = g[n]}
<1>1. 0 \in T
  <2>1. f[0] = <<>> BY DEF Kept
  <2>2. g[0] = <<>> BY DEF Kept
  <2> QED BY <2>1, <2>2
<1>2. ASSUME NEW n \in T PROVE n + 1 \in T
  <2> SUFFICES ASSUME n + 1 <= N PROVE f[n + 1] = g[n + 1] OBVIOUS
  <2>1. f[n] = g[n] /\ s[n + 1] = t[n + 1] OBVIOUS
  <2>2. n + 1 \in 0..N /\ n + 1 \in 0..M /\ n + 1 # 0 /\ (n + 1) - 1 = n
    OBVIOUS
  <2>3. f[n + 1] = IF s[n + 1] \in S THEN Append(f[n], s[n + 1]) ELSE f[n]
    BY <2>2 DEF Kept
  <2>4. g[n + 1] = IF t[n + 1] \in S THEN Append(g[n], t[n + 1]) ELSE g[n]
    BY <2>2 DEF Kept
  <2> QED BY <2>1, <2>3, <2>4
<1>3. T = Nat
  <2> HIDE DEF T
  <2>1. T \in SUBSET Nat BY DEF T
  <2> QED BY <1>1, <1>2, <2>1, Induction
<1> QED BY <1>3

(* Nothing is chosen of nothing. *)
LEMMA OnlyEmpty == ASSUME NEW S PROVE Only(<<>>, S) = <<>>
<1>1. Len(<<>>) = 0 BY EmptySeq
<1>2. PICK f : Kept(f, <<>>, S, 0) /\ Only(<<>>, S) = f[0] BY <1>1, OnlyKept
<1> QED BY <1>2 DEF Kept

(* An element at the end is chosen or not by itself. *)
LEMMA OnlyAppend ==
    ASSUME NEW X, NEW s \in Seq(X), NEW e \in X, NEW S
    PROVE  Only(Append(s, e), S) = IF e \in S THEN Append(Only(s, S), e)
                                              ELSE Only(s, S)
<1> DEFINE t == Append(s, e)
           N == Len(s)
<1>1. /\ N \in Nat /\ Len(t) = N + 1 /\ t[N + 1] = e
      /\ \A n \in 1..N : s[n] = t[n]
  OBVIOUS
<1> HIDE DEF t, N
<1>2. PICK f : Kept(f, s, S, N) /\ Only(s, S) = f[N] BY <1>1, OnlyKept DEF N
<1>3. PICK g : Kept(g, t, S, N + 1) /\ Only(t, S) = g[N + 1] BY <1>1, OnlyKept
<1>4. f[N] = g[N] BY <1>1, <1>2, <1>3, KeptPrefix
<1>5. N + 1 \in 0..(N + 1) /\ N + 1 # 0 /\ (N + 1) - 1 = N BY <1>1
<1>6. g[N + 1] = IF t[N + 1] \in S THEN Append(g[N], t[N + 1]) ELSE g[N]
  BY <1>3, <1>5 DEF Kept
<1> QED BY <1>1, <1>2, <1>3, <1>4, <1>6 DEF t

(* A sequence that is not empty is a shorter one and its last element. *)
LEMMA LastAppended ==
    ASSUME NEW X, NEW n \in Nat, NEW s \in Seq(X), Len(s) = n + 1
    PROVE  /\ SubSeq(s, 1, n) \in Seq(X) /\ Len(SubSeq(s, 1, n)) = n
           /\ s[n + 1] \in X
           /\ s = Append(SubSeq(s, 1, n), s[n + 1])
<1> DEFINE p == SubSeq(s, 1, n)
<1>1. \A i \in 1..(n + 1) : s[i] \in X BY ElementOfSeq
<1>2. /\ p \in Seq(X) /\ Len(p) = n /\ \A i \in 1..n : p[i] = s[i]
  <2>1. \A i \in 1..n : s[i] \in X BY <1>1
  <2>2. /\ p \in Seq(X)
        /\ Len(p) = IF 1 <= n THEN n - 1 + 1 ELSE 0
        /\ \A i \in 1..(n - 1 + 1) : p[i] = s[1 + i - 1]
    BY <2>1, SubSeqProperties
  <2> QED BY <2>2
<1>3. s[n + 1] \in X BY <1>1
<1> HIDE DEF p
<1>4. /\ Append(p, s[n + 1]) \in Seq(X) /\ Len(Append(p, s[n + 1])) = n + 1
      /\ \A i \in 1..(n + 1) : Append(p, s[n + 1])[i] = s[i]
  BY <1>2, <1>3
<1>5. s = Append(p, s[n + 1]) BY <1>4, SeqEqual
<1> QED BY <1>2, <1>3, <1>5 DEF p

(* A set of sequences with the empty one, and with the extensions of its
   elements, has them all. *)
LEMMA SequenceInduction ==
    ASSUME NEW X, NEW Q \in SUBSET Seq(X),
           <<>> \in Q, \A s \in Q, e \in X : Append(s, e) \in Q
    PROVE  Q = Seq(X)
<1> DEFINE T == {n \in Nat : \A s \in Seq(X) : Len(s) = n => s \in Q}
<1>1. 0 \in T
  <2>1. ASSUME NEW s \in Seq(X), Len(s) = 0 PROVE s = <<>>
    BY <2>1, EmptySeq
  <2> QED BY <2>1
<1>2. ASSUME NEW n \in T PROVE n + 1 \in T
  <2>1. ASSUME NEW s \in Seq(X), Len(s) = n + 1 PROVE s \in Q
    <3>1. /\ SubSeq(s, 1, n) \in Seq(X) /\ Len(SubSeq(s, 1, n)) = n
          /\ s[n + 1] \in X /\ s = Append(SubSeq(s, 1, n), s[n + 1])
      BY <2>1, LastAppended
    <3>2. SubSeq(s, 1, n) \in Q BY <3>1
    <3> QED BY <3>1, <3>2
  <2>2. \A s \in Seq(X) : Len(s) = n + 1 => s \in Q BY <2>1
  <2>3. n + 1 \in Nat OBVIOUS
  <2> QED BY <2>2, <2>3
<1>3. T = Nat
  <2> HIDE DEF T
  <2>1. T \in SUBSET Nat BY DEF T
  <2> QED BY <1>1, <1>2, <2>1, Induction
<1> QED BY <1>3, LenProperties

(* A sequence extended by an element of its kind stays of that kind. *)
LEMMA AppendTyped ==
    ASSUME NEW X, NEW s \in Seq(X), NEW e \in X
    PROVE  Append(s, e) \in Seq(X)
OBVIOUS

(* The chosen elements are among those of the sequence and of the set. *)
LEMMA OnlyType ==
    ASSUME NEW X, NEW S, NEW s \in Seq(X)
    PROVE  Only(s, S) \in Seq(X) /\ Only(s, S) \in Seq(S)
<1> DEFINE Q == {t \in Seq(X) : Only(t, S) \in Seq(X) /\ Only(t, S) \in Seq(S)}
<1>1. <<>> \in Q BY OnlyEmpty, EmptySeq
<1>2. ASSUME NEW t \in Q, NEW e \in X PROVE Append(t, e) \in Q
  <2>1. Only(Append(t, e), S) = IF e \in S THEN Append(Only(t, S), e)
                                           ELSE Only(t, S)
    BY OnlyAppend
  <2>2. /\ Append(t, e) \in Seq(X)
        /\ Only(t, S) \in Seq(X) /\ Only(t, S) \in Seq(S)
    OBVIOUS
  <2>3. Only(Append(t, e), S) \in Seq(X)
    BY <2>1, <2>2
  <2>4. Only(Append(t, e), S) \in Seq(S)
    <3>1. CASE e \in S
      <4>1. Append(Only(t, S), e) \in Seq(S) BY <2>2, <3>1, AppendTyped
      <4> QED BY <2>1, <3>1, <4>1
    <3>2. CASE e \notin S BY <2>1, <2>2, <3>2
    <3> QED BY <3>1, <3>2
  <2> QED BY <2>2, <2>3, <2>4
<1>3. Q = Seq(X)
  <2> HIDE DEF Q
  <2>1. Q \in SUBSET Seq(X) BY DEF Q
  <2> QED BY <1>1, <1>2, <2>1, SequenceInduction
<1> QED BY <1>3

Occurs(a, s) == \E i \in DOMAIN s : s[i] = a

(* What occurs in an extended sequence. *)
LEMMA OccursAppend ==
    ASSUME NEW X, NEW s \in Seq(X), NEW e \in X, NEW a
    PROVE  Occurs(a, Append(s, e)) <=> Occurs(a, s) \/ a = e
<1> DEFINE t == Append(s, e)
           n == Len(s)
<1>1. n \in Nat /\ DOMAIN s = 1..n BY LenProperties
<1>2. t \in Seq(X) /\ Len(t) = n + 1 OBVIOUS
<1>3. DOMAIN t = 1..(n + 1) BY <1>2, LenProperties
<1>4. t[n + 1] = e /\ \A i \in 1..n : t[i] = s[i] OBVIOUS
<1> HIDE DEF t, n
<1>5. ASSUME Occurs(a, t) PROVE Occurs(a, s) \/ a = e
  BY <1>1, <1>3, <1>4, <1>5 DEF Occurs
<1>6. ASSUME Occurs(a, s) \/ a = e PROVE Occurs(a, t)
  BY <1>1, <1>3, <1>4, <1>6 DEF Occurs
<1> QED BY <1>5, <1>6 DEF t

(* An element of the set is chosen wherever it occurs. *)
LEMMA OnlyOccurs ==
    ASSUME NEW X, NEW S, NEW s \in Seq(X), NEW a \in S
    PROVE  Occurs(a, Only(s, S)) <=> Occurs(a, s)
<1> DEFINE Q == {t \in Seq(X) : Occurs(a, Only(t, S)) <=> Occurs(a, t)}
<1>1. <<>> \in Q BY OnlyEmpty, EmptySeq
<1>2. ASSUME NEW t \in Q, NEW e \in X PROVE Append(t, e) \in Q
  <2>1. Only(Append(t, e), S) = IF e \in S THEN Append(Only(t, S), e)
                                           ELSE Only(t, S)
    BY OnlyAppend
  <2>2. Occurs(a, Append(t, e)) <=> Occurs(a, t) \/ a = e BY OccursAppend
  <2>3. Occurs(a, Append(Only(t, S), e)) <=> Occurs(a, Only(t, S)) \/ a = e
    BY OnlyType, OccursAppend
  <2>4. Occurs(a, Only(t, S)) <=> Occurs(a, t) OBVIOUS
  <2>5. Append(t, e) \in Seq(X) OBVIOUS
  <2>6. CASE e \in S BY <2>1, <2>2, <2>3, <2>4, <2>5, <2>6
  <2>7. CASE e \notin S BY <2>1, <2>2, <2>4, <2>5, <2>7
  <2> QED BY <2>6, <2>7
<1>3. Q = Seq(X)
  <2> HIDE DEF Q
  <2>1. Q \in SUBSET Seq(X) BY DEF Q
  <2> QED BY <1>1, <1>2, <2>1, SequenceInduction
<1> QED BY <1>3

-----------------------------------------------------------------------------
(* What a browser lists. *)

(* Two lists of users with the same elements of Ids are the same list. *)
LEMMA SameTold ==
    ASSUME NEW q, NEW a, NEW r, NEW b,
           \A i \in Ids : i \in Told(q, a) <=> i \in Told(r, b)
    PROVE  Told(q, a) = Told(r, b)
<1>1. Told(q, a) \subseteq Ids /\ Told(r, b) \subseteq Ids BY DEF Told
<1> QED BY <1>1

(* A browser that is told nothing keeps its list. *)
LEMMA ToldEmpty ==
    ASSUME NEW r \in SUBSET Ids
    PROVE  Told(r, <<>>) = r
<1>1. DOMAIN <<>> = {} BY EmptySeq
<1> QED BY <1>1 DEF Told

(* The last action told decides about the users it concerns. *)
LEMMA ToldAppend ==
    ASSUME NEW X, NEW s \in Seq(X), NEW e \in X, NEW r, NEW i \in Ids
    PROVE  i \in Told(r, Append(s, e))
               <=> Lists(e, i) \/ (i \in Told(r, s) /\ ~Drops(e, i))
<1> DEFINE t == Append(s, e)
           n == Len(s)
<1>1. n \in Nat /\ DOMAIN s = 1..n BY LenProperties
<1>2. t \in Seq(X) /\ Len(t) = n + 1 OBVIOUS
<1>3. DOMAIN t = 1..(n + 1) BY <1>2, LenProperties
<1>4. t[n + 1] = e /\ \A k \in 1..n : t[k] = s[k] OBVIOUS
<1> HIDE DEF t, n
<1>5. ASSUME i \in Told(r, t)
      PROVE  Lists(e, i) \/ (i \in Told(r, s) /\ ~Drops(e, i))
  <2>1. CASE i \in r /\ \A k \in 1..(n + 1) : ~Drops(t[k], i)
    BY <1>1, <1>4, <2>1 DEF Told
  <2>2. ASSUME NEW k \in 1..(n + 1), Lists(t[k], i),
               \A l \in 1..(n + 1) : l > k => ~Drops(t[l], i)
        PROVE  Lists(e, i) \/ (i \in Told(r, s) /\ ~Drops(e, i))
    <3>1. CASE k = n + 1 BY <1>4, <2>2, <3>1
    <3>2. CASE k \in 1..n
      <4>1. ~Drops(t[n + 1], i) BY <1>1, <2>2, <3>2
      <4>2. Lists(s[k], i) /\ \A l \in 1..n : l > k => ~Drops(s[l], i)
        BY <1>1, <1>4, <2>2, <3>2
      <4> QED BY <1>1, <1>4, <3>2, <4>1, <4>2 DEF Told
    <3> QED BY <1>1, <3>1, <3>2
  <2> QED BY <1>3, <1>5, <2>1, <2>2 DEF Told
<1>6. ASSUME Lists(e, i) PROVE i \in Told(r, t)
  <2>1. n + 1 \in 1..(n + 1) /\ \A l \in 1..(n + 1) : ~(l > n + 1) BY <1>1
  <2> QED BY <1>3, <1>4, <1>6, <2>1 DEF Told
<1>7. ASSUME i \in Told(r, s), ~Drops(e, i) PROVE i \in Told(r, t)
  <2>0. \A l \in 1..(n + 1) : l \in 1..n \/ l = n + 1 BY <1>1
  <2>1. CASE i \in r /\ \A k \in 1..n : ~Drops(s[k], i)
    BY <1>3, <1>4, <1>7, <2>0, <2>1 DEF Told
  <2>2. ASSUME NEW k \in 1..n, Lists(s[k], i),
               \A l \in 1..n : l > k => ~Drops(s[l], i)
        PROVE  i \in Told(r, t)
    <3>1. k \in 1..(n + 1) /\ Lists(t[k], i)
          /\ \A l \in 1..(n + 1) : l > k => ~Drops(t[l], i)
      BY <1>1, <1>4, <1>7, <2>0, <2>2
    <3> QED BY <1>3, <3>1 DEF Told
  <2> QED BY <1>1, <1>7, <2>1, <2>2 DEF Told
<1> QED BY <1>5, <1>6, <1>7 DEF t

(* The actions that GetActions leaves out do not change the list. *)
LEMMA ToldOnly ==
    ASSUME NEW s \in Seq(Action), NEW r
    PROVE  Told(r, Only(s, Relevant)) = Told(r, s)
<1> DEFINE Q == {t \in Seq(Action) : Told(r, Only(t, Relevant)) = Told(r, t)}
<1>1. <<>> \in Q BY OnlyEmpty, EmptySeq
<1>2. ASSUME NEW t \in Q, NEW e \in Action PROVE Append(t, e) \in Q
  <2>1. Only(Append(t, e), Relevant) = IF e \in Relevant
                                       THEN Append(Only(t, Relevant), e)
                                       ELSE Only(t, Relevant)
    BY OnlyAppend
  <2>2. \A i \in Ids : i \in Told(r, Append(t, e))
                           <=> Lists(e, i) \/ (i \in Told(r, t) /\ ~Drops(e, i))
    BY ToldAppend
  <2>3. CASE e \in Relevant
    <3>1. Only(t, Relevant) \in Seq(Action) BY OnlyType
    <3>2. \A i \in Ids : i \in Told(r, Append(Only(t, Relevant), e))
                           <=> \/ Lists(e, i)
                               \/ i \in Told(r, Only(t, Relevant)) /\ ~Drops(e, i)
      BY <3>1, ToldAppend
    <3>3. Told(r, Only(t, Relevant)) = Told(r, t) OBVIOUS
    <3>4. \A i \in Ids : i \in Told(r, Append(Only(t, Relevant), e))
                           <=> i \in Told(r, Append(t, e))
      BY <2>2, <3>2, <3>3
    <3>5. Told(r, Append(Only(t, Relevant), e)) = Told(r, Append(t, e))
      BY <3>4, SameTold
    <3>6. Append(t, e) \in Seq(Action) OBVIOUS
    <3> QED BY <2>1, <2>3, <3>5, <3>6
  <2>4. CASE e \notin Relevant
    <3>1. \A i \in Ids : ~Lists(e, i) /\ ~Drops(e, i)
      BY <2>4 DEF Relevant, G!Joined, Lists, Drops
    <3>2. Told(r, Append(t, e)) = Told(r, t) BY <2>2, <3>1, SameTold
    <3>3. Append(t, e) \in Seq(Action) OBVIOUS
    <3> QED BY <2>1, <2>4, <3>2, <3>3
  <2> QED BY <2>3, <2>4
<1>3. Q = Seq(Action)
  <2> HIDE DEF Q
  <2>1. Q \in SUBSET Seq(Action) BY DEF Q
  <2> QED BY <1>1, <1>2, <2>1, SequenceInduction
<1> QED BY <1>3

(* Being told some actions, and then the rest, is being told all of them. *)
LEMMA ToldSplit ==
    ASSUME NEW b \in Seq(Action), NEW r, NEW n \in 0..Len(b)
    PROVE  Told(Told(r, SubSeq(b, 1, n)), SubSeq(b, n + 1, Len(b)))
              = Told(r, b)
<1> DEFINE m == Len(b)
           p == SubSeq(b, 1, n)
           q == SubSeq(b, n + 1, Len(b))
<1>1. m \in Nat /\ n \in Nat /\ n <= m /\ DOMAIN b = 1..m
      /\ \A k \in 1..m : b[k] \in Action
  BY LenProperties, ElementOfSeq
<1>2. /\ p \in Seq(Action) /\ Len(p) = IF 1 <= n THEN n - 1 + 1 ELSE 0
      /\ \A i \in 1..(n - 1 + 1) : p[i] = b[1 + i - 1]
  <2>1. \A i \in 1..n : b[i] \in Action BY <1>1
  <2> QED BY <1>1, <2>1, SubSeqProperties
<1>3. /\ q \in Seq(Action)
      /\ Len(q) = IF n + 1 <= m THEN m - (n + 1) + 1 ELSE 0
      /\ \A i \in 1..(m - (n + 1) + 1) : q[i] = b[(n + 1) + i - 1]
  <2>1. \A i \in (n + 1)..m : b[i] \in Action BY <1>1
  <2> QED BY <1>1, <2>1, SubSeqProperties
<1>4. DOMAIN p = 1..n /\ \A i \in 1..n : p[i] = b[i]
  <2>1. Len(p) = n BY <1>1, <1>2
  <2> QED BY <1>1, <1>2, <2>1, LenProperties
<1>5. DOMAIN q = 1..(m - n) /\ \A i \in 1..(m - n) : q[i] = b[n + i]
  <2>1. Len(q) = m - n
    <3> HIDE DEF q, m
    <3> QED BY <1>1, <1>3
  <2>2. DOMAIN q = 1..(m - n) BY <1>3, <2>1, LenProperties
  <2>3. ASSUME NEW i \in 1..(m - n) PROVE q[i] = b[n + i]
    <3>1. i \in 1..(m - (n + 1) + 1) /\ (n + 1) + i - 1 = n + i BY <1>1
    <3> QED BY <1>3, <3>1
  <2> QED BY <2>2, <2>3
<1> HIDE DEF m, p, q
<1>6. ASSUME NEW i \in Ids
      PROVE  i \in Told(Told(r, p), q) <=> i \in Told(r, b)
  <2> DEFINE Quiet(s, N) == \A k \in 1..N : ~Drops(s[k], i)
             Named(s, N) == \E k \in 1..N :
                               /\ Lists(s[k], i)
                               /\ \A l \in 1..N : l > k => ~Drops(s[l], i)
  <2>1. i \in Told(r, p) <=> (i \in r /\ Quiet(p, n)) \/ Named(p, n)
    BY <1>4 DEF Told
  <2>2. i \in Told(Told(r, p), q)
            <=> (i \in Told(r, p) /\ Quiet(q, m - n)) \/ Named(q, m - n)
    BY <1>5 DEF Told
  <2>3. i \in Told(r, b) <=> (i \in r /\ Quiet(b, m)) \/ Named(b, m)
    BY <1>1 DEF Told
  <2>4. Quiet(p, n) <=> Quiet(b, n) BY <1>4
  <2>5. Named(p, n) <=> Named(b, n) BY <1>4
  <2>6. Quiet(q, m - n) <=> \A k \in (n + 1)..m : ~Drops(b[k], i)
    <3>1. ASSUME Quiet(q, m - n), NEW k \in (n + 1)..m PROVE ~Drops(b[k], i)
      <4>1. k - n \in 1..(m - n) /\ n + (k - n) = k BY <1>1
      <4> QED BY <1>5, <3>1, <4>1
    <3>2. ASSUME \A k \in (n + 1)..m : ~Drops(b[k], i), NEW k \in 1..(m - n)
          PROVE  ~Drops(q[k], i)
      <4>1. n + k \in (n + 1)..m BY <1>1
      <4> QED BY <1>5, <3>2, <4>1
    <3> QED BY <3>1, <3>2
  <2> DEFINE Later == \E k \in (n + 1)..m :
                          /\ Lists(b[k], i)
                          /\ \A l \in 1..m : l > k => ~Drops(b[l], i)
  <2>7. Named(q, m - n) <=> Later
    <3>1. ASSUME NEW k \in 1..(m - n), Lists(q[k], i),
                 \A l \in 1..(m - n) : l > k => ~Drops(q[l], i)
          PROVE  Later
      <4>1. n + k \in (n + 1)..m /\ Lists(b[n + k], i) BY <1>1, <1>5, <3>1
      <4>2. ASSUME NEW l \in 1..m, l > n + k PROVE ~Drops(b[l], i)
        <5>1. l - n \in 1..(m - n) /\ l - n > k /\ n + (l - n) = l
          BY <1>1, <4>2
        <5> QED BY <1>5, <3>1, <5>1
      <4> QED BY <4>1, <4>2
    <3>2. ASSUME NEW k \in (n + 1)..m, Lists(b[k], i),
                 \A l \in 1..m : l > k => ~Drops(b[l], i)
          PROVE  Named(q, m - n)
      <4>1. k - n \in 1..(m - n) /\ n + (k - n) = k BY <1>1
      <4>2. Lists(q[k - n], i) BY <1>5, <3>2, <4>1
      <4>3. ASSUME NEW l \in 1..(m - n), l > k - n PROVE ~Drops(q[l], i)
        <5>1. n + l \in 1..m /\ n + l > k BY <1>1, <4>3
        <5> QED BY <1>5, <3>2, <5>1
      <4> QED BY <4>1, <4>2, <4>3
    <3> QED BY <3>1, <3>2
  <2>8. Quiet(b, m) <=> Quiet(b, n) /\ \A k \in (n + 1)..m : ~Drops(b[k], i)
    BY <1>1
  <2>9. Named(b, m) <=> \/ Later
                        \/ /\ Named(b, n)
                           /\ \A k \in (n + 1)..m : ~Drops(b[k], i)
    <3>0. \A k \in 1..m : k \in 1..n \/ k \in (n + 1)..m BY <1>1
    <3>1. ASSUME NEW k \in 1..m, Lists(b[k], i),
                 \A l \in 1..m : l > k => ~Drops(b[l], i), k \notin (n + 1)..m
          PROVE  Named(b, n) /\ \A l \in (n + 1)..m : ~Drops(b[l], i)
      BY <1>1, <3>1
    <3>2. ASSUME NEW k \in 1..n, Lists(b[k], i),
                 \A l \in 1..n : l > k => ~Drops(b[l], i),
                 \A l \in (n + 1)..m : ~Drops(b[l], i)
          PROVE  Named(b, m)
      <4>1. k \in 1..m BY <1>1
      <4> QED BY <3>0, <3>2, <4>1
    <3>3. Later => Named(b, m) BY <1>1
    <3> QED BY <3>0, <3>1, <3>2, <3>3
  <2> HIDE DEF Quiet, Named, Later
  <2> QED BY <2>1, <2>2, <2>3, <2>4, <2>5, <2>6, <2>7, <2>8, <2>9
<1>8. Told(Told(r, p), q) = Told(r, b) BY <1>6, SameTold
<1> QED BY <1>8 DEF m, p, q

-----------------------------------------------------------------------------
(* The group as the queues hide it. *)

(* What module Group sees of the queues. *)
View == [c \in Clients |-> Only(actions[c], G!Action)]

(* Everything proved of groups can be used here, with the queues as the group
   sees them. *)
GP == INSTANCE GroupProofs WITH actions <- View

(* Only a client that listens has anything in its queue. *)
Queues == /\ actions \in [Clients -> Seq(Action)]
          /\ \A c \in Clients : c \notin listening => actions[c] = <<>>

(* Appending to the second of two sequences appends to both. *)
LEMMA ConcatAppend ==
    ASSUME NEW X, NEW s \in Seq(X), NEW t \in Seq(X), NEW e \in X
    PROVE  s \o Append(t, e) = Append(s \o t, e) /\ s \o t \in Seq(X)
<1> DEFINE u == s \o Append(t, e)
           v == Append(s \o t, e)
<1>1. s \o t \in Seq(X) /\ Append(t, e) \in Seq(X) BY ConcatProperties
<1>2. u \in Seq(X) /\ v \in Seq(X) BY <1>1, ConcatProperties
<1>3. /\ Len(u) = Len(s) + Len(t) + 1 /\ Len(v) = Len(s) + Len(t) + 1
      /\ \A i \in 1..Len(u) : u[i] = v[i]
  BY <1>1
<1> HIDE DEF u, v
<1>4. u = v BY <1>2, <1>3, SeqEqual
<1> QED BY <1>1, <1>4 DEF u, v

(* What is added to a sequence is chosen if it is all in the set. *)
LEMMA OnlyConcat ==
    ASSUME NEW X, NEW S \in SUBSET X, NEW s \in Seq(X), NEW t \in Seq(S)
    PROVE  Only(s \o t, S) = Only(s, S) \o t
<1> DEFINE Q == {u \in Seq(S) : Only(s \o u, S) = Only(s, S) \o u}
<1>0. Only(s, S) \in Seq(S) BY OnlyType
<1>1. <<>> \in Q
  <2>1. s \o <<>> = s /\ Only(s, S) \o <<>> = Only(s, S)
    BY <1>0, ConcatEmptySeq
  <2> QED BY <2>1, EmptySeq
<1>2. ASSUME NEW u \in Q, NEW e \in S PROVE Append(u, e) \in Q
  <2>1. u \in Seq(S) /\ u \in Seq(X) /\ e \in X BY SeqMonotonic
  <2>2. s \o Append(u, e) = Append(s \o u, e) /\ s \o u \in Seq(X)
    BY <2>1, ConcatAppend
  <2>3. Only(Append(s \o u, e), S) = Append(Only(s \o u, S), e)
    <3>1. Only(Append(s \o u, e), S) =
             IF e \in S THEN Append(Only(s \o u, S), e)
                                                  ELSE Only(s \o u, S)
      BY <2>1, <2>2, OnlyAppend, ZenonT(30)
    <3> QED BY <3>1
  <2>4. Only(s, S) \o Append(u, e) = Append(Only(s, S) \o u, e)
    BY <1>0, <2>1, ConcatAppend
  <2>5. Only(s \o u, S) = Only(s, S) \o u OBVIOUS
  <2>6. Append(u, e) \in Seq(S) BY <2>1, AppendTyped
  <2> QED BY <2>2, <2>3, <2>4, <2>5, <2>6
<1>3. Q = Seq(S)
  <2> HIDE DEF Q
  <2>1. Q \in SUBSET Seq(S) BY DEF Q
  <2> QED BY <1>1, <1>2, <2>1, SequenceInduction
<1> QED BY <1>3

(* The actions that the group sends are actions of the loop. *)
LEMMA GroupActions == G!Action \subseteq Action BY DEF Action

(* The group sees the queues unchanged if they are. *)
LEMMA ViewSame == UNCHANGED actions => UNCHANGED View BY DEF View

(* What the group sends, it sees in the queues. *)
LEMMA SendSeen ==
    ASSUME Queues, NEW sent \in [Clients -> Seq(G!Action)], G!Send(sent),
           UNCHANGED listening
    PROVE  GP!Send(sent) /\ Queues'
<1>1. ASSUME NEW c \in Clients
      PROVE  /\ View'[c] = View[c] \o IF c \in listening THEN sent[c] ELSE <<>>
             /\ actions'[c] \in Seq(Action)
             /\ c \notin listening' => actions'[c] = <<>>
  <2> DEFINE t == IF c \in listening THEN sent[c] ELSE <<>>
  <2>1. t \in Seq(G!Action) BY EmptySeq
  <2>2. actions[c] \in Seq(Action) BY DEF Queues
  <2>3. actions'[c] = actions[c] \o t BY DEF G!Send
  <2>4. Only(actions[c] \o t, G!Action) = Only(actions[c], G!Action) \o t
    <3> HIDE DEF t
    <3> QED BY <2>1, <2>2, GroupActions, OnlyConcat
  <2>5. View'[c] = Only(actions'[c], G!Action)
        /\ View[c] = Only(actions[c], G!Action)
    BY DEF View
  <2>6. t \in Seq(Action) BY <2>1, GroupActions, SeqMonotonic
  <2>7. actions'[c] \in Seq(Action) BY <2>2, <2>3, <2>6, ConcatProperties
  <2>8. ASSUME c \notin listening' PROVE actions'[c] = <<>>
    <3>1. actions[c] = <<>> /\ t = <<>> BY <2>8 DEF Queues
    <3> HIDE DEF t
    <3> QED BY <2>2, <2>3, <3>1, ConcatEmptySeq
  <2>9. View'[c] = View[c] \o t BY <2>3, <2>4, <2>5
  <2> QED BY <2>7, <2>8, <2>9
<1>2. View' = [c \in Clients |-> View'[c]] BY DEF View
<1>3. GP!Send(sent) BY <1>1, <1>2 DEF GP!Send
<1>4. actions' = [c \in Clients |-> actions'[c]] BY DEF G!Send
<1>5. actions' \in [Clients -> Seq(Action)] BY <1>1, <1>4
<1> QED BY <1>1, <1>3, <1>5 DEF Queues

(* So with a notice of the group's new status. *)
LEMMA SendChangeSeen ==
    ASSUME Queues, NEW cs, G!SendChange(cs), UNCHANGED listening
    PROVE  GP!SendChange(cs) /\ Queues'
<1> DEFINE sent == [c \in Clients |-> IF c \in cs THEN <<G!Joined("change")>>
                                                  ELSE <<>>]
<1>1. G!Joined("change") \in G!Action BY DEF G!Joined, G!Action
<1>2. sent \in [Clients -> Seq(G!Action)] BY <1>1, EmptySeq
<1>3. G!Send(sent) BY DEF G!SendChange
<1>4. sent = [c \in Clients |-> IF c \in cs THEN <<GP!Joined("change")>>
                                             ELSE <<>>]
  BY DEF G!Joined, GP!Joined
<1>5. GP!Send(sent) /\ Queues'
  <2> HIDE DEF sent
  <2> QED BY <1>2, <1>3, SendSeen
<1>6. GP!SendChange(cs) BY <1>4, <1>5 DEF GP!SendChange
<1> QED BY <1>5, <1>6

(* A kick is queued here exactly when it is queued in the group's view. *)
LEMMA KickSeen ==
    ASSUME Queues, NEW c \in Clients, G!Kick(c), UNCHANGED listening
    PROVE  GP!Kick(c) /\ Queues'
<1>1. G!Kicked \in G!Action /\ GP!Kicked = G!Kicked
  BY DEF G!Kicked, G!Action, GP!Kicked
<1>2. Occurs(G!Kicked, View[c]) <=> Occurs(G!Kicked, actions[c])
  <2>1. actions[c] \in Seq(Action) /\ View[c] = Only(actions[c], G!Action)
    BY DEF Queues, View
  <2> QED BY <1>1, <2>1, OnlyOccurs
<1>3. CASE Occurs(G!Kicked, actions[c])
  <2>1. UNCHANGED actions BY <1>3 DEF Occurs, G!Kick
  <2>2. Queues' BY <2>1 DEF Queues
  <2>3. UNCHANGED View BY <2>1, ViewSame
  <2> QED BY <1>1, <1>2, <1>3, <2>2, <2>3 DEF Occurs, GP!Kick
<1>4. CASE ~Occurs(G!Kicked, actions[c])
  <2> DEFINE sent == [x \in Clients |-> IF x = c THEN <<G!Kicked>> ELSE <<>>]
  <2>1. G!Send(sent) BY <1>4 DEF Occurs, G!Kick
  <2>2. sent \in [Clients -> Seq(G!Action)] BY <1>1, EmptySeq
  <2>3. sent = [x \in Clients |-> IF x = c THEN <<GP!Kicked>> ELSE <<>>]
    BY <1>1
  <2>4. GP!Send(sent) /\ Queues'
    <3> HIDE DEF sent
    <3> QED BY <2>1, <2>2, SendSeen
  <2>5. GP!Kick(c)
    <3>1. ~\E i \in DOMAIN View[c] : View[c][i] = GP!Kicked
      BY <1>1, <1>2, <1>4 DEF Occurs
    <3> HIDE DEF sent
    <3> QED BY <2>3, <2>4, <3>1 DEF GP!Kick
  <2> QED BY <2>4, <2>5
<1> QED BY <1>3, <1>4

(* The clients of a group do not depend on the queues. *)
LEMMA SameMembers == \A o : GP!Members(o) = G!Members(o)
BY DEF G!Members, GP!Members

(* group.Add is the same for the group's view. *)
LEMMA AddSeen ==
    ASSUME Queues, NEW d, UNCHANGED listening
    PROVE  /\ \A o : G!AddSucceeds(d, o) => GP!AddSucceeds(d, o) /\ Queues'
           /\ G!AddFails(d) => GP!AddFails(d) /\ Queues'
<1>1. ASSUME NEW o, G!AddSucceeds(d, o) PROVE GP!AddSucceeds(d, o) /\ Queues'
  <2> DEFINE new == registry = NoGroup
             fresh == G!FreshDescription(d)
             wasLocked == ~new /\ locked[o]
             locks == fresh.autolock /\ ~wasLocked /\ G!NoOps(o)
             changed == ~new /\ desc[o] # fresh
             told == IF locks \/ changed THEN G!Members(o) ELSE {}
  <2>1. G!SendChange(told) BY <1>1, Zenon DEF G!AddSucceeds
  <2>2. GP!SendChange(told) /\ Queues'
    <3> HIDE DEF told
    <3> QED BY <2>1, SendChangeSeen
  <2>3. /\ GP!FreshDescription(d) = fresh
        /\ GP!NoOps(o) <=> G!NoOps(o)
        /\ GP!Free(o) <=> G!Free(o)
        /\ GP!Members(o) = G!Members(o)
    BY SameMembers
       DEF G!FreshDescription, GP!FreshDescription, G!NoOps, GP!NoOps,
                       G!Free, GP!Free
  <2>4. GP!AddSucceeds(d, o)
    BY <1>1, <2>2, <2>3, Zenon DEF G!AddSucceeds, GP!AddSucceeds
  <2> QED BY <2>2, <2>4
<1>2. ASSUME G!AddFails(d) PROVE GP!AddFails(d) /\ Queues'
  <2>1. UNCHANGED actions BY <1>2 DEF G!AddFails
  <2>2. Queues' /\ UNCHANGED View BY <2>1, ViewSame DEF Queues
  <2> QED BY <1>2, <2>2 DEF G!AddFails, GP!AddFails, G!DeleteUnlocked,
             GP!DeleteUnlocked, G!Members, GP!Members
<1> QED BY <1>1, <1>2

-----------------------------------------------------------------------------
(* The group's own operations are those of module Group. *)

(* The assumptions of module Group hold of these constants. *)
LEMMA GroupAssumptions ==
    /\ GP!ClientsAssumption /\ GP!DescsAssumption /\ GP!CapAssumption
    /\ GP!ObjsAssumption /\ GP!BudgetAssumption
<1>1. GP!ClientsAssumption
  BY ClientsAssumption DEF GP!ClientsAssumption, IsFiniteSet, GP!IsFiniteSet
<1>2. GP!DescsAssumption
  BY DescsAssumption DEF GP!DescsAssumption, GP!Desc, G!Desc
<1> QED BY <1>1, <1>2, CapAssumption, ObjsAssumption, BudgetAssumption
        DEF GP!CapAssumption, GP!ObjsAssumption, GP!BudgetAssumption

(* The group's steps keep its types. *)
LEMMA GroupStepTyping == GP!TypeInv /\ [GP!Next]_(GP!vars) => GP!TypeInv'
BY GP!StepTyping, GroupAssumptions

(* The clients in a group's table are clients. *)
LEMMA GroupMembersTyping ==
    ASSUME GP!TypeInv, NEW o \in Objs
    PROVE  G!Members(o) \subseteq Clients
BY GP!MembersTyping, GroupAssumptions, SameMembers DEF GP!TypeInv

(* Whether a group admits users does not depend on the queues. *)
LEMMA MayEnterSeen ==
    ASSUME NEW o
    PROVE  GP!MayEnter(o) <=> G!MayEnter(o)
<1>1. G!Cardinality(G!Members(o)) = GP!Cardinality(GP!Members(o))
  BY SameMembers, Zenon DEF G!Cardinality, GP!Cardinality
<1> QED BY <1>1, SameMembers, Zenon
        DEF G!MayEnter, GP!MayEnter, G!NoOps, GP!NoOps

(* A client that is admitted here is admitted in the group's view. *)
LEMMA AdmitSeen ==
    ASSUME Queues, GP!TypeInv, NEW c \in Clients, G!Admit(c)
    PROVE  GP!Admit(c) /\ Queues'
<1> DEFINE o == at[c]
           ids == {IdOf[y] : y \in G!Members(o) \cup {c}}
           sent == [x \in Clients |->
                       IF x = c THEN <<G!Joined("join"), G!Added(ids)>>
                       ELSE IF x \in G!Members(o) THEN <<G!Added({IdOf[c]})>>
                                                  ELSE <<>>]
<1>1. o \in Objs BY DEF G!Admit, GP!TypeInv, GP!Located
<1>2. G!Members(o) \subseteq Clients BY <1>1, GroupMembersTyping
<1>3. /\ G!Joined("join") \in G!Action /\ G!Added(ids) \in G!Action
      /\ G!Added({IdOf[c]}) \in G!Action
  BY <1>2, ClientsAssumption DEF G!Joined, G!Added, G!Action
<1>4. sent \in [Clients -> Seq(G!Action)]
  <2> HIDE DEF ids
  <2>1. <<G!Joined("join"), G!Added(ids)>> \in Seq(G!Action) BY <1>3
  <2>2. <<G!Added({IdOf[c]})>> \in Seq(G!Action) BY <1>3
  <2>3. <<>> \in Seq(G!Action) BY EmptySeq
  <2> QED BY <2>1, <2>2, <2>3
<1>5. G!Send(sent) /\ UNCHANGED listening
  BY Zenon DEF G!Admit, G!restVars
<1>6. GP!Send(sent) /\ Queues'
  <2> HIDE DEF sent
  <2> QED BY <1>4, <1>5, SendSeen
<1>7. GP!Admit(c)
  <2>1. sent = [x \in Clients |->
                   IF x = c
                   THEN <<GP!Joined("join"),
                          GP!Added({IdOf[y] : y \in GP!Members(o) \cup {c}})>>
                   ELSE IF x \in GP!Members(o) THEN <<GP!Added({IdOf[c]})>>
                                               ELSE <<>>]
    BY Zenon DEF G!Joined, GP!Joined, G!Added, GP!Added, G!Members, GP!Members
  <2>2. c \in LoginOp \/ GP!MayEnter(o)
    BY MayEnterSeen DEF G!Admit
  <2>3. GP!Return(c) BY DEF G!Admit, G!Return, GP!Return
  <2> HIDE DEF sent
  <2>4. GP!Send([x \in Clients |->
                   IF x = c
                   THEN <<GP!Joined("join"),
                          GP!Added({IdOf[y] : y \in GP!Members(o) \cup {c}})>>
                   ELSE IF x \in GP!Members(o) THEN <<GP!Added({IdOf[c]})>>
                                               ELSE <<>>])
    BY <1>6, <2>1
  <2>5. UNCHANGED <<GP!registryVars, toKick, GP!restVars, budget>>
    BY DEF G!Admit, G!registryVars, GP!registryVars, G!restVars, GP!restVars,
           G!updateVars, GP!updateVars
  <2> QED BY <2>2, <2>3, <2>4, <2>5, Zenon DEF G!Admit, GP!Admit
<1> QED BY <1>6, <1>7

(* The others are told of a departure in the group's view. *)
LEMMA TellDeletedSeen ==
    ASSUME Queues, NEW c \in Clients, G!TellDeleted(c)
    PROVE  GP!TellDeleted(c) /\ Queues'
<1> DEFINE sent == [x \in Clients |->
                       IF x = c THEN <<G!Joined("leave")>>
                       ELSE IF x \in snapshot[c] THEN <<G!Deleted(IdOf[c])>>
                                                 ELSE <<>>]
<1>1. G!Joined("leave") \in G!Action /\ G!Deleted(IdOf[c]) \in G!Action
  BY ClientsAssumption DEF G!Joined, G!Deleted, G!Action
<1>2. sent \in [Clients -> Seq(G!Action)] BY <1>1, EmptySeq
<1>3. G!Send(sent) /\ UNCHANGED listening
  BY Zenon DEF G!TellDeleted, G!restVars
<1>4. GP!Send(sent) /\ Queues'
  <2> HIDE DEF sent
  <2> QED BY <1>2, <1>3, SendSeen
<1>5. GP!TellDeleted(c)
  <2>1. sent = [x \in Clients |->
                   IF x = c THEN <<GP!Joined("leave")>>
                   ELSE IF x \in snapshot[c] THEN <<GP!Deleted(IdOf[c])>>
                                             ELSE <<>>]
    BY Zenon DEF G!Joined, GP!Joined, G!Deleted, GP!Deleted
  <2> HIDE DEF sent
  <2>2. GP!Send([x \in Clients |->
                   IF x = c THEN <<GP!Joined("leave")>>
                   ELSE IF x \in snapshot[c] THEN <<GP!Deleted(IdOf[c])>>
                                             ELSE <<>>])
    BY <1>4, <2>1
  <2> QED BY <2>2, Zenon
     DEF G!TellDeleted, GP!TellDeleted, G!registryVars, GP!registryVars,
        G!restVars, GP!restVars, G!updateVars, GP!updateVars
<1> QED BY <1>4, <1>5

(* A step that sends nothing is not seen in the queues. *)
LEMMA UnsentSeen ==
    ASSUME Queues, UNCHANGED <<actions, listening>>
    PROVE  Queues' /\ UNCHANGED View
BY ViewSame DEF Queues

(* The other steps of joining and leaving are steps of the group's view. *)
LEMMA ProceedSeen ==
    ASSUME Queues, NEW c \in Clients
    PROVE  /\ G!Refuse(c) => GP!Refuse(c) /\ Queues'
           /\ G!DelClient(c) => GP!DelClient(c) /\ Queues'
           /\ G!ScanForOps(c) => GP!ScanForOps(c) /\ Queues'
           /\ G!LockAndKick(c) => GP!LockAndKick(c) /\ Queues'
<1> USE SameMembers DEF G!registryVars, GP!registryVars, G!restVars,
        GP!restVars, G!updateVars, GP!updateVars, G!Return, GP!Return,
        G!Leave, GP!Leave
<1>1. ASSUME G!Refuse(c) PROVE GP!Refuse(c) /\ Queues'
  <2>1. Queues' /\ UNCHANGED View BY <1>1, UnsentSeen DEF G!Refuse
  <2>2. GP!MayEnter(at[c]) <=> G!MayEnter(at[c]) BY MayEnterSeen
  <2> QED BY <1>1, <2>1, <2>2, Zenon DEF G!Refuse, GP!Refuse
<1>2. ASSUME G!DelClient(c) PROVE GP!DelClient(c) /\ Queues'
  <2>1. Queues' /\ UNCHANGED View BY <1>2, UnsentSeen DEF G!DelClient
  <2> QED BY <1>2, <2>1, Zenon DEF G!DelClient, GP!DelClient
<1>3. ASSUME G!ScanForOps(c) PROVE GP!ScanForOps(c) /\ Queues'
  <2>1. Queues' /\ UNCHANGED View BY <1>3, UnsentSeen DEF G!ScanForOps
  <2> QED BY <1>3, <2>1, Zenon
     DEF G!ScanForOps, GP!ScanForOps, G!NoOps, GP!NoOps
<1>4. ASSUME G!LockAndKick(c) PROVE GP!LockAndKick(c) /\ Queues'
  <2> DEFINE told == IF desc[at[c]].autolock /\ ~locked[at[c]]
                     THEN snapshot[c] ELSE {}
  <2>1. G!SendChange(told) /\ UNCHANGED listening
    BY <1>4, Zenon DEF G!LockAndKick
  <2>2. GP!SendChange(told) /\ Queues'
    <3> HIDE DEF told
    <3> QED BY <2>1, SendChangeSeen
  <2> QED BY <1>4, <2>2, Zenon DEF G!LockAndKick, GP!LockAndKick
<1> QED BY <1>1, <1>2, <1>3, <1>4

(* So are the operations of the clients, *)
LEMMA OperationSeen ==
    ASSUME Queues, NEW c \in Clients
    PROVE  /\ G!AddClient(c) => GP!AddClient(c) /\ Queues'
           /\ \A lock \in BOOLEAN :
                 G!SetLocked(c, lock) => GP!SetLocked(c, lock) /\ Queues'
           /\ \A target \in Clients :
                 G!KickUser(c, target) => GP!KickUser(c, target) /\ Queues'
           /\ G!StopListening(c) => GP!StopListening(c) /\ Queues'
           /\ G!KickOne(c) => GP!KickOne(c) /\ Queues'
<1> USE SameMembers DEF G!registryVars, GP!registryVars, G!restVars,
        GP!restVars, G!updateVars, GP!updateVars, G!callVars, GP!callVars,
        G!Spend, GP!Spend
<1>1. ASSUME G!AddClient(c) PROVE GP!AddClient(c) /\ Queues'
  <2>1. UNCHANGED listening BY <1>1 DEF G!AddClient
  <2>2. /\ \A o : G!AddSucceeds(NoDesc, o) => GP!AddSucceeds(NoDesc, o) /\ Queues'
        /\ G!AddFails(NoDesc) => GP!AddFails(NoDesc) /\ Queues'
    BY <2>1, AddSeen
  <2> QED BY <1>1, <2>2, Zenon DEF G!AddClient, GP!AddClient
<1>2. ASSUME NEW lock \in BOOLEAN, G!SetLocked(c, lock)
      PROVE  GP!SetLocked(c, lock) /\ Queues'
  <2>1. UNCHANGED listening /\ G!SendChange(G!Members(group[c]))
    BY <1>2 DEF G!SetLocked
  <2>2. GP!SendChange(GP!Members(group[c])) /\ Queues' BY <2>1, SendChangeSeen
  <2> QED BY <1>2, <2>2, Zenon DEF G!SetLocked, GP!SetLocked
<1>3. ASSUME NEW target \in Clients, G!KickUser(c, target)
      PROVE  GP!KickUser(c, target) /\ Queues'
  <2>1. UNCHANGED listening /\ G!Kick(target) BY <1>3 DEF G!KickUser
  <2>2. GP!Kick(target) /\ Queues' BY <2>1, KickSeen
  <2> QED BY <1>3, <2>2, Zenon DEF G!KickUser, GP!KickUser
<1>4. ASSUME G!StopListening(c) PROVE GP!StopListening(c) /\ Queues'
  <2>1. /\ listening' = listening \ {c}
        /\ actions' = [actions EXCEPT ![c] = <<>>]
    BY <1>4 DEF G!StopListening
  <2>2. ASSUME NEW x \in Clients
        PROVE  /\ actions'[x] \in Seq(Action)
               /\ x \notin listening' => actions'[x] = <<>>
               /\ View'[x] = IF x = c THEN <<>> ELSE View[x]
    BY <2>1, EmptySeq, OnlyEmpty DEF Queues, View
  <2>3. View' = [View EXCEPT ![c] = <<>>] BY <2>2 DEF View
  <2>4. Queues' BY <2>1, <2>2 DEF Queues
  <2> QED BY <1>4, <2>3, <2>4, Zenon DEF G!StopListening, GP!StopListening
<1>5. ASSUME G!KickOne(c) PROVE GP!KickOne(c) /\ Queues'
  <2>1. UNCHANGED listening /\ G!Kick(c) BY <1>5 DEF G!KickOne
  <2>2. GP!Kick(c) /\ Queues' BY <2>1, KickSeen
  <2> QED BY <1>5, <2>2, Zenon DEF G!KickOne, GP!KickOne
<1> QED BY <1>1, <1>2, <1>3, <1>4, <1>5

(* and those of the server. *)
LEMMA ServerSeen ==
    ASSUME Queues
    PROVE  /\ G!Request => GP!Request /\ Queues'
           /\ \A d \in Descs \cup {NoDesc} :
                 G!EditDescription(d) => GP!EditDescription(d) /\ Queues'
           /\ G!UpdateCheck => GP!UpdateCheck /\ Queues'
           /\ G!UpdateDelete => GP!UpdateDelete /\ Queues'
           /\ G!UpdateAdd => GP!UpdateAdd /\ Queues'
<1> USE SameMembers DEF G!registryVars, GP!registryVars, G!restVars,
        GP!restVars, G!updateVars, GP!updateVars, G!callVars, GP!callVars,
        G!Spend, GP!Spend
<1>0. ASSUME UNCHANGED listening
      PROVE  /\ \A o : G!AddSucceeds(NoDesc, o)
                           => GP!AddSucceeds(NoDesc, o) /\ Queues'
             /\ G!AddFails(NoDesc) => GP!AddFails(NoDesc) /\ Queues'
  BY <1>0, AddSeen
<1>1. ASSUME G!Request PROVE GP!Request /\ Queues'
  <2>1. UNCHANGED listening BY <1>1 DEF G!Request
  <2> QED BY <1>0, <1>1, <2>1, Zenon DEF G!Request, GP!Request
<1>2. ASSUME NEW d \in Descs \cup {NoDesc}, G!EditDescription(d)
      PROVE  GP!EditDescription(d) /\ Queues'
  <2>1. Queues' /\ UNCHANGED View BY <1>2, UnsentSeen DEF G!EditDescription
  <2> QED BY <1>2, <2>1, Zenon DEF G!EditDescription, GP!EditDescription
<1>3. ASSUME G!UpdateCheck PROVE GP!UpdateCheck /\ Queues'
  <2>1. Queues' /\ UNCHANGED View BY <1>3, UnsentSeen DEF G!UpdateCheck
  <2> QED BY <1>3, <2>1, Zenon DEF G!UpdateCheck, GP!UpdateCheck
<1>4. ASSUME G!UpdateDelete PROVE GP!UpdateDelete /\ Queues'
  <2>1. Queues' /\ UNCHANGED View BY <1>4, UnsentSeen DEF G!UpdateDelete
  <2> QED BY <1>4, <2>1, Zenon DEF G!UpdateDelete, GP!UpdateDelete
<1>5. ASSUME G!UpdateAdd PROVE GP!UpdateAdd /\ Queues'
  <2>1. UNCHANGED listening BY <1>5 DEF G!UpdateAdd
  <2> QED BY <1>0, <1>5, <2>1, Zenon DEF G!UpdateAdd, GP!UpdateAdd
<1> QED BY <1>1, <1>2, <1>3, <1>4, <1>5

(* An action that the loops queue for one another is not seen. *)
LEMMA UnseenPut ==
    ASSUME Queues, NEW c \in Clients, NEW a \in Action, a \notin G!Action,
           Put(c, a), UNCHANGED listening
    PROVE  UNCHANGED View /\ Queues'
<1>1. CASE c \notin listening BY <1>1, UnsentSeen DEF Put
<1>2. CASE c \in listening
  <2>1. actions' = [actions EXCEPT ![c] = Append(@, a)] BY <1>2 DEF Put
  <2>2. ASSUME NEW x \in Clients
        PROVE  /\ actions'[x] \in Seq(Action)
               /\ x \notin listening' => actions'[x] = <<>>
               /\ View'[x] = View[x]
    <3>1. CASE x = c
      <4>1. actions[c] \in Seq(Action) BY DEF Queues
      <4>2. actions'[c] = Append(actions[c], a) BY <2>1 DEF Queues
      <4>3. Only(Append(actions[c], a), G!Action) = Only(actions[c], G!Action)
        BY <4>1, OnlyAppend
      <4>4. actions'[c] \in Seq(Action) BY <4>1, <4>2, AppendTyped
      <4>5. View'[c] = View[c] BY <4>2, <4>3 DEF View
      <4> QED BY <1>2, <3>1, <4>4, <4>5
    <3>2. CASE x # c BY <2>1, <3>2 DEF View, Queues
    <3> QED BY <3>1, <3>2
  <2>3. View' = View
    <3>1. /\ View = [x \in Clients |-> View[x]]
          /\ View' = [x \in Clients |-> View'[x]]
      BY DEF View
    <3> QED BY <2>2, <3>1
  <2>4. actions' \in [Clients -> Seq(Action)] BY <2>1, <2>2 DEF Queues
  <2> QED BY <2>2, <2>3, <2>4 DEF Queues
<1> QED BY <1>1, <1>2

-----------------------------------------------------------------------------
(* Every step is one of the group's, and the types. *)

(* Only the loops that are watched take actions. *)
Heard == \A c \in Clients : batch[c] # <<>> => c \in Watched

(* Types, with what they rest on. *)
BaseInv == GP!TypeInv /\ TypeOK /\ Queues /\ Heard

(* Nothing happens to the group when nothing of it changes. *)
LEMMA GroupStill ==
    ASSUME Queues, UNCHANGED <<groupVars, actions>>
    PROVE  UNCHANGED GP!vars /\ Queues'
<1>1. /\ UNCHANGED <<registry, desc, locked, members, op>>
      /\ UNCHANGED <<group, pc, at, snapshot>>
      /\ UNCHANGED <<toKick, listening, disk, update, read, budget, actions>>
  BY DEF groupVars
<1>2. UNCHANGED View /\ Queues' BY <1>1, UnsentSeen
<1> QED BY <1>1, <1>2 DEF GP!vars, GP!registryVars, GP!callVars, GP!updateVars

(* Queueing such an action changes nothing of the group. *)
LEMMA PutUnseen ==
    ASSUME Queues, NEW c \in Clients, NEW a \in Action, a \notin G!Action,
           Put(c, a), UNCHANGED groupVars
    PROVE  UNCHANGED GP!vars /\ Queues'
<1>1. /\ UNCHANGED <<registry, desc, locked, members, op>>
      /\ UNCHANGED <<group, pc, at, snapshot>>
      /\ UNCHANGED <<toKick, listening, disk, update, read, budget>>
  BY DEF groupVars
<1>2. UNCHANGED View /\ Queues' BY <1>1, UnseenPut
<1> QED BY <1>1, <1>2 DEF GP!vars, GP!registryVars, GP!callVars, GP!updateVars

(* The actions that the loops queue for one another, and that the group does
   not know. *)
LEMMA OwnActions ==
    /\ \A value \in BOOLEAN : Permission(value) \in Action \ G!Action
    /\ PermissionsChanged \in Action \ G!Action
    /\ \A i \in Ids : Changed(i) \in Action \ G!Action
BY DEF Permission, PermissionsChanged, Changed, Action, G!Action

(* Taking a queue is taking it in the group's view, or nothing there when
   all it held is unknown to the group. *)
LEMMA TakeSeen ==
    ASSUME Queues, NEW c \in Clients, G!TakeActions(c)
    PROVE  [GP!TakeActions(c)]_(GP!vars) /\ Queues'
<1>1. /\ pc[c] = "idle" /\ actions[c] # <<>>
      /\ actions' = [actions EXCEPT ![c] = <<>>]
      /\ UNCHANGED <<registry, desc, locked, members, op>>
      /\ UNCHANGED <<group, pc, at, snapshot>>
      /\ UNCHANGED <<toKick, listening, disk, update, read, budget>>
  BY DEF G!TakeActions, G!registryVars, G!callVars, G!restVars, G!updateVars
<1>2. Queues' BY <1>1, EmptySeq DEF Queues
<1>3. ASSUME NEW x \in Clients
      PROVE  View'[x] = IF x = c THEN <<>> ELSE View[x]
  BY <1>1, OnlyEmpty DEF Queues, View
<1>4. View' = [View EXCEPT ![c] = <<>>] BY <1>3 DEF View
<1>5. CASE View[c] = <<>>
  <2>1. View' = View BY <1>4, <1>5 DEF View
  <2> QED BY <1>1, <1>2, <2>1
          DEF GP!vars, GP!registryVars, GP!callVars, GP!updateVars
<1>6. CASE View[c] # <<>>
  <2>1. GP!TakeActions(c)
    BY <1>1, <1>4, <1>6
       DEF GP!TakeActions, GP!registryVars, GP!callVars, GP!restVars,
          GP!updateVars
  <2> QED BY <1>2, <2>1
<1> QED BY <1>5, <1>6

(* A loop that handles an action is watched, and the action is one. *)
LEMMA HandlingWatched ==
    ASSUME BaseInv, NEW c \in Clients, Handling(c)
    PROVE  /\ c \in Watched /\ Head(batch[c]) \in Action
           /\ batch[c] \in Seq(Action) /\ Tail(batch[c]) \in Seq(Action)
           /\ pc[c] = "idle" /\ status[c] = "open" /\ ~panicked
BY HeadTailProperties DEF BaseInv, Heard, Handling, TypeOK

(* Every step of the loops is one that module Group allows, or nothing to it. *)
LEMMA StepSeen ==
    ASSUME BaseInv, [Next]_vars
    PROVE  [GP!Next]_(GP!vars) /\ Queues'
<1> USE DEF BaseInv
<1>1. CASE UNCHANGED vars
  BY <1>1, GroupStill DEF vars
<1>2. ASSUME NEW c \in Clients,
             \/ GP!AddClient(c) \/ GP!DelClient(c) \/ GP!Proceed(c)
             \/ \E lock \in BOOLEAN : GP!SetLocked(c, lock)
             \/ \E target \in Clients : GP!KickUser(c, target)
             \/ \E value \in BOOLEAN : GP!SetOp(c, value)
             \/ GP!TakeActions(c) \/ GP!StopListening(c)
             \/ GP!KickOne(c)
      PROVE  GP!Next
  BY <1>2, Zenon DEF GP!ClientStep, GP!Next
<1>3. ASSUME NEW c \in Clients, Message(c) PROVE [GP!Next]_(GP!vars) /\ Queues'
  <2>1. CASE Join(c) BY <1>2, <2>1, OperationSeen DEF Join
  <2>2. CASE LeaveMessage(c) BY <1>2, <2>2, ProceedSeen DEF LeaveMessage
  <2>3. ASSUME NEW target \in Clients, KickMessage(c, target)
        PROVE  GP!Next /\ Queues'
    BY <1>2, <2>3, OperationSeen DEF KickMessage
  <2>4. ASSUME NEW target \in Clients, NEW value \in BOOLEAN,
               UserAction(c, target, value)
        PROVE  UNCHANGED GP!vars /\ Queues'
    BY <2>4, PutUnseen, OwnActions DEF UserAction
  <2>5. ASSUME NEW lock \in BOOLEAN, LockMessage(c, lock)
        PROVE  GP!Next /\ Queues'
    BY <1>2, <2>5, OperationSeen DEF LockMessage
  <2>6. CASE Disconnect(c) BY <1>2, <2>6, OperationSeen DEF Disconnect
  <2> QED BY <1>3, <2>1, <2>2, <2>3, <2>4, <2>5, <2>6 DEF Message
<1>4. ASSUME NEW c \in Clients, Handle(c) PROVE [GP!Next]_(GP!vars) /\ Queues'
  <2>1. CASE HandleTell(c) BY <2>1, GroupStill DEF HandleTell
  <2>2. CASE HandlePermission(c)
    <3>1. /\ Handling(c) /\ Head(batch[c]).type = "permission"
          /\ op' = [op EXCEPT ![c] = Head(batch[c]).op]
          /\ Put(c, PermissionsChanged)
          /\ UNCHANGED <<registry, desc, locked, members>>
          /\ UNCHANGED <<group, pc, at, snapshot>>
          /\ UNCHANGED <<toKick, listening, disk, update, read, budget>>
      BY <2>2 DEF HandlePermission, HandleNext
    <3>2. c \in Watched /\ Head(batch[c]) \in Action /\ pc[c] = "idle"
      BY <3>1, HandlingWatched
    <3>3. Head(batch[c]).op \in BOOLEAN BY <3>1, <3>2 DEF Action, G!Action
    <3>4. UNCHANGED View /\ Queues' BY <3>1, UnseenPut, OwnActions
    <3>5. GP!SetOp(c, Head(batch[c]).op)
      BY <3>1, <3>2, <3>4
         DEF GP!SetOp, GP!registryVars, GP!callVars, GP!restVars,
                              GP!updateVars
    <3>6. GP!Next BY <1>2, <3>3, <3>5
    <3> QED BY <3>4, <3>6
  <2>3. CASE HandlePermissionsChanged(c)
    BY <2>3, GroupStill DEF HandlePermissionsChanged
  <2>4. CASE HandleEnd(c) BY <1>2, <2>4, OperationSeen DEF HandleEnd
  <2> QED BY <1>4, <2>1, <2>2, <2>3, <2>4 DEF Handle
<1>5. ASSUME NEW c \in Clients, Loop(c) PROVE [GP!Next]_(GP!vars) /\ Queues'
  <2>1. CASE JoinAdmitted(c)
    BY <1>2, <2>1, AdmitSeen DEF JoinAdmitted, GP!Proceed
  <2>2. CASE JoinRefused(c)
    BY <1>2, <2>2, ProceedSeen DEF JoinRefused, GP!Proceed
  <2>3. CASE GetActions(c)
    BY <1>2, <2>3, TakeSeen DEF GetActions
  <2>4. CASE CloseLeave(c) BY <1>2, <2>4, ProceedSeen DEF CloseLeave
  <2>5. CASE Close(c) BY <2>5, GroupStill DEF Close
  <2>6. CASE Leaving(c)
    BY <1>2, <2>6, ProceedSeen, TellDeletedSeen DEF Leaving, GP!Proceed
  <2> QED BY <1>4, <1>5, <2>1, <2>2, <2>3, <2>4, <2>5, <2>6 DEF Loop
<1>6. ASSUME NEW c \in Clients, KickOne(c) PROVE GP!Next /\ Queues'
  BY <1>2, <1>6, OperationSeen DEF KickOne
<1>7. CASE PushChange
  <2>1. PICK p \in pushers :
           \/ UNCHANGED actions
           \/ \E c \in p.to : Put(c, Changed(p.id))
    BY <1>7 DEF PushChange
  <2>2. UNCHANGED groupVars BY <1>7 DEF PushChange
  <2>3. p.id \in Ids /\ p.to \subseteq Clients BY DEF TypeOK, Pusher
  <2>4. CASE UNCHANGED actions BY <2>2, <2>4, GroupStill
  <2>5. ASSUME NEW c \in p.to, Put(c, Changed(p.id))
        PROVE  UNCHANGED GP!vars /\ Queues'
    BY <2>2, <2>3, <2>5, PutUnseen, OwnActions
  <2> QED BY <2>1, <2>4, <2>5
<1>8. CASE \/ UpdateCheck \/ UpdateDelete \/ UpdateAdd \/ Request
           \/ \E d \in Descs \cup {NoDesc} : EditDescription(d)
  <2>1. /\ \/ GP!Request \/ GP!UpdateCheck \/ GP!UpdateDelete \/ GP!UpdateAdd
           \/ \E d \in Descs \cup {NoDesc} : GP!EditDescription(d)
        /\ Queues'
    BY <1>8, ServerSeen DEF UpdateCheck, UpdateDelete, UpdateAdd, Request,
                            EditDescription
  <2> QED BY <2>1, Zenon DEF GP!Next, GP!Update
<1> QED BY <1>1, <1>3, <1>5, <1>6, <1>7, <1>8 DEF Next

(* TellPrefix is how many actions at the head only tell something. *)
LEMMA TellPrefixRange ==
    ASSUME NEW c \in Clients, batch[c] \in Seq(Action)
    PROVE  /\ TellPrefix(c) \in 0..Len(batch[c])
           /\ \A i \in 1..TellPrefix(c) : Tells(batch[c][i])
           /\ TellPrefix(c) < Len(batch[c]) => ~Tells(batch[c][TellPrefix(c) + 1])
<1> DEFINE m == Len(batch[c])
           ends == {i \in 1..m : ~Tells(batch[c][i])}
<1>1. m \in Nat BY LenProperties
<1> HIDE DEF m
<1>2. CASE ends = {}
  <2>1. TellPrefix(c) = m BY <1>2 DEF TellPrefix, m
  <2> QED BY <1>1, <1>2, <2>1 DEF m
<1>3. CASE ends # {}
  <2>1. ends \in SUBSET Nat BY <1>1
  <2> DEFINE k == CHOOSE i \in ends : \A j \in ends : i <= j
  <2>2. TellPrefix(c) = k - 1 BY <1>3, Zenon DEF TellPrefix, m
  <2>3. \E i \in ends : \A j \in ends : i <= j
    <3> HIDE DEF ends
    <3> QED BY <1>3, <2>1, Least
  <2>4. k \in ends /\ \A j \in ends : k <= j BY <2>3
  <2> HIDE DEF k
  <2>5. k \in 1..m /\ ~Tells(batch[c][k]) BY <2>4
  <2>6. \A i \in 1..(k - 1) : Tells(batch[c][i])
    <3>1. \A i \in 1..(k - 1) : i \in 1..m /\ ~(k <= i) BY <1>1, <2>5
    <3> QED BY <2>4, <3>1
  <2>7. k - 1 \in 0..m /\ (k - 1) + 1 = k BY <1>1, <2>5
  <2> QED BY <2>2, <2>5, <2>6, <2>7 DEF m
<1> QED BY <1>2, <1>3

(* What the loops keep beside the group. *)
WebTyped == /\ batch \in [Clients -> Seq(Action)]
            /\ status \in [Clients -> {"open", "closing", "closed"}]
            /\ pushers \subseteq Pusher
            /\ roster \in [Clients -> SUBSET Ids]
            /\ panicked \in BOOLEAN
            /\ Heard

(* Every step keeps the types. *)
LEMMA BaseStep == BaseInv /\ [Next]_vars => BaseInv'
<1> SUFFICES ASSUME BaseInv, [Next]_vars PROVE BaseInv' OBVIOUS
<1>1. GP!TypeInv' /\ Queues'
  BY StepSeen, GroupStepTyping DEF BaseInv
<1>2. op' \in [Clients -> BOOLEAN] /\ actions' \in [Clients -> Seq(Action)]
  BY <1>1 DEF GP!TypeInv, GP!TypeOK, Queues
<1>3. WebTyped BY DEF BaseInv, TypeOK, WebTyped
<1>4. ASSUME UNCHANGED webVars PROVE WebTyped'
  <2>1. UNCHANGED <<batch, status, pushers, roster, panicked>>
    BY <1>4 DEF webVars
  <2> QED BY <1>3, <2>1 DEF WebTyped, Heard
<1>5. ASSUME UNCHANGED vars PROVE WebTyped' BY <1>4, <1>5 DEF vars
<1>6. ASSUME NEW c \in Clients, Message(c) PROVE WebTyped'
  <2>1. CASE Join(c)
    BY <1>3, <2>1 DEF Join, WebTyped, Heard
  <2>2. ASSUME NEW target \in Clients, NEW value \in BOOLEAN,
               UserAction(c, target, value)
        PROVE  WebTyped'
    BY <1>3, <2>2 DEF UserAction, WebTyped, Heard
  <2>3. CASE Disconnect(c)
    BY <1>3, <2>3 DEF Disconnect, WebTyped, Heard
  <2> QED BY <1>4, <1>6, <2>1, <2>2, <2>3
          DEF Message, LeaveMessage, KickMessage, LockMessage
<1>7. ASSUME NEW c \in Clients, Handle(c) PROVE WebTyped'
  <2>0. /\ Handling(c) /\ c \in Watched /\ Head(batch[c]) \in Action
        /\ batch[c] \in Seq(Action) /\ Tail(batch[c]) \in Seq(Action)
    <3>1. Handling(c)
      BY <1>7
         DEF Handle, HandleTell, HandlePermission, HandlePermissionsChanged,
                  HandleEnd, HandleNext
    <3> QED BY <3>1, HandlingWatched
  <2>1. CASE HandleTell(c)
    <3> DEFINE n == TellPrefix(c)
    <3>1. /\ batch' = [batch EXCEPT ![c] = SubSeq(batch[c], n + 1, Len(batch[c]))]
          /\ panicked' \in BOOLEAN
          /\ roster' = [roster EXCEPT ![c] =
                           Told(roster[c], SubSeq(batch[c], 1, n))]
          /\ UNCHANGED <<status, pushers>>
      BY <2>1, <1>3 DEF HandleTell
    <3>2. SubSeq(batch[c], n + 1, Len(batch[c])) \in Seq(Action)
      <4>1. n \in 0..Len(batch[c]) BY <2>0, TellPrefixRange
      <4>2. /\ Len(batch[c]) \in Nat
            /\ \A i \in 1..Len(batch[c]) : batch[c][i] \in Action
        BY <2>0, LenProperties, ElementOfSeq
      <4> HIDE DEF n
      <4>3. n + 1 \in Int /\ Len(batch[c]) \in Int
            /\ \A i \in (n + 1)..Len(batch[c]) : batch[c][i] \in Action
        BY <4>1, <4>2
      <4> QED BY <4>3, SubSeqProperties
    <3>3. Told(roster[c], SubSeq(batch[c], 1, n)) \subseteq Ids BY DEF Told
    <3> HIDE DEF n
    <3> QED BY <1>3, <2>0, <3>1, <3>2, <3>3 DEF WebTyped, Heard
  <2>2. CASE HandlePermission(c)
    BY <1>3, <2>0, <2>2 DEF HandlePermission, HandleNext, WebTyped, Heard
  <2>3. CASE HandlePermissionsChanged(c)
    <3>1. group[c] \in Objs
      BY <2>3 DEF HandlePermissionsChanged, BaseInv, GP!TypeInv, GP!TypeOK
    <3>2. G!Members(group[c]) \subseteq Clients
      BY <3>1, GroupMembersTyping DEF BaseInv
    <3>3. [id |-> IdOf[c], to |-> G!Members(group[c])] \in Pusher
      BY <3>2, ClientsAssumption DEF Pusher
    <3> QED BY <1>3, <2>0, <2>3, <3>3
       DEF HandlePermissionsChanged, HandleNext, WebTyped, Heard
  <2>4. CASE HandleEnd(c)
    BY <1>3, <2>0, <2>4 DEF HandleEnd, HandleNext, WebTyped, Heard
  <2> QED BY <1>7, <2>1, <2>2, <2>3, <2>4 DEF Handle
<1>8. ASSUME NEW c \in Clients, Loop(c) PROVE WebTyped'
  <2>1. CASE JoinRefused(c)
    BY <1>3, <2>1 DEF JoinRefused, WebTyped, Heard
  <2>2. CASE GetActions(c)
    <3>1. c \in Watched
      BY <2>2
         DEF GetActions, G!TakeActions, BaseInv, Queues, GP!TypeInv, GP!TypeOK
    <3>2. actions[c] \in Seq(Action) BY DEF BaseInv, Queues
    <3>3. Only(actions[c], Relevant) \in Seq(Action) BY <3>2, OnlyType
    <3> QED BY <1>3, <2>2, <3>1, <3>3 DEF GetActions, WebTyped, Heard
  <2>3. CASE Close(c)
    BY <1>3, <2>3, EmptySeq DEF Close, WebTyped, Heard
  <2> QED BY <1>4, <1>7, <1>8, <2>1, <2>2, <2>3
          DEF Loop, JoinAdmitted, CloseLeave, Leaving
<1>9. ASSUME PushChange PROVE WebTyped'
  <2>1. PICK p \in pushers :
           \/ pushers' = pushers \ {p}
           \/ \E c \in p.to : pushers' = (pushers \ {p})
                                           \cup {[p EXCEPT !.to = p.to \ {c}]}
    BY <1>9, Zenon DEF PushChange
  <2>2. \A c : [p EXCEPT !.to = p.to \ {c}] \in Pusher
    BY <1>3 DEF Pusher, WebTyped
  <2>3. pushers' \subseteq Pusher BY <1>3, <2>1, <2>2 DEF WebTyped
  <2> QED BY <1>3, <1>9, <2>3 DEF PushChange, WebTyped, Heard
<1>10. WebTyped'
  BY <1>4, <1>5, <1>6, <1>8, <1>9
     DEF Next, KickOne, UpdateCheck, UpdateDelete, UpdateAdd, Request,
        EditDescription
<1> QED BY <1>1, <1>2, <1>10 DEF BaseInv, TypeOK, WebTyped

(* The instance whose proofs are used and the one that UsesGroup names allow
   the same steps. *)
LEMMA SameNext == GP!Next => Mapped!Next
BY Zenon DEF View,
       GP!Next, Mapped!Next, GP!ClientStep, Mapped!ClientStep, GP!Proceed,
           Mapped!Proceed, GP!Update, Mapped!Update, GP!AddClient,
           Mapped!AddClient, GP!DelClient, Mapped!DelClient, GP!Admit,
           Mapped!Admit, GP!Refuse, Mapped!Refuse, GP!TellDeleted,
           Mapped!TellDeleted, GP!ScanForOps, Mapped!ScanForOps,
           GP!LockAndKick, Mapped!LockAndKick, GP!SetLocked,
           Mapped!SetLocked, GP!KickUser, Mapped!KickUser, GP!SetOp,
           Mapped!SetOp, GP!TakeActions, Mapped!TakeActions,
           GP!StopListening, Mapped!StopListening, GP!KickOne,
           Mapped!KickOne, GP!Request, Mapped!Request, GP!EditDescription,
           Mapped!EditDescription, GP!UpdateCheck, Mapped!UpdateCheck,
           GP!UpdateDelete, Mapped!UpdateDelete, GP!UpdateAdd,
           Mapped!UpdateAdd, GP!UpdateRead, Mapped!UpdateRead,
           GP!UpdatePublic, Mapped!UpdatePublic, GP!AddSucceeds,
           Mapped!AddSucceeds, GP!AddFails, Mapped!AddFails,
           GP!FreshDescription, Mapped!FreshDescription, GP!DeleteUnlocked,
           Mapped!DeleteUnlocked, GP!SendChange, Mapped!SendChange, GP!Send,
           Mapped!Send, GP!Kick, Mapped!Kick, GP!Kicked, Mapped!Kicked,
           GP!Joined, Mapped!Joined, GP!Added, Mapped!Added, GP!Deleted,
           Mapped!Deleted, GP!Members, Mapped!Members, GP!NoOps,
           Mapped!NoOps, GP!Free, Mapped!Free, GP!Spend, Mapped!Spend,
           GP!MayEnter, Mapped!MayEnter, GP!Return, Mapped!Return, GP!Leave,
           Mapped!Leave, GP!registryVars, Mapped!registryVars, GP!callVars,
           Mapped!callVars, GP!updateVars, Mapped!updateVars, GP!restVars,
           Mapped!restVars, GP!Cardinality, Mapped!Cardinality

(* They have the same variables. *)
LEMMA SameVars == UNCHANGED GP!vars => UNCHANGED Mapped!vars
BY Zenon DEF View, GP!vars, Mapped!vars, GP!registryVars, Mapped!registryVars,
   GP!callVars, Mapped!callVars, GP!updateVars, Mapped!updateVars

(* The initial states. *)
LEMMA InitBase == Init => BaseInv /\ GP!GhostInv /\ GP!Described
<1> SUFFICES ASSUME Init PROVE BaseInv /\ GP!GhostInv /\ GP!Described OBVIOUS
<1> USE ClientsAssumption, DescsAssumption, ObjsAssumption, BudgetAssumption,
        PresentAssumption
<1>1. Start \in Objs BY DEF Start
<1>2. /\ disk \in Descs /\ registry \in Objs \cup {NoGroup}
      /\ registry # NoGroup => registry = Start
      /\ Present # {} => registry = Start
      /\ pc = [c \in Clients |-> "idle"]
      /\ group = [c \in Clients |-> IF c \in Present THEN Start ELSE NoGroup]
  BY <1>1 DEF Init
<1>3. desc \in [Objs -> Descs \cup {NoDesc}] BY <1>2 DEF Init
<1>4. ASSUME NEW o \in Objs, NEW i \in Ids
      PROVE  /\ members[o][i] \in Clients \cup {NoClient}
             /\ members[o][i] # NoClient
                    => /\ o = Start
                       /\ members[o][i] \in Present
                       /\ IdOf[members[o][i]] = i
  <2>1. members[o][i] = IF o = registry /\ \E c \in Present : IdOf[c] = i
                        THEN CHOOSE c \in Present : IdOf[c] = i
                        ELSE NoClient
    BY Zenon DEF Init
  <2>2. CASE o = registry /\ \E c \in Present : IdOf[c] = i
    BY <1>2, <2>1, <2>2
  <2>3. CASE ~(o = registry /\ \E c \in Present : IdOf[c] = i)
    BY <2>1, <2>3
  <2> QED BY <2>2, <2>3
<1>5. ASSUME NEW c \in Present PROVE members[Start][IdOf[c]] = c
  <2>1. registry = Start /\ IdOf[c] \in Ids BY <1>2
  <2>2. members[Start][IdOf[c]] = CHOOSE d \in Present : IdOf[d] = IdOf[c]
    BY <1>1, <2>1, <1>5, Zenon DEF Init
  <2> QED BY <2>2
<1>6. members \in [Objs -> [Ids -> Clients \cup {NoClient}]]
  <2>1. members = [o \in Objs |-> [i \in Ids |-> members[o][i]]]
    BY Zenon DEF Init
  <2> QED BY <1>4, <2>1
<1>7. actions \in [Clients -> Seq(Action)] /\ batch \in [Clients -> Seq(Action)]
  BY EmptySeq DEF Init
<1>8. View \in [Clients -> Seq(GP!Action)]
  <2>1. \A c \in Clients : actions[c] = <<>> BY DEF Init
  <2> QED BY <2>1, OnlyEmpty, EmptySeq, ZenonT(30) DEF View
<1>9. GP!TypeInv
  <2>1. GP!TypeOK
    <3>1. group \in [Clients -> Objs \cup {NoGroup}] BY <1>1, <1>2
    <3>2. /\ registry \in Objs \cup {NoGroup} /\ locked \in [Objs -> BOOLEAN]
          /\ op \in [Clients -> BOOLEAN]
          /\ pc \in [Clients -> {"idle", "added", "removed", "told", "locking"}]
          /\ at \in [Clients -> Objs \cup {NoGroup}]
          /\ snapshot \in [Clients -> SUBSET Clients]
          /\ toKick \subseteq Clients /\ listening \subseteq Watched
      BY <1>2 DEF Init
    <3>3. /\ disk \in Descs \cup {NoDesc} /\ read \in Descs \cup {NoDesc}
          /\ update \in {"idle", "delete", "add", "public"}
          /\ budget \in 0..MaxBudget
      BY <1>2 DEF Init
    <3> QED BY <1>3, <1>6, <1>8, <3>1, <3>2, <3>3 DEF GP!TypeOK
  <2> QED BY <1>2, <2>1 DEF GP!TypeInv, GP!Located
<1>10. BaseInv
  <2>1. \A c \in Clients : actions[c] = <<>> /\ batch[c] = <<>> BY DEF Init
  <2>2. roster \in [Clients -> SUBSET Ids] BY DEF Init
  <2>3. op \in [Clients -> BOOLEAN] BY <1>9 DEF GP!TypeInv, GP!TypeOK
  <2>4. status \in [Clients -> {"open", "closing", "closed"}] BY DEF Init
  <2>5. pushers \subseteq Pusher /\ panicked \in BOOLEAN BY Zenon DEF Init
  <2> QED BY <1>7, <1>9, <2>1, <2>2, <2>3, <2>4, <2>5
     DEF BaseInv, TypeOK, Queues, Heard
<1>11. GP!StaysMember
  BY <1>2, <1>5 DEF GP!StaysMember
<1>12. GP!NoGhost
  BY <1>2, <1>4 DEF GP!NoGhost, GP!Members
<1>13. GP!Filed BY <1>4 DEF GP!Filed
<1>14. GP!Entering /\ GP!Described BY <1>2 DEF GP!Entering, GP!Described
<1> QED BY <1>9, <1>10, <1>11, <1>12, <1>13, <1>14
   DEF GP!GhostInv, GP!MemberInv

(* Queues hold actions, and lists hold identifiers, whatever is sent, handled
   or left in the queues of connections that end. *)
THEOREM TypeCorrect == Spec => []TypeOK
<1>1. BaseInv => TypeOK BY DEF BaseInv
<1>2. Init => BaseInv BY InitBase
<1> QED BY <1>1, <1>2, BaseStep, PTL DEF Spec

(* The loops use groups as module Group allows: each of their steps is one of
   its steps, with the queues that the group itself fills. *)
THEOREM GroupsUsed == Spec => UsesGroup
<1>1. BaseInv /\ [Next]_vars => [Mapped!Next]_(Mapped!vars)
  BY StepSeen, SameNext, SameVars
<1>2. Init => BaseInv BY InitBase
<1> QED BY <1>1, <1>2, BaseStep, PTL DEF Spec, UsesGroup

-----------------------------------------------------------------------------
(* Connections that close. *)

(* No group sends its users elsewhere: one that does admits a client and
   never sets its group (group.go:697), as GroupProofs has it. *)
NoRedirects == \A d \in Descs : ~d.redirect

(* A closed connection is in no group, and not about to enter one. *)
Departed == \A c \in Clients :
                status[c] = "closed" => group[c] = NoGroup /\ pc[c] = "idle"

(* What is known of the groups. *)
WebInv == BaseInv /\ GP!GhostInv /\ GP!Described

(* It is kept, by the proofs about groups. *)
LEMMA WebStep ==
    ASSUME NoRedirects
    PROVE  WebInv /\ [Next]_vars => WebInv'
<1> SUFFICES ASSUME WebInv, [Next]_vars PROVE WebInv' OBVIOUS
<1>1. BaseInv' /\ [GP!Next]_(GP!vars) BY BaseStep, StepSeen DEF WebInv
<1>2. GP!NoRedirects BY DEF NoRedirects, GP!NoRedirects
<1>3. GP!GhostInv' BY <1>1, <1>2, GP!GhostStep, GroupAssumptions DEF WebInv
<1>4. GP!Described'
  BY <1>1, GP!DescribedStep, GroupAssumptions DEF WebInv, BaseInv
<1> QED BY <1>1, <1>3, <1>4 DEF WebInv

(* What a client's own goroutine alone changes. *)
Own(c) == <<group[c], pc[c], status[c], batch[c], roster[c]>>

(* The loops of others leave it alone, *)
LEMMA OwnFrame ==
    ASSUME BaseInv, NEW x \in Clients, NEW c \in Clients, c # x,
           Message(x) \/ Loop(x) \/ KickOne(x)
    PROVE  UNCHANGED Own(c)
<1> USE
   DEF BaseInv, GP!TypeInv, GP!TypeOK, TypeOK, Own, webVars, G!Return, G!Leave,
            G!callVars, G!restVars
<1>1. CASE Message(x)
  <2>1. CASE Join(x) BY <2>1 DEF Join, G!AddClient
  <2>2. CASE LeaveMessage(x) BY <2>2 DEF LeaveMessage, G!DelClient
  <2>3. ASSUME NEW target \in Clients, KickMessage(x, target)
        PROVE  UNCHANGED Own(c)
    BY <2>3 DEF KickMessage, G!KickUser
  <2>4. ASSUME NEW target \in Clients, NEW value \in BOOLEAN,
               UserAction(x, target, value)
        PROVE  UNCHANGED Own(c)
    BY <2>4 DEF UserAction, groupVars
  <2>5. ASSUME NEW lock \in BOOLEAN, LockMessage(x, lock)
        PROVE  UNCHANGED Own(c)
    BY <2>5 DEF LockMessage, G!SetLocked
  <2>6. CASE Disconnect(x) BY <2>6 DEF Disconnect, G!StopListening
  <2> QED BY <1>1, <2>1, <2>2, <2>3, <2>4, <2>5, <2>6, Zenon DEF Message
<1>2. CASE Loop(x)
  <2>1. CASE JoinAdmitted(x) BY <2>1 DEF JoinAdmitted, G!Admit
  <2>2. CASE JoinRefused(x) BY <2>2 DEF JoinRefused, G!Refuse
  <2>3. CASE GetActions(x) BY <2>3 DEF GetActions, G!TakeActions
  <2>4. CASE HandleTell(x) BY <2>4 DEF HandleTell, groupVars
  <2>5. CASE HandlePermission(x) BY <2>5 DEF HandlePermission, HandleNext
  <2>6. CASE HandlePermissionsChanged(x)
    BY <2>6 DEF HandlePermissionsChanged, HandleNext, groupVars
  <2>7. CASE HandleEnd(x) BY <2>7 DEF HandleEnd, HandleNext, G!StopListening
  <2>8. CASE CloseLeave(x) BY <2>8 DEF CloseLeave, G!DelClient
  <2>9. CASE Close(x) BY <2>9 DEF Close, groupVars
  <2>10. CASE Leaving(x)
    BY <2>10 DEF Leaving, G!TellDeleted, G!ScanForOps, G!LockAndKick
  <2> QED BY <1>2, <2>1, <2>2, <2>3, <2>4, <2>5, <2>6, <2>7, <2>8, <2>9, <2>10,
             Zenon DEF Loop, Handle
<1>3. CASE KickOne(x) BY <1>3 DEF KickOne, G!KickOne
<1> QED BY <1>1, <1>2, <1>3

(* and so does the server, which leaves the tables alone too. *)
LEMMA ServerFrame ==
    ASSUME \/ UNCHANGED vars \/ PushChange
           \/ UpdateCheck \/ UpdateDelete \/ UpdateAdd \/ Request
           \/ \E d \in Descs \cup {NoDesc} : EditDescription(d),
           NEW c \in Clients
    PROVE  UNCHANGED Own(c) /\ UNCHANGED members
<1> USE DEF Own, webVars, groupVars, G!callVars, G!restVars
<1>1. CASE UNCHANGED vars BY <1>1 DEF vars
<1>2. CASE PushChange BY <1>2 DEF PushChange
<1>3. CASE UpdateCheck \/ UpdateDelete \/ UpdateAdd \/ Request
  BY <1>3 DEF UpdateCheck, UpdateDelete, UpdateAdd, Request, G!UpdateCheck,
              G!UpdateDelete, G!UpdateAdd, G!Request
<1>4. ASSUME NEW d \in Descs \cup {NoDesc}, EditDescription(d)
      PROVE  UNCHANGED Own(c) /\ UNCHANGED members
  BY <1>4 DEF EditDescription, G!EditDescription
<1> QED BY <1>1, <1>2, <1>3, <1>4

(* A connection closes when its client has left, and never joins again. *)
LEMMA DepartedStep ==
    ASSUME BaseInv, Departed, [Next]_vars
    PROVE  Departed'
<1> SUFFICES ASSUME NEW c \in Clients, status'[c] = "closed"
             PROVE  group'[c] = NoGroup /\ pc'[c] = "idle"
  BY DEF Departed
<1>1. ASSUME UNCHANGED Own(c) PROVE group'[c] = NoGroup /\ pc'[c] = "idle"
  BY <1>1 DEF Own, Departed
<1>2. ASSUME Message(c) PROVE FALSE
  <2>1. status[c] = "open"
    BY <1>2 DEF Message, Join, LeaveMessage, KickMessage, UserAction,
             LockMessage, Disconnect, Selecting
  <2>2. status' = status \/ status' = [status EXCEPT ![c] = "closing"]
    BY <1>2 DEF Message, Join, LeaveMessage, KickMessage, UserAction,
             LockMessage, Disconnect, webVars
  <2> QED BY <2>1, <2>2 DEF BaseInv, TypeOK
<1>3. ASSUME Loop(c) PROVE group'[c] = NoGroup /\ pc'[c] = "idle"
  <2>1. CASE Close(c) BY <2>1 DEF Close, groupVars
  <2>2. CASE JoinAdmitted(c) \/ JoinRefused(c) \/ CloseLeave(c) \/ Leaving(c)
    <3>1. UNCHANGED status
      BY <2>2 DEF JoinAdmitted, JoinRefused, CloseLeave, Leaving, webVars
    <3>2. pc[c] # "idle" \/ status[c] = "closing"
      BY <2>2
         DEF JoinAdmitted, JoinRefused, CloseLeave, Leaving, G!Admit, G!Refuse,
                  G!TellDeleted, G!ScanForOps, G!LockAndKick
    <3> QED BY <3>1, <3>2 DEF Departed
  <2>3. CASE GetActions(c) \/ Handle(c)
    <3>1. status[c] = "open"
      BY <2>3 DEF GetActions, Selecting, Handle, HandleTell, HandlePermission,
                  HandlePermissionsChanged, HandleEnd, HandleNext, Handling
    <3>2. status' = status \/ status' = [status EXCEPT ![c] = "closing"]
      BY <2>3 DEF GetActions, Handle, HandleTell, HandlePermission,
                  HandlePermissionsChanged, HandleEnd
    <3> QED BY <3>1, <3>2 DEF BaseInv, TypeOK
  <2> QED BY <1>3, <2>1, <2>2, <2>3 DEF Loop
<1>4. ASSUME KickOne(c) PROVE UNCHANGED Own(c)
  BY <1>4 DEF KickOne, G!KickOne, Own, G!callVars, webVars
<1>5. ASSUME NEW x \in Clients, Message(x) \/ Loop(x) \/ KickOne(x)
      PROVE  group'[c] = NoGroup /\ pc'[c] = "idle"
  BY <1>1, <1>2, <1>3, <1>4, <1>5, OwnFrame
<1> QED BY <1>1, <1>5, ServerFrame DEF Next

(* A connection that is closed has left nothing behind in any group, through
   joins that fail, kicks and departures that others interrupt. *)
THEOREM ClosedHaveLeft ==
    ASSUME NoRedirects
    PROVE  Spec => []ClosedLeft
<1>1. Init => WebInv /\ Departed
  <2>1. Init => Departed BY DEF Init, Departed
  <2> QED BY <2>1, InitBase DEF WebInv
<1>2. WebInv /\ Departed /\ [Next]_vars => WebInv' /\ Departed'
  BY WebStep, DepartedStep DEF WebInv
<1>3. WebInv /\ Departed => ClosedLeft
  BY SameMembers, ObjsAssumption
     DEF WebInv, GP!GhostInv, GP!NoGhost, Departed, ClosedLeft
<1> QED BY <1>1, <1>2, <1>3, PTL DEF Spec

-----------------------------------------------------------------------------
(* What each browser is still to be told. *)

(* Clients choose their identifiers at random, and no two the same.  With a
   shared one, a departure that is announced after another client has joined
   under the same identifier takes the new client off the lists. *)
DistinctIds == \A c, d \in Clients : IdOf[c] = IdOf[d] => c = d

(* An open connection takes what is queued for it. *)
Attentive == \A c \in Watched : status[c] = "open" => c \in listening

(* The users that c's browser will list when it has been told everything. *)
Expected(c) == Told(Told(roster[c], batch[c]), actions[c])

(* They are at least those of its group. *)
Informed(c) == status[c] = "open" /\ pc[c] = "idle" /\ group[c] # NoGroup
                   => \A x \in G!Members(group[c]) : IdOf[x] \in Expected(c)

(* The invariant. *)
RosterInv == WebInv /\ Attentive /\ \A c \in Watched : Informed(c)

(* Being told two sequences of actions, one after the other. *)
LEMMA ToldConcat ==
    ASSUME NEW s \in Seq(Action), NEW t \in Seq(Action), NEW r
    PROVE  Told(r, s \o t) = Told(Told(r, s), t)
<1> DEFINE b == s \o t
           n == Len(s)
<1>1. b \in Seq(Action) /\ Len(b) = Len(s) + Len(t) /\ n \in 0..Len(b)
  BY ConcatProperties, LenProperties
<1>2. SubSeq(b, 1, n) = s /\ SubSeq(b, n + 1, Len(b)) = t
  <2>1. Len(s) \in Nat /\ Len(t) \in Nat BY LenProperties
  <2>2. \A i \in 1..Len(b) : b[i] = IF i <= n THEN s[i] ELSE t[i - n]
    BY <1>1, ConcatProperties
  <2>3. /\ SubSeq(b, 1, n) \in Seq(Action)
        /\ Len(SubSeq(b, 1, n)) = IF 1 <= n THEN n - 1 + 1 ELSE 0
        /\ \A i \in 1..(n - 1 + 1) : SubSeq(b, 1, n)[i] = b[1 + i - 1]
    <3>1. \A i \in 1..n : b[i] \in Action BY <1>1, ElementOfSeq
    <3> HIDE DEF b, n
    <3> QED BY <1>1, <3>1, SubSeqProperties
  <2>4. /\ SubSeq(b, n + 1, Len(b)) \in Seq(Action)
        /\ Len(SubSeq(b, n + 1, Len(b))) =
              IF n + 1 <= Len(b) THEN Len(b) - (n + 1) + 1 ELSE 0
        /\ \A i \in 1..(Len(b) - (n + 1) + 1) :
              SubSeq(b, n + 1, Len(b))[i] = b[n + 1 + i - 1]
    <3>1. \A i \in (n + 1)..Len(b) : b[i] \in Action BY <1>1, ElementOfSeq
    <3>2. Len(b) \in Int /\ n + 1 \in Int BY <1>1, LenProperties
    <3> HIDE DEF b, n
    <3> QED BY <3>1, <3>2, SubSeqProperties
  <2> DEFINE p == SubSeq(b, 1, n)
             q == SubSeq(b, n + 1, Len(b))
  <2>5. p \in Seq(Action) /\ Len(p) = Len(s)
        /\ \A i \in 1..Len(s) : p[i] = s[i]
    <3> HIDE DEF b, p
    <3> QED BY <1>1, <2>1, <2>2, <2>3 DEF p
  <2>6. q \in Seq(Action) /\ Len(q) = Len(t)
        /\ \A i \in 1..Len(t) : q[i] = t[i]
    <3> HIDE DEF b, q, n
    <3>1. n = Len(s) /\ n \in Nat /\ Len(b) = n + Len(t) BY <1>1, <2>1 DEF n
    <3>2. q \in Seq(Action) /\ Len(q) = Len(t) BY <2>1, <2>4, <3>1 DEF q
    <3>3. ASSUME NEW i \in 1..Len(t) PROVE q[i] = t[i]
      <4>1. i \in 1..(Len(b) - (n + 1) + 1) /\ n + 1 + i - 1 = n + i
            /\ n + i \in 1..Len(b) /\ ~(n + i <= n) /\ (n + i) - n = i
        BY <2>1, <3>1
      <4>2. q[i] = b[n + i] BY <2>4, <4>1 DEF q
      <4>3. b[n + i] = t[(n + i) - n] BY <2>2, <4>1
      <4> QED BY <4>1, <4>2, <4>3
    <3> QED BY <3>2, <3>3
  <2> HIDE DEF b, p, q
  <2>7. p = s BY <2>5, SeqEqual
  <2>8. q = t BY <2>6, SeqEqual
  <2> QED BY <2>7, <2>8 DEF p, q
<1>3. Told(Told(r, SubSeq(b, 1, n)), SubSeq(b, n + 1, Len(b))) = Told(r, b)
  <2> HIDE DEF b, n
  <2> QED BY <1>1, ToldSplit
<1> QED BY <1>2, <1>3

(* What is queued for c does not take i off its list. *)
Keeps(c, i) == \E t \in Seq(Action) :
                  /\ actions'[c] = actions[c] \o t
                  /\ \A k \in DOMAIN t : ~Drops(t[k], i)

(* An unchanged queue takes nobody off. *)
LEMMA Unqueued ==
    ASSUME Queues, NEW c \in Clients, actions'[c] = actions[c], NEW i
    PROVE  Keeps(c, i)
<1>1. actions[c] \in Seq(Action) BY DEF Queues
<1>2. actions[c] \o <<>> = actions[c] BY <1>1, ConcatEmptySeq
<1>3. <<>> \in Seq(Action) /\ DOMAIN <<>> = {} BY EmptySeq
<1> QED BY <1>2, <1>3 DEF Keeps

(* What the group sends takes nobody off but those it deletes, *)
LEMMA SendKeeps ==
    ASSUME Queues, NEW c \in Clients, NEW i,
           NEW sent \in [Clients -> Seq(Action)], G!Send(sent),
           \A k \in DOMAIN sent[c] : ~Drops(sent[c][k], i)
    PROVE  Keeps(c, i)
<1>1. CASE c \in listening
  <2>1. actions'[c] = actions[c] \o sent[c] BY <1>1 DEF G!Send
  <2> QED BY <2>1 DEF Keeps
<1>2. CASE c \notin listening
  <2>1. actions[c] \in Seq(Action) BY DEF Queues
  <2>2. actions'[c] = actions[c] \o <<>> BY <1>2 DEF G!Send
  <2>3. actions[c] \o <<>> = actions[c] BY <2>1, ConcatEmptySeq
  <2> QED BY <2>2, <2>3, Unqueued
<1> QED BY <1>1, <1>2

(* so that a new status of the group takes nobody off, *)
LEMMA ChangeKeeps ==
    ASSUME Queues, NEW cs, G!SendChange(cs), NEW c \in Clients, NEW i
    PROVE  Keeps(c, i)
<1> DEFINE sent == [x \in Clients |-> IF x \in cs THEN <<G!Joined("change")>>
                                                  ELSE <<>>]
<1>1. G!Joined("change") \in Action /\ ~Drops(G!Joined("change"), i)
  BY DEF G!Joined, Action, G!Action, Drops
<1>2. sent \in [Clients -> Seq(Action)] BY <1>1, EmptySeq
<1>3. \A k \in DOMAIN sent[c] : sent[c][k] = G!Joined("change")
  BY EmptySeq
<1>4. G!Send(sent) BY DEF G!SendChange
<1> HIDE DEF sent
<1> QED BY <1>1, <1>2, <1>3, <1>4, SendKeeps

(* nor does a kick, *)
LEMMA KickKeeps ==
    ASSUME Queues, NEW x \in Clients, G!Kick(x), NEW c \in Clients, NEW i
    PROVE  Keeps(c, i)
<1> DEFINE sent == [y \in Clients |-> IF y = x THEN <<G!Kicked>> ELSE <<>>]
<1>1. G!Kicked \in Action /\ ~Drops(G!Kicked, i)
  BY DEF G!Kicked, Action, G!Action, Drops
<1>2. sent \in [Clients -> Seq(Action)] BY <1>1, EmptySeq
<1>3. \A k \in DOMAIN sent[c] : sent[c][k] = G!Kicked
  BY EmptySeq
<1>4. UNCHANGED actions \/ G!Send(sent) BY DEF G!Kick
<1> HIDE DEF sent
<1> QED BY <1>1, <1>2, <1>3, <1>4, SendKeeps, Unqueued

(* nor an action of the loops, *)
LEMMA PutKeeps ==
    ASSUME Queues, NEW x \in Clients, NEW a \in Action, Put(x, a),
           NEW c \in Clients, NEW i, ~Drops(a, i)
    PROVE  Keeps(c, i)
<1>1. CASE actions'[c] = actions[c] BY <1>1, Unqueued
<1>2. CASE actions'[c] # actions[c]
  <2>1. actions'[c] = Append(actions[c], a) /\ actions[c] \in Seq(Action)
    BY <1>2 DEF Put, Queues
  <2> DEFINE t == <<a>>
  <2>2. actions'[c] = actions[c] \o t BY <2>1
  <2>3. t \in Seq(Action) /\ Len(t) = 1 /\ t[1] = a OBVIOUS
  <2> HIDE DEF t
  <2>4. DOMAIN t = 1..1 BY <2>3, LenProperties
  <2>5. \A k \in DOMAIN t : ~Drops(t[k], i) BY <2>3, <2>4
  <2> QED BY <2>2, <2>3, <2>5 DEF Keeps
<1> QED BY <1>1, <1>2

(* nor group.Add. *)
LEMMA AddKeeps ==
    ASSUME Queues, NEW d, NEW c \in Clients, NEW i
    PROVE  /\ \A o : G!AddSucceeds(d, o) => Keeps(c, i)
           /\ G!AddFails(d) => Keeps(c, i)
<1>1. ASSUME NEW o, G!AddSucceeds(d, o) PROVE Keeps(c, i)
  <2>1. \E cs : G!SendChange(cs) BY <1>1, Zenon DEF G!AddSucceeds
  <2> QED BY <2>1, ChangeKeeps
<1>2. ASSUME G!AddFails(d) PROVE Keeps(c, i)
  BY <1>2, Unqueued DEF G!AddFails
<1> QED BY <1>1, <1>2

(* The loops' own actions take nobody off. *)
LEMMA OwnDrops ==
    /\ \A value \in BOOLEAN : \A i : ~Drops(Permission(value), i)
    /\ \A i : ~Drops(PermissionsChanged, i)
    /\ \A i, j : ~Drops(Changed(j), i)
BY DEF Permission, PermissionsChanged, Changed, Drops

(* A user that is kept is expected after the step too. *)
LEMMA ExpectedKept ==
    ASSUME BaseInv, NEW c \in Clients, NEW i \in Expected(c), Keeps(c, i),
           UNCHANGED Own(c)
    PROVE  i \in Expected(c)'
<1>1. PICK t \in Seq(Action) : /\ actions'[c] = actions[c] \o t
                               /\ \A k \in DOMAIN t : ~Drops(t[k], i)
  BY DEF Keeps
<1>2. actions[c] \in Seq(Action) BY DEF BaseInv, Queues
<1>3. roster'[c] = roster[c] /\ batch'[c] = batch[c] BY DEF Own
<1> DEFINE r == Told(roster[c], batch[c])
<1>4. Expected(c) = Told(r, actions[c]) BY DEF Expected
<1>5. Expected(c)' = Told(r, actions[c] \o t) BY <1>1, <1>3 DEF Expected
<1> HIDE DEF r
<1>6. Expected(c)' = Told(Expected(c), t) BY <1>1, <1>2, <1>4, <1>5, ToldConcat
<1>7. i \in Ids BY <1>4 DEF Told
<1>8. i \in Told(Expected(c), t) BY <1>1, <1>7 DEF Told
<1> QED BY <1>6, <1>8

(* A client that does nothing stays informed while nobody joins its group
   and its users are kept. *)
LEMMA Undisturbed ==
    ASSUME BaseInv, NEW c \in Clients, Informed(c), UNCHANGED Own(c),
           \A o \in Objs : G!Members(o)' \subseteq G!Members(o),
           \A o \in Objs : \A x \in G!Members(o) : Keeps(c, IdOf[x])
    PROVE  Informed(c)'
<1> SUFFICES ASSUME status'[c] = "open", pc'[c] = "idle", group'[c] # NoGroup,
                    NEW x \in G!Members(group[c])'
             PROVE  IdOf[x] \in Expected(c)'
  BY DEF Informed
<1>1. /\ status[c] = "open" /\ pc[c] = "idle" /\ group[c] # NoGroup
      /\ group'[c] = group[c]
  BY DEF Own
<1>2. group[c] \in Objs BY <1>1 DEF BaseInv, GP!TypeInv, GP!TypeOK
<1>3. x \in G!Members(group[c])
  <2>1. PICK o \in Objs : o = group[c] BY <1>2
  <2>2. G!Members(group[c])' = G!Members(o)' BY <1>1, <2>1 DEF G!Members
  <2>3. G!Members(group[c]) = G!Members(o) BY <2>1
  <2> QED BY <2>2, <2>3
<1>4. IdOf[x] \in Expected(c) /\ Keeps(c, IdOf[x])
  BY <1>1, <1>2, <1>3 DEF Informed
<1> QED BY <1>4, ExpectedKept

-----------------------------------------------------------------------------
(* The steps. *)

(* A loop stops listening only when it returns. *)
LEMMA AttentiveStep ==
    ASSUME BaseInv, Attentive, [Next]_vars
    PROVE  Attentive'
<1> SUFFICES ASSUME NEW c \in Watched, status'[c] = "open"
             PROVE  c \in listening'
  BY DEF Attentive
<1> USE ClientsAssumption
<1>1. ASSUME status'[c] = status[c], UNCHANGED listening PROVE c \in listening'
  BY <1>1 DEF Attentive
<1>2. ASSUME NEW x \in Clients,
             status' = [status EXCEPT ![x] = "closing"],
             listening' = listening \ {x}
      PROVE  c \in listening'
  BY <1>2 DEF Attentive, BaseInv, TypeOK
<1>3. ASSUME NEW x \in Clients, Message(x) PROVE c \in listening'
  <2>1. CASE Disconnect(x) BY <1>2, <2>1 DEF Disconnect, G!StopListening
  <2>2. CASE ~Disconnect(x)
    <3>1. UNCHANGED <<status, listening>>
      BY <1>3, <2>2 DEF Message, Join, LeaveMessage, KickMessage, UserAction,
               LockMessage, webVars, groupVars, G!AddClient, G!DelClient,
               G!KickUser, G!SetLocked, G!restVars
    <3> QED BY <1>1, <3>1
  <2> QED BY <2>1, <2>2
<1>4. ASSUME NEW x \in Clients, Loop(x) PROVE c \in listening'
  <2>1. CASE HandleEnd(x) BY <1>2, <2>1 DEF HandleEnd, G!StopListening
  <2>2. CASE Close(x)
    BY <1>1, <2>2 DEF Close, groupVars, BaseInv, TypeOK
  <2>3. CASE ~HandleEnd(x) /\ ~Close(x)
    <3>1. UNCHANGED status
      BY <1>4, <2>3 DEF Loop, JoinAdmitted, JoinRefused, GetActions, Handle,
               HandleTell, HandlePermission, HandlePermissionsChanged,
               CloseLeave,
               Leaving, webVars
    <3>2. UNCHANGED listening
      BY <1>4, <2>3 DEF Loop, JoinAdmitted, JoinRefused, GetActions, Handle,
               HandleTell, HandlePermission, HandlePermissionsChanged,
               CloseLeave,
               Leaving, groupVars, G!Admit, G!Refuse, G!TakeActions,
               G!DelClient,
               G!TellDeleted, G!ScanForOps, G!LockAndKick, G!restVars
    <3> QED BY <1>1, <3>1, <3>2
  <2> QED BY <2>1, <2>2, <2>3
<1>5. ASSUME \/ \E x \in Clients : KickOne(x)
             \/ UNCHANGED vars \/ PushChange
             \/ UpdateCheck \/ UpdateDelete \/ UpdateAdd \/ Request
             \/ \E d \in Descs \cup {NoDesc} : EditDescription(d)
      PROVE  c \in listening'
  <2>1. UNCHANGED <<status, listening>>
    BY <1>5
       DEF KickOne, vars, PushChange, UpdateCheck, UpdateDelete, UpdateAdd,
           Request,
             EditDescription, webVars, groupVars, G!KickOne, G!UpdateCheck,
             G!UpdateDelete, G!UpdateAdd, G!Request, G!EditDescription,
             G!restVars
  <2> QED BY <1>1, <2>1
<1> QED BY <1>3, <1>4, <1>5 DEF Next

(* The tables get no new clients when no client is admitted. *)
LEMMA Shrinks ==
    ASSUME BaseInv, NEW o \in Objs,
           \/ UNCHANGED members
           \/ \E x \in Clients : G!DelClient(x)
    PROVE  G!Members(o)' \subseteq G!Members(o)
<1>1. CASE UNCHANGED members BY <1>1 DEF G!Members
<1>2. ASSUME NEW x \in Clients, G!DelClient(x)
      PROVE  G!Members(o)' \subseteq G!Members(o)
  <2>1. \/ UNCHANGED members
        \/ members' = [members EXCEPT ![group[x]][IdOf[x]] = NoClient]
    BY <1>2, Zenon DEF G!DelClient
  <2>2. group[x] \in Objs
    BY <1>2 DEF G!DelClient, BaseInv, GP!TypeInv, GP!TypeOK
  <2>3. ASSUME NEW i \in Ids
        PROVE  members'[o][i] = members[o][i] \/ members'[o][i] = NoClient
    <3>1. /\ members \in [Objs -> [Ids -> Clients \cup {NoClient}]]
          /\ members[o] \in [Ids -> Clients \cup {NoClient}]
      BY DEF BaseInv, GP!TypeInv, GP!TypeOK
    <3>2. CASE UNCHANGED members BY <3>2
    <3>3. CASE members' = [members EXCEPT ![group[x]][IdOf[x]] = NoClient]
      BY <2>2, <3>1, <3>3
    <3> QED BY <2>1, <3>2, <3>3
  <2> QED BY <2>3 DEF G!Members
<1> QED BY <1>1, <1>2

(* A client that has started to leave is in no table any more. *)
LEMMA LeaverUnknown ==
    ASSUME RosterInv, DistinctIds, NEW x \in Clients, pc[x] # "idle",
           NEW o \in Objs, NEW y \in G!Members(o)
    PROVE  IdOf[y] # IdOf[x]
<1>1. y \in Clients BY GroupMembersTyping DEF RosterInv, WebInv, BaseInv
<1>2. pc[y] = "idle"
  BY SameMembers DEF RosterInv, WebInv, GP!GhostInv, GP!NoGhost
<1> QED BY <1>1, <1>2 DEF DistinctIds

(* The announcement of a departure concerns nobody who is still there. *)
LEMMA TellDeletedKeeps ==
    ASSUME RosterInv, DistinctIds, NEW x \in Clients, G!TellDeleted(x),
           NEW c \in Clients, c # x, NEW o \in Objs, NEW y \in G!Members(o)
    PROVE  Keeps(c, IdOf[y])
<1> DEFINE sent == [z \in Clients |->
                       IF z = x THEN <<G!Joined("leave")>>
                       ELSE IF z \in snapshot[x] THEN <<G!Deleted(IdOf[x])>>
                                                 ELSE <<>>]
<1>1. G!Joined("leave") \in Action /\ G!Deleted(IdOf[x]) \in Action
  BY ClientsAssumption DEF G!Joined, G!Deleted, G!Action, Action
<1>2. sent \in [Clients -> Seq(Action)] BY <1>1, EmptySeq
<1>3. G!Send(sent) BY Zenon DEF G!TellDeleted
<1>4. \A k \in DOMAIN sent[c] : sent[c][k] = G!Deleted(IdOf[x])
  BY EmptySeq
<1>5. IdOf[y] # IdOf[x] BY LeaverUnknown DEF G!TellDeleted
<1>6. ~Drops(G!Deleted(IdOf[x]), IdOf[y]) BY <1>5 DEF Drops, G!Deleted
<1> HIDE DEF sent
<1> QED BY <1>2, <1>3, <1>4, <1>6, SendKeeps DEF RosterInv, WebInv, BaseInv

(* The steps that leave c's loop alone, and admit nobody. *)
LEMMA ElsewhereInformed ==
    ASSUME RosterInv, DistinctIds, NEW c \in Watched, UNCHANGED Own(c),
           \/ UNCHANGED members \/ \E x \in Clients : G!DelClient(x),
           \A o \in Objs : \A y \in G!Members(o) : Keeps(c, IdOf[y])
    PROVE  Informed(c)'
<1>1. c \in Clients /\ BaseInv BY ClientsAssumption DEF RosterInv, WebInv
<1> QED BY <1>1, Shrinks, Undisturbed DEF RosterInv

(* The server's steps. *)
LEMMA ServerInformed ==
    ASSUME RosterInv, DistinctIds, NEW c \in Watched,
           \/ UNCHANGED vars \/ PushChange
           \/ UpdateCheck \/ UpdateDelete \/ UpdateAdd \/ Request
           \/ \E d \in Descs \cup {NoDesc} : EditDescription(d)
    PROVE  Informed(c)'
<1>1. c \in Clients /\ BaseInv /\ Queues
  BY ClientsAssumption DEF RosterInv, WebInv, BaseInv
<1>2. UNCHANGED Own(c) /\ UNCHANGED members BY <1>1, ServerFrame
<1>3. ASSUME NEW i PROVE Keeps(c, i)
  <2>1. CASE UNCHANGED actions BY <1>1, <2>1, Unqueued
  <2>2. CASE PushChange
    <3>1. PICK p \in pushers :
             UNCHANGED actions \/ \E d \in p.to : Put(d, Changed(p.id))
      BY <2>2 DEF PushChange
    <3>2. p.id \in Ids /\ p.to \subseteq Clients
      BY <1>1 DEF BaseInv, TypeOK, Pusher
    <3>3. ASSUME NEW d \in p.to, Put(d, Changed(p.id)) PROVE Keeps(c, i)
      <4>1. /\ Changed(p.id) \in Action /\ ~Drops(Changed(p.id), i)
            /\ d \in Clients
        BY <3>2, OwnActions, OwnDrops
      <4> QED BY <1>1, <3>3, <4>1, PutKeeps
    <3> QED BY <2>1, <3>1, <3>3
  <2>3. CASE UpdateAdd \/ Request
    BY <1>1, <2>3, AddKeeps DEF UpdateAdd, Request, G!UpdateAdd, G!Request
  <2>4. CASE \/ UpdateCheck \/ UpdateDelete
             \/ \E d \in Descs \cup {NoDesc} : EditDescription(d)
    <3>1. UNCHANGED actions
      BY <2>4 DEF UpdateCheck, UpdateDelete, EditDescription, G!UpdateCheck,
                  G!UpdateDelete, G!EditDescription
    <3> QED BY <2>1, <3>1
  <2>5. CASE UNCHANGED vars BY <2>1, <2>5 DEF vars
  <2> QED BY <2>1, <2>2, <2>3, <2>4, <2>5
<1> QED BY <1>2, <1>3, ElsewhereInformed

(* Messages from browsers. *)
LEMMA MessageInformed ==
    ASSUME RosterInv, DistinctIds, NEW c \in Watched, NEW x \in Clients,
           Message(x) \/ KickOne(x)
    PROVE  Informed(c)'
<1>1. c \in Clients /\ BaseInv /\ Queues
  BY ClientsAssumption DEF RosterInv, WebInv, BaseInv
<1> USE DEF webVars, G!callVars, G!restVars
<1>2. CASE Join(x)
  <2>1. \A i : Keeps(c, i) BY <1>1, <1>2, AddKeeps DEF Join, G!AddClient
  <2>2. UNCHANGED members BY <1>2 DEF Join, G!AddClient
  <2>3. CASE x = c
    <3>1. group'[c] = NoGroup BY <1>2, <2>3 DEF Join, G!AddClient
    <3> QED BY <3>1 DEF Informed
  <2>4. CASE x # c
    BY <1>1, <2>1, <2>2, <2>4, OwnFrame, ElsewhereInformed
  <2> QED BY <2>3, <2>4
<1>3. CASE LeaveMessage(x)
  <2>1. \A i : Keeps(c, i)
    BY <1>1, <1>3, Unqueued DEF LeaveMessage, G!DelClient
  <2>2. CASE x = c
    <3>1. pc'[c] # "idle" \/ group'[c] = NoGroup
      BY <1>1, <1>3, <2>2
         DEF LeaveMessage, G!DelClient, G!Leave, BaseInv, GP!TypeInv,
                              GP!TypeOK
    <3> QED BY <3>1 DEF Informed
  <2>3. CASE x # c
    BY <1>1, <1>3, <2>1, <2>3, OwnFrame, ElsewhereInformed DEF LeaveMessage
  <2> QED BY <2>2, <2>3
<1>4. ASSUME NEW target \in Clients, KickMessage(x, target) PROVE Informed(c)'
  <2>1. G!Kick(target) /\ UNCHANGED Own(c) /\ UNCHANGED members
    BY <1>4 DEF KickMessage, G!KickUser, Own
  <2>2. \A i : Keeps(c, i) BY <1>1, <2>1, KickKeeps
  <2> QED BY <2>1, <2>2, ElsewhereInformed
<1>5. ASSUME NEW target \in Clients, NEW value \in BOOLEAN,
             UserAction(x, target, value)
      PROVE  Informed(c)'
  <2>1. Put(target, Permission(value)) /\ UNCHANGED Own(c) /\ UNCHANGED members
    BY <1>5 DEF UserAction, Own, groupVars
  <2>2. \A i : Keeps(c, i) BY <1>1, <2>1, PutKeeps, OwnActions, OwnDrops
  <2> QED BY <2>1, <2>2, ElsewhereInformed
<1>6. ASSUME NEW lock \in BOOLEAN, LockMessage(x, lock) PROVE Informed(c)'
  <2>1. /\ \E cs : G!SendChange(cs)
        /\ UNCHANGED Own(c) /\ UNCHANGED members
    BY <1>6 DEF LockMessage, G!SetLocked, Own
  <2>2. \A i : Keeps(c, i) BY <1>1, <2>1, ChangeKeeps
  <2> QED BY <2>1, <2>2, ElsewhereInformed
<1>7. CASE Disconnect(x)
  <2>1. CASE x = c
    <3>1. status'[c] # "open"
      BY <1>1, <1>7, <2>1 DEF Disconnect, BaseInv, TypeOK
    <3> QED BY <3>1 DEF Informed
  <2>2. CASE x # c
    <3>1. actions'[c] = actions[c] /\ UNCHANGED members
      BY <1>1, <1>7, <2>2 DEF Disconnect, G!StopListening, Queues
    <3> QED BY <1>1, <1>7, <2>2, <3>1, Unqueued, OwnFrame, ElsewhereInformed
       DEF Message
  <2> QED BY <2>1, <2>2
<1>8. CASE KickOne(x)
  <2>1. G!Kick(x) /\ UNCHANGED Own(c) /\ UNCHANGED members
    BY <1>8 DEF KickOne, G!KickOne, Own
  <2>2. \A i : Keeps(c, i) BY <1>1, <2>1, KickKeeps
  <2> QED BY <2>1, <2>2, ElsewhereInformed
<1> QED BY <1>2, <1>3, <1>4, <1>5, <1>6, <1>7, <1>8, Zenon DEF Message

(* What the browser is told, the batch no longer holds. *)
LEMMA HandledInformed ==
    ASSUME RosterInv, NEW c \in Watched, Handling(c) \/ Selecting(c),
           UNCHANGED <<members, group>>,
           Expected(c) \subseteq Expected(c)'
    PROVE  Informed(c)'
<1> SUFFICES ASSUME status'[c] = "open", pc'[c] = "idle", group'[c] # NoGroup,
                    NEW x \in G!Members(group[c])'
             PROVE  IdOf[x] \in Expected(c)'
  BY DEF Informed
<1>1. status[c] = "open" /\ pc[c] = "idle" /\ group[c] # NoGroup
  BY DEF Handling, Selecting
<1>2. x \in G!Members(group[c]) BY DEF G!Members
<1>3. IdOf[x] \in Expected(c) BY <1>1, <1>2 DEF RosterInv, Informed
<1> QED BY <1>3

(* An action that says nothing of users can be dropped from the head. *)
LEMMA Neutral ==
    ASSUME NEW b \in Seq(Action), b # <<>>, NEW r \in SUBSET Ids,
           \A i \in Ids : ~Drops(Head(b), i) /\ ~Lists(Head(b), i)
    PROVE  Told(r, Tail(b)) = Told(r, b)
<1>1. /\ Len(b) \in Nat /\ Len(b) >= 1 /\ b[1] \in Action
      /\ Tail(b) = SubSeq(b, 2, Len(b)) /\ Head(b) = b[1]
  <2>1. Len(b) \in Nat /\ Len(b) # 0 BY EmptySeq
  <2>2. 1 \in 1..Len(b) BY <2>1
  <2> QED BY <2>1, <2>2, ElementOfSeq, TailIsSubSeq
<1> DEFINE p == SubSeq(b, 1, 1)
<1>2. p \in Seq(Action) /\ Len(p) = 1 /\ p[1] = b[1]
  BY <1>1, SubSeqProperties
<1> HIDE DEF p
<1>3. DOMAIN p = 1..1 BY <1>2, LenProperties
<1>4. \A k \in DOMAIN p : p[k] = Head(b) BY <1>1, <1>2, <1>3
<1>5. Told(r, p) = r BY <1>4 DEF Told
<1>6. Told(Told(r, p), SubSeq(b, 1 + 1, Len(b))) = Told(r, b)
  BY <1>1, ToldSplit DEF p
<1>7. Tail(b) = SubSeq(b, 1 + 1, Len(b))
  <2>1. 1 + 1 = 2 OBVIOUS
  <2> QED BY <1>1, <2>1, Zenon
<1> QED BY <1>5, <1>6, <1>7, Zenon

(* Browsers list identifiers. *)
LEMMA ToldRange == \A r, s : Told(r, s) \subseteq Ids
BY DEF Told

(* Taking and handling actions. *)
LEMMA HandleInformed ==
    ASSUME RosterInv, NEW c \in Watched, Handle(c) \/ GetActions(c)
    PROVE  Informed(c)'
<1>1. /\ c \in Clients /\ BaseInv /\ Queues
      /\ actions[c] \in Seq(Action) /\ batch[c] \in Seq(Action)
      /\ roster[c] \in SUBSET Ids
  BY ClientsAssumption DEF RosterInv, WebInv, BaseInv, Queues, TypeOK
<1> DEFINE r == Told(roster[c], batch[c])
<1>2. Expected(c) = Told(r, actions[c]) /\ r \subseteq Ids
  BY ToldRange DEF Expected
<1>3. CASE GetActions(c)
  <2>1. /\ Selecting(c) /\ batch[c] = <<>>
        /\ batch'[c] = Only(actions[c], Relevant)
        /\ actions'[c] = <<>> /\ roster'[c] = roster[c]
        /\ UNCHANGED <<members, group>>
    BY <1>1, <1>3
       DEF GetActions, G!TakeActions, G!callVars, Selecting, BaseInv, TypeOK
  <2>2. Expected(c)' = Told(Told(roster[c], Only(actions[c], Relevant)), <<>>)
    BY <2>1 DEF Expected
  <2>3. Expected(c)' = Told(roster[c], actions[c])
    BY <1>1, <2>2, ToldRange, ToldEmpty, ToldOnly
  <2>4. r = roster[c] BY <1>1, <2>1, ToldEmpty
  <2> QED BY <1>2, <2>1, <2>3, <2>4, HandledInformed
<1>4. CASE HandleTell(c)
  <2> DEFINE n == TellPrefix(c)
  <2>1. /\ Handling(c)
        /\ batch'[c] = SubSeq(batch[c], n + 1, Len(batch[c]))
        /\ roster'[c] = Told(roster[c], SubSeq(batch[c], 1, n))
        /\ actions'[c] = actions[c]
        /\ UNCHANGED <<members, group>>
    BY <1>1, <1>4 DEF HandleTell, groupVars, BaseInv, TypeOK
  <2>2. n \in 0..Len(batch[c]) BY <1>1, TellPrefixRange
  <2> HIDE DEF n
  <2>3. Told(Told(roster[c], SubSeq(batch[c], 1, n)),
             SubSeq(batch[c], n + 1, Len(batch[c]))) = r
    BY <1>1, <2>2, ToldSplit
  <2>4. Expected(c)' = Expected(c)
    BY <1>2, <2>1, <2>3 DEF Expected
  <2> QED BY <2>1, <2>4, HandledInformed
<1>5. ASSUME Handling(c), batch'[c] = Tail(batch[c]),
             UNCHANGED <<roster, members, group>>,
             Head(batch[c]).type \in {"permission", "permissions changed"},
             \A i \in Ids : Keeps(c, i)
      PROVE  Informed(c)'
  <2>1. batch[c] # <<>> BY <1>5 DEF Handling
  <2>2. \A i \in Ids : ~Drops(Head(batch[c]), i) /\ ~Lists(Head(batch[c]), i)
    BY <1>5 DEF Drops, Lists
  <2>3. Told(roster[c], Tail(batch[c])) = r BY <1>1, <2>1, <2>2, Neutral
  <2>4. Expected(c)' = Told(r, actions'[c]) BY <1>5, <2>3 DEF Expected
  <2>5. ASSUME NEW i \in Expected(c) PROVE i \in Expected(c)'
    <3> HIDE DEF r
    <3>0. i \in Ids BY <1>2, ToldRange
    <3>1. PICK t \in Seq(Action) : /\ actions'[c] = actions[c] \o t
                                   /\ \A k \in DOMAIN t : ~Drops(t[k], i)
      BY <1>5, <3>0 DEF Keeps
    <3>2. Expected(c)' = Told(Expected(c), t)
      BY <1>1, <1>2, <2>4, <3>1, ToldConcat
    <3>3. i \in Told(Expected(c), t) BY <3>0, <3>1 DEF Told
    <3> QED BY <3>2, <3>3
  <2> QED BY <1>5, <2>5, HandledInformed
<1>6. CASE HandlePermission(c)
  <2>1. /\ Handling(c) /\ batch'[c] = Tail(batch[c])
        /\ Head(batch[c]).type = "permission"
        /\ Put(c, PermissionsChanged)
        /\ UNCHANGED <<roster, members, group>>
    BY <1>1, <1>6 DEF HandlePermission, HandleNext, BaseInv, TypeOK
  <2>2. \A i : Keeps(c, i) BY <1>1, <2>1, PutKeeps, OwnActions, OwnDrops
  <2> QED BY <1>5, <2>1, <2>2
<1>7. CASE HandlePermissionsChanged(c)
  <2>1. /\ Handling(c) /\ batch'[c] = Tail(batch[c])
        /\ Head(batch[c]).type = "permissions changed"
        /\ UNCHANGED <<roster, members, group, actions>>
    BY <1>1, <1>7
       DEF HandlePermissionsChanged, HandleNext, groupVars, BaseInv, TypeOK
  <2>2. \A i : Keeps(c, i) BY <1>1, <2>1, Unqueued
  <2> QED BY <1>5, <2>1, <2>2
<1>8. CASE HandleEnd(c)
  <2>1. status'[c] # "open" BY <1>1, <1>8 DEF HandleEnd, BaseInv, TypeOK
  <2> QED BY <2>1 DEF Informed
<1> QED BY <1>3, <1>4, <1>6, <1>7, <1>8 DEF Handle

(* A join: the new client is told of all the others, and they of it. *)
LEMMA AdmitInformed ==
    ASSUME RosterInv, NoRedirects, NEW c \in Watched, NEW x \in Clients,
           JoinAdmitted(x)
    PROVE  Informed(c)'
<1> DEFINE o == at[x]
           ids == {IdOf[y] : y \in G!Members(o) \cup {x}}
           sent == [z \in Clients |->
                       IF z = x THEN <<G!Joined("join"), G!Added(ids)>>
                       ELSE IF z \in G!Members(o) THEN <<G!Added({IdOf[x]})>>
                                                  ELSE <<>>]
<1>1. /\ c \in Clients /\ BaseInv /\ Queues /\ GP!GhostInv /\ IdOf[x] \in Ids
      /\ actions[c] \in Seq(Action)
  BY ClientsAssumption DEF RosterInv, WebInv, BaseInv, Queues
<1>2. /\ G!Admit(x) /\ pc[x] = "added" /\ o \in Objs
      /\ members[o][IdOf[x]] = NoClient
      /\ members' = [members EXCEPT ![o][IdOf[x]] = x]
      /\ pc' = [pc EXCEPT ![x] = "idle"]
      /\ UNCHANGED <<batch, status, roster>>
  BY <1>1
     DEF JoinAdmitted, G!Admit, G!Return, webVars, BaseInv, GP!TypeInv,
         GP!Located
<1>3. group' = [group EXCEPT ![x] = o]
  <2>1. desc[o] \in Descs BY <1>2 DEF RosterInv, WebInv, GP!Described
  <2> QED BY <1>2, <2>1 DEF NoRedirects, G!Admit
<1>4. /\ G!Members(o) \subseteq Clients /\ ids \subseteq Ids
  BY <1>1, <1>2, GroupMembersTyping, ClientsAssumption DEF BaseInv
<1>5. \A p \in Objs :
         G!Members(p)' \subseteq IF p = o THEN G!Members(o) \cup {x}
                                          ELSE G!Members(p)
  <2>1. members \in [Objs -> [Ids -> Clients \cup {NoClient}]]
    BY <1>1 DEF BaseInv, GP!TypeInv, GP!TypeOK
  <2>2. \A p \in Objs, i \in Ids :
           members'[p][i] = IF p = o /\ i = IdOf[x] THEN x ELSE members[p][i]
    BY <1>1, <1>2, <2>1
  <2> QED BY <2>2 DEF G!Members
<1>6. G!Send(sent) BY <1>2, Zenon DEF G!Admit
<1>7. /\ G!Joined("join") \in Action /\ G!Added(ids) \in Action
      /\ G!Added({IdOf[x]}) \in Action
      /\ \A i : /\ ~Drops(G!Joined("join"), i) /\ ~Drops(G!Added(ids), i)
                /\ ~Drops(G!Added({IdOf[x]}), i)
      /\ \A i \in ids : Lists(G!Added(ids), i)
      /\ Lists(G!Added({IdOf[x]}), IdOf[x])
  BY <1>1, <1>4 DEF G!Joined, G!Added, G!Action, Action, Drops, Lists
<1> SUFFICES ASSUME status'[c] = "open", pc'[c] = "idle", group'[c] # NoGroup,
                    NEW y \in G!Members(group[c])'
             PROVE  IdOf[y] \in Expected(c)'
  BY DEF Informed
<1>8. status[c] = "open" /\ c \in listening
  BY <1>2 DEF RosterInv, Attentive
<1> DEFINE r == Told(roster[c], batch[c])
<1>9. actions'[c] = actions[c] \o sent[c] BY <1>1, <1>6, <1>8 DEF G!Send
<1>10. Expected(c) = Told(r, actions[c]) /\ Expected(c)' = Told(r, actions'[c])
  BY <1>2 DEF Expected
<1> HIDE DEF r
<1>11. ASSUME sent[c] \in Seq(Action)
       PROVE  Expected(c)' = Told(Expected(c), sent[c])
  <2> HIDE DEF sent
  <2> QED BY <1>1, <1>9, <1>10, <1>11, ToldConcat
<1>12. PICK p \in Objs \cup {NoGroup} : p = group'[c]
  BY <1>1, <1>2, <1>3 DEF BaseInv, GP!TypeInv, GP!TypeOK
<1>13. p \in Objs /\ y \in G!Members(p)'
  BY <1>12 DEF G!Members
<1>14. CASE c = x
  <2>1. p = o BY <1>1, <1>3, <1>12, <1>14 DEF BaseInv, GP!TypeInv, GP!TypeOK
  <2>2. y \in G!Members(o) \cup {x} BY <1>2, <1>5, <1>13, <2>1
  <2>3. IdOf[y] \in ids /\ IdOf[y] \in Ids BY <1>4, <2>2
  <2> DEFINE t == <<G!Joined("join"), G!Added(ids)>>
  <2>4. sent[c] = t /\ t \in Seq(Action) /\ Len(t) = 2 /\ t[2] = G!Added(ids)
    <3> HIDE DEF ids
    <3> QED BY <1>1, <1>7, <1>14
  <2> HIDE DEF t, ids, sent
  <2>5. DOMAIN t = 1..2 BY <2>4, LenProperties
  <2>6. IdOf[y] \in Told(Expected(c), t)
    <3>1. 2 \in DOMAIN t /\ \A l \in DOMAIN t : ~(l > 2) BY <2>5
    <3> QED BY <1>7, <2>3, <2>4, <3>1 DEF Told
  <2> QED BY <1>11, <2>4, <2>6
<1>15. CASE c # x
  <2>1. p = group[c] /\ pc[c] = "idle" /\ group[c] # NoGroup
    BY <1>1, <1>2, <1>3, <1>12, <1>15 DEF BaseInv, GP!TypeInv, GP!TypeOK
  <2>2. \A z \in G!Members(p) : IdOf[z] \in Expected(c)
    BY <1>8, <2>1 DEF RosterInv, Informed
  <2>3. CASE p = o
    <3>1. c \in G!Members(o)
      <4>1. members[o][IdOf[c]] = c
        BY <1>1, <2>1, <2>3 DEF GP!GhostInv, GP!MemberInv, GP!StaysMember
      <4> QED BY <1>1, <4>1, ClientsAssumption DEF G!Members
    <3> DEFINE t == <<G!Added({IdOf[x]})>>
    <3>2. /\ sent[c] = t /\ t \in Seq(Action)
          /\ Len(t) = 1 /\ t[1] = G!Added({IdOf[x]})
      BY <1>1, <1>7, <1>15, <3>1
    <3> HIDE DEF t, sent, ids
    <3>3. DOMAIN t = 1..1 BY <3>2, LenProperties
    <3>4. y \in G!Members(o) \cup {x} BY <1>2, <1>5, <1>13, <2>3
    <3>5. IdOf[y] \in Told(Expected(c), t)
      <4>1. CASE y = x
        <5>1. 1 \in DOMAIN t /\ \A l \in DOMAIN t : ~(l > 1) BY <3>3
        <5> QED BY <1>1, <1>7, <3>2, <4>1, <5>1 DEF Told
      <4>2. CASE y \in G!Members(o)
        <5>1. IdOf[y] \in Expected(c) /\ IdOf[y] \in Ids
          BY <1>4, <2>2, <2>3, <4>2, ClientsAssumption
        <5>2. \A k \in DOMAIN t : t[k] = G!Added({IdOf[x]})
          BY <3>2, <3>3
        <5>3. \A k \in DOMAIN t : ~Drops(t[k], IdOf[y])
          BY <1>7, <5>2, Zenon
        <5> QED BY <5>1, <5>3 DEF Told
      <4> QED BY <3>4, <4>1, <4>2
    <3> QED BY <1>11, <3>2, <3>5
  <2>4. CASE p # o
    <3>1. y \in G!Members(p) BY <1>5, <1>13, <2>4
    <3>2. y \in Clients BY <1>1, <1>13, <3>1, GroupMembersTyping DEF BaseInv
    <3>3. IdOf[y] \in Expected(c) /\ IdOf[y] \in Ids
      BY <2>2, <3>1, <3>2, ClientsAssumption
    <3>4. c \notin G!Members(o)
      BY <1>1, <1>2, <2>1, <2>4, SameMembers DEF GP!GhostInv, GP!NoGhost
    <3>5. sent[c] = <<>> BY <1>1, <1>15, <3>4
    <3> HIDE DEF sent
    <3>6. <<>> \in Seq(Action) /\ DOMAIN <<>> = {} BY EmptySeq
    <3>7. IdOf[y] \in Told(Expected(c), <<>>) BY <3>3, <3>6 DEF Told
    <3> QED BY <1>11, <3>5, <3>6, <3>7
  <2> QED BY <2>3, <2>4
<1> QED BY <1>14, <1>15

(* The steps of another client's loop. *)
LEMMA OtherLoopInformed ==
    ASSUME RosterInv, NoRedirects, DistinctIds, NEW c \in Watched,
           NEW x \in Clients, x # c, Loop(x)
    PROVE  Informed(c)'
<1>1. c \in Clients /\ BaseInv /\ Queues
  BY ClientsAssumption DEF RosterInv, WebInv, BaseInv
<1>2. UNCHANGED Own(c) BY <1>1, OwnFrame
<1>3. ASSUME \A i : Keeps(c, i),
             UNCHANGED members \/ \E y \in Clients : G!DelClient(y)
      PROVE  Informed(c)'
  BY <1>2, <1>3, ElsewhereInformed
<1>4. ASSUME actions'[c] = actions[c],
             UNCHANGED members \/ \E y \in Clients : G!DelClient(y)
      PROVE  Informed(c)'
  BY <1>1, <1>3, <1>4, Unqueued
<1> USE DEF webVars, groupVars, G!restVars, G!callVars
<1>5. CASE JoinAdmitted(x) BY <1>5, AdmitInformed
<1>6. CASE JoinRefused(x) BY <1>4, <1>6 DEF JoinRefused, G!Refuse
<1>7. CASE GetActions(x)
  BY <1>1, <1>4, <1>7 DEF GetActions, G!TakeActions, Queues
<1>8. CASE HandleTell(x) BY <1>4, <1>8 DEF HandleTell
<1>9. CASE HandlePermission(x)
  <2>1. Put(x, PermissionsChanged) /\ UNCHANGED members
    BY <1>9 DEF HandlePermission
  <2>2. \A i : Keeps(c, i) BY <1>1, <2>1, PutKeeps, OwnActions, OwnDrops
  <2> QED BY <1>3, <2>1, <2>2
<1>10. CASE HandlePermissionsChanged(x)
  BY <1>4, <1>10 DEF HandlePermissionsChanged
<1>11. CASE HandleEnd(x)
  BY <1>1, <1>4, <1>11 DEF HandleEnd, G!StopListening, Queues
<1>12. CASE CloseLeave(x) BY <1>4, <1>12 DEF CloseLeave, G!DelClient
<1>13. CASE Close(x) BY <1>4, <1>13 DEF Close
<1>14. CASE Leaving(x)
  <2>1. UNCHANGED members
    BY <1>14 DEF Leaving, G!TellDeleted, G!ScanForOps, G!LockAndKick
  <2>2. CASE G!TellDeleted(x)
    <3>1. \A o \in Objs : \A y \in G!Members(o) : Keeps(c, IdOf[y])
      BY <1>1, <2>2, TellDeletedKeeps
    <3> QED BY <1>2, <2>1, <3>1, ElsewhereInformed
  <2>3. CASE G!ScanForOps(x) BY <1>4, <2>1, <2>3 DEF G!ScanForOps
  <2>4. CASE G!LockAndKick(x)
    <3>1. \E cs : G!SendChange(cs) BY <2>4, Zenon DEF G!LockAndKick
    <3>2. \A i : Keeps(c, i) BY <1>1, <3>1, ChangeKeeps
    <3> QED BY <1>3, <2>1, <3>2
  <2> QED BY <1>14, <2>2, <2>3, <2>4 DEF Leaving
<1> QED BY <1>5, <1>6, <1>7, <1>8, <1>9, <1>10, <1>11, <1>12, <1>13, <1>14,
   Zenon
        DEF Loop, Handle

(* The steps of its own. *)
LEMMA OwnLoopInformed ==
    ASSUME RosterInv, NoRedirects, NEW c \in Watched, Loop(c)
    PROVE  Informed(c)'
<1>1. c \in Clients /\ BaseInv /\ GP!GhostInv
  BY ClientsAssumption DEF RosterInv, WebInv
<1>2. ASSUME \/ status'[c] # "open" \/ pc'[c] # "idle" \/ group'[c] = NoGroup
      PROVE  Informed(c)'
  BY <1>2 DEF Informed
<1> USE DEF BaseInv, GP!TypeInv, GP!TypeOK, TypeOK
<1>3. CASE JoinAdmitted(c) BY <1>1, <1>3, AdmitInformed
<1>4. CASE JoinRefused(c)
  <2>1. pc[c] = "added" /\ UNCHANGED group BY <1>4 DEF JoinRefused, G!Refuse
  <2>2. group[c] = NoGroup
    BY <1>1, <2>1 DEF GP!GhostInv, GP!MemberInv, GP!Entering
  <2> QED BY <1>2, <2>1, <2>2
<1>5. CASE GetActions(c) \/ Handle(c) BY <1>5, HandleInformed
<1>6. CASE CloseLeave(c)
  <2>1. status'[c] = "closing" BY <1>6 DEF CloseLeave, webVars
  <2> QED BY <1>2, <2>1
<1>7. CASE Close(c)
  <2>1. status'[c] = "closed" BY <1>1, <1>7 DEF Close
  <2> QED BY <1>2, <2>1
<1>8. CASE Leaving(c)
  <2>1. pc'[c] # "idle" \/ group'[c] = NoGroup
    BY <1>1, <1>8, Zenon
       DEF Leaving, G!TellDeleted, G!ScanForOps, G!LockAndKick, G!Leave
  <2> QED BY <1>2, <2>1
<1> QED BY <1>3, <1>4, <1>5, <1>6, <1>7, <1>8 DEF Loop

-----------------------------------------------------------------------------
(* The invariant holds. *)

(* Every step keeps the invariant. *)
LEMMA RosterStep ==
    ASSUME NoRedirects, DistinctIds, RosterInv, [Next]_vars
    PROVE  RosterInv'
<1>1. WebInv' /\ Attentive'
  BY WebStep, AttentiveStep DEF RosterInv, WebInv
<1>2. ASSUME NEW c \in Watched PROVE Informed(c)'
  <2>1. ASSUME NEW x \in Clients, Message(x) \/ KickOne(x)
        PROVE  Informed(c)'
    BY <2>1, MessageInformed
  <2>2. ASSUME NEW x \in Clients, Loop(x) PROVE Informed(c)'
    BY <2>2, OtherLoopInformed, OwnLoopInformed
  <2> QED BY <2>1, <2>2, ServerInformed DEF Next
<1> QED BY <1>1, <1>2 DEF RosterInv

(* The clients that are there at first know one another. *)
LEMMA InitRosters == Init => RosterInv
<1> SUFFICES ASSUME Init PROVE RosterInv OBVIOUS
<1>1. WebInv BY InitBase DEF WebInv
<1>2. Attentive BY DEF Init, Attentive
<1>3. ASSUME NEW c \in Watched, group[c] # NoGroup,
             NEW x \in G!Members(group[c])
      PROVE  IdOf[x] \in Expected(c)
  <2>1. c \in Clients /\ c \in Present /\ group[c] = Start
    BY <1>3, ClientsAssumption DEF Init
  <2>2. x \in Present /\ IdOf[x] \in Ids
    <3>1. Start \in Objs /\ NoClient \notin Clients
      BY ObjsAssumption, ClientsAssumption DEF Start
    <3>2. PICK i \in Ids : x = members[Start][i] /\ x # NoClient
      BY <1>3, <2>1 DEF G!Members
    <3>3. /\ \E d \in Present : IdOf[d] = i
          /\ x = CHOOSE d \in Present : IdOf[d] = i
      BY <3>1, <3>2 DEF Init
    <3> QED BY <3>3, PresentAssumption, ClientsAssumption
  <2>3. IdOf[x] \in roster[c] /\ roster[c] \in SUBSET Ids
    BY <2>1, <2>2, <1>1 DEF Init, WebInv, BaseInv, TypeOK
  <2>4. batch[c] = <<>> /\ actions[c] = <<>> BY <2>1 DEF Init
  <2> QED BY <2>3, <2>4, ToldEmpty DEF Expected
<1> QED BY <1>1, <1>2, <1>3 DEF RosterInv, Informed

(* A client that has handled all that was queued for it knows every client
   of its group, whatever joined or left while it joined. *)
THEOREM RostersComplete ==
    ASSUME NoRedirects, DistinctIds
    PROVE  Spec => []RosterComplete
<1>1. RosterInv => RosterComplete
  <2> SUFFICES ASSUME RosterInv, NEW c \in Clients, Settled(c),
                      NEW x \in G!Members(group[c])
               PROVE  IdOf[x] \in roster[c]
    BY DEF RosterComplete
  <2>1. IdOf[x] \in Expected(c) BY DEF RosterInv, Informed, Settled
  <2>2. roster[c] \in SUBSET Ids BY DEF RosterInv, WebInv, BaseInv, TypeOK
  <2>3. Expected(c) = roster[c] BY <2>2, ToldEmpty DEF Expected, Settled
  <2> QED BY <2>1, <2>3
<1>2. RosterInv /\ [Next]_vars => RosterInv' BY RosterStep
<1> QED BY <1>1, <1>2, InitRosters, PTL DEF Spec
=============================================================================
