-------------------------- MODULE UnboundedChannel --------------------------
(***************************************************************************)
(* unbounded/unbounded.go: a queue protected by a mutex, and the channel   *)
(* Ch, of capacity one, that tells the consumer that the queue became      *)
(* non-empty.  Put releases the mutex before it signals, so the consumer   *)
(* and other producers run between the two.  Every client of a group, and  *)
(* every track reader, receives its work through one of these.             *)
(*                                                                         *)
(* Definitions marked "Mutation" are mistakes that the properties must     *)
(* notice, and not part of the model.                                      *)
(***************************************************************************)
EXTENDS Naturals, Sequences

CONSTANTS Producers,     \* the goroutines that call Put
          MaxPuts        \* bound: how often each of them does

ASSUME MaxPutsAssumption == MaxPuts \in Nat

VARIABLES queue,         \* ch.queue
          token,         \* whether the channel ch.Ch holds its one element
          signalling,    \* the producers between the unlock and the send
          fetching,      \* whether the consumer received from Ch, before Get
          puts,          \* how many elements each producer has put
          delivered      \* history: what Get has returned so far

vars == <<queue, token, signalling, fetching, puts, delivered>>

\* The n-th element of a producer; its content does not matter.
Item == Producers \X (1..MaxPuts)

Init == /\ queue = <<>>
        /\ token = FALSE
        /\ signalling = {}
        /\ fetching = FALSE
        /\ puts = [p \in Producers |-> 0]
        /\ delivered = <<>>

\* Mutation: elements are numbered from zero.
PutFromZero(p) ==
    /\ p \notin signalling
    /\ puts[p] < MaxPuts
    /\ puts' = [puts EXCEPT ![p] = @ + 1]
    /\ queue' = Append(queue, <<p, puts[p]>>)
    /\ signalling' = IF queue = <<>> THEN signalling \cup {p} ELSE signalling
    /\ UNCHANGED <<token, fetching, delivered>>

\* Mutation: the test for an empty queue comes after the element is appended.
PutTestingLate(p) ==
    /\ p \notin signalling
    /\ puts[p] < MaxPuts
    /\ puts' = [puts EXCEPT ![p] = @ + 1]
    /\ queue' = Append(queue, <<p, puts[p] + 1>>)
    /\ signalling' = IF queue' = <<>> THEN signalling \cup {p} ELSE signalling
    /\ UNCHANGED <<token, fetching, delivered>>

\* Put up to mu.Unlock: the element is appended, and the producer goes on to
\* signal only if it found the queue empty.
PutLocked(p) ==
    /\ p \notin signalling
    /\ puts[p] < MaxPuts
    /\ puts' = [puts EXCEPT ![p] = @ + 1]
    /\ queue' = Append(queue, <<p, puts[p] + 1>>)
    /\ signalling' = IF queue = <<>> THEN signalling \cup {p} ELSE signalling
    /\ UNCHANGED <<token, fetching, delivered>>

\* The rest of Put: a send that is dropped when Ch is full.
PutSignal(p) ==
    /\ p \in signalling
    /\ signalling' = signalling \ {p}
    /\ token' = TRUE
    /\ UNCHANGED <<queue, fetching, puts, delivered>>

\* The consumer's select receives from Ch.
Receive == /\ token /\ ~fetching
           /\ token' = FALSE
           /\ fetching' = TRUE
           /\ UNCHANGED <<queue, signalling, puts, delivered>>

\* Mutation: the queue is not reset.
GetKeeping == /\ delivered' = delivered \o queue
              /\ fetching' = FALSE
              /\ UNCHANGED <<queue, token, signalling, puts>>

\* Mutation: one element is taken, and the rest left without a signal.
GetOne == /\ queue # <<>>
          /\ delivered' = Append(delivered, Head(queue))
          /\ queue' = Tail(queue)
          /\ fetching' = FALSE
          /\ UNCHANGED <<token, signalling, puts>>

\* Get takes the whole queue.  It usually follows a receive; it "may be called
\* at any time", which is the case where fetching is FALSE.
Get == /\ delivered' = delivered \o queue
       /\ queue' = <<>>
       /\ fetching' = FALSE
       /\ UNCHANGED <<token, signalling, puts>>

Next == \/ \E p \in Producers : PutLocked(p) \/ PutSignal(p)
        \/ Receive
        \/ Get

\* A producer that entered Put finishes it, and a consumer blocked on Ch runs
\* when Ch is ready.  A Get that no receive precedes is never owed.
Fairness == /\ \A p \in Producers : WF_vars(PutSignal(p))
            /\ WF_vars(Receive)
            /\ WF_vars(fetching /\ Get)

Spec == Init /\ [][Next]_vars /\ Fairness
-----------------------------------------------------------------------------
TypeOK == /\ queue \in Seq(Item)
          /\ token \in BOOLEAN
          /\ signalling \subseteq Producers
          /\ fetching \in BOOLEAN
          /\ puts \in [Producers -> 0..MaxPuts]
          /\ delivered \in Seq(Item)

(* No wakeup is lost: while there is something to fetch, either Ch is ready,
   or a producer is about to make it ready, or the consumer is already on its
   way to Get.  Put signals outside the mutex, so this is what makes its
   "empty" test enough. *)
NoLostWakeup == queue # <<>> => token \/ fetching \/ signalling # {}

(* What was delivered, followed by what is queued, has exactly what was put, and
   what each producer put in its order: nothing is lost, duplicated or reordered
   by a Put that overlaps other Puts and a Get. *)
ProducerOrder ==
    LET all == delivered \o queue
    IN /\ \A i, j \in DOMAIN all :
             i < j /\ all[i][1] = all[j][1] => all[i][2] < all[j][2]
       /\ {all[i] : i \in DOMAIN all} = {x \in Item : x[2] <= puts[x[1]]}

(* The channel implements the abstract queue, the promise that every accepted
   element is eventually delivered included. *)
Abstract == INSTANCE Fifo WITH pending <- queue

ImplementsFifo == Abstract!Spec
=============================================================================
