---------------------------- MODULE PacketQueue -----------------------------
(***************************************************************************)
(* The blocking queue between two threads (PacketQueue.cc), at the level   *)
(* of its mutexes and condition variables.                                 *)
(*                                                                         *)
(* A reader is a thread in DeQueue or DeQueueAllTo; it takes one action    *)
(* per critical section, and two for the wait on cv_: it finds the         *)
(* predicate false, and it blocks.  Between the two it holds mutex_, which *)
(* keeps Push out, but not Stop, which does not take mutex_.               *)
(***************************************************************************)
EXTENDS Naturals, Sequences, FiniteSets

CONSTANTS
    Readers,      \* threads that call DeQueue and DeQueueAllTo
    Pushers,      \* threads that call Push
    Calls,        \* which of "DeQueue" and "DeQueueAllTo" the readers call
    PushSizes,    \* how many packets a call of Push brings
    MaxPackets,   \* bound: how many packets are pushed in all
    CallsAfterStop  \* FALSE: readers look at a flag set before Stop is called

ASSUME QueueAssumption ==
    /\ Calls \subseteq {"DeQueue", "DeQueueAllTo"}
    /\ PushSizes \subseteq Nat \ {0}
    /\ MaxPackets \in Nat
    /\ CallsAfterStop \in BOOLEAN

VARIABLES
    packets,      \* packets_
    destroy,      \* destroy_
    num_readers,
    reader,       \* where each reader is
    call,         \* the call it is in: which one, and whether it is blocking
    last_reader,  \* DecReaders' local variable of that name
    pusher,       \* where each pusher is: "idle" or "notify"
    stopper,      \* where the thread that calls Stop is
    pushed,       \* how many packets were pushed: packet n is the n-th
    taken         \* the packets readers have taken, in the order they did

vars == <<packets, destroy, num_readers, reader, call, last_reader, pusher, stopper,
          pushed, taken>>

\* A reader that has found nothing keeps mutex_ until it blocks.
MutexHeld == \E r \in Readers : reader[r] = "blocking"

Waiting == {r \in Readers : reader[r] = "waiting"}

TypeOK ==
    /\ packets \in Seq(Nat)
    /\ destroy \in BOOLEAN
    /\ num_readers \in 0 .. Cardinality(Readers)
    /\ reader \in [Readers -> {"idle", "lock", "blocking", "waiting", "dec", "leave"}]
    /\ call \in [Readers -> [method : {"DeQueue", "DeQueueAllTo"}, blocking : BOOLEAN]]
    /\ last_reader \in [Readers -> BOOLEAN]
    /\ pusher \in [Pushers -> {"idle", "notify"}]
    /\ stopper \in {"idle", "stored", "notified", "waiting", "done"}
    /\ pushed \in 0 .. MaxPackets
    /\ taken \in Seq(Nat)

Init ==
    /\ packets = <<>>
    /\ destroy = FALSE
    /\ num_readers = 0
    /\ reader = [r \in Readers |-> "idle"]
    /\ call = [r \in Readers |-> [method |-> "DeQueueAllTo", blocking |-> TRUE]]
    /\ last_reader = [r \in Readers |-> FALSE]
    /\ pusher = [p \in Pushers |-> "idle"]
    /\ stopper = "idle"
    /\ pushed = 0
    /\ taken = <<>>

-----------------------------------------------------------------------------
(* DeQueue and DeQueueAllTo. *)

\* IncReaders.
IncReaders(r) ==
    /\ reader[r] = "idle"
    /\ destroy => CallsAfterStop
    /\ \E m \in Calls, b \in BOOLEAN : call' = [call EXCEPT ![r] = [method |-> m, blocking |-> b]]
    /\ num_readers' = num_readers + 1
    /\ reader' = [reader EXCEPT ![r] = "lock"]
    /\ UNCHANGED <<packets, destroy, last_reader, pusher, stopper, pushed, taken>>

\* With mutex_ taken, or taken again after a wait: nothing to return.
ReturnNothing(r) ==
    /\ reader[r] = "lock"
    /\ ~MutexHeld
    /\ destroy \/ (packets = <<>> /\ ~call[r].blocking)
    /\ reader' = [reader EXCEPT ![r] = "dec"]
    /\ UNCHANGED <<packets, destroy, num_readers, call, last_reader, pusher, stopper,
                   pushed, taken>>

\* Mutant: the packets are handed over and stay in the queue.
TakeCopy(r) ==
    /\ reader[r] = "lock"
    /\ ~MutexHeld
    /\ ~destroy
    /\ packets # <<>>
    /\ taken' = taken \o packets
    /\ reader' = [reader EXCEPT ![r] = "dec"]
    /\ UNCHANGED <<packets, destroy, num_readers, call, last_reader, pusher, stopper, pushed>>

\* DeQueue moves the front packet out, DeQueueAllTo swaps the whole queue out.
Take(r) ==
    /\ reader[r] = "lock"
    /\ ~MutexHeld
    /\ ~destroy
    /\ packets # <<>>
    /\ LET n == IF call[r].method = "DeQueue" THEN 1 ELSE Len(packets)
       IN  /\ taken' = taken \o SubSeq(packets, 1, n)
           /\ packets' = SubSeq(packets, n + 1, Len(packets))
    /\ reader' = [reader EXCEPT ![r] = "dec"]
    /\ UNCHANGED <<destroy, num_readers, call, last_reader, pusher, stopper, pushed>>

\* The wait's predicate is false.
PredicateFalse(r) ==
    /\ reader[r] = "lock"
    /\ ~MutexHeld
    /\ call[r].blocking
    /\ ~destroy
    /\ packets = <<>>
    /\ reader' = [reader EXCEPT ![r] = "blocking"]
    /\ UNCHANGED <<packets, destroy, num_readers, call, last_reader, pusher, stopper,
                   pushed, taken>>

\* The thread blocks and releases mutex_, at once.
Block(r) ==
    /\ reader[r] = "blocking"
    /\ reader' = [reader EXCEPT ![r] = "waiting"]
    /\ UNCHANGED <<packets, destroy, num_readers, call, last_reader, pusher, stopper,
                   pushed, taken>>

SpuriousWakeup(r) ==
    /\ reader[r] = "waiting"
    /\ reader' = [reader EXCEPT ![r] = "lock"]
    /\ UNCHANGED <<packets, destroy, num_readers, call, last_reader, pusher, stopper,
                   pushed, taken>>

\* DecReaders under num_readers_mutex_.
DecReaders(r) ==
    /\ reader[r] = "dec"
    /\ last_reader' = [last_reader EXCEPT ![r] = (num_readers = 1)]
    /\ num_readers' = num_readers - 1
    /\ reader' = [reader EXCEPT ![r] = "leave"]
    /\ UNCHANGED <<packets, destroy, call, pusher, stopper, pushed, taken>>

\* The rest of DecReaders: the last reader wakes Stop.
Leave(r) ==
    /\ reader[r] = "leave"
    /\ stopper' = IF destroy /\ last_reader[r] /\ stopper = "waiting" THEN "notified"
                  ELSE stopper
    /\ reader' = [reader EXCEPT ![r] = "idle"]
    /\ UNCHANGED <<packets, destroy, num_readers, call, last_reader, pusher, pushed, taken>>

-----------------------------------------------------------------------------
(* Push, of one packet or of a queue of them. *)

Push(p, n) ==
    /\ pusher[p] = "idle"
    /\ ~MutexHeld
    /\ pushed + n <= MaxPackets
    /\ packets' = packets \o [i \in 1 .. n |-> pushed + i]
    /\ pushed' = pushed + n
    /\ pusher' = [pusher EXCEPT ![p] = "notify"]
    /\ UNCHANGED <<destroy, num_readers, reader, call, last_reader, stopper, taken>>

\* Mutant: Push wakes nobody.
NoNotifyOne(p) ==
    /\ pusher[p] = "notify"
    /\ pusher' = [pusher EXCEPT ![p] = "idle"]
    /\ UNCHANGED <<packets, destroy, num_readers, reader, call, last_reader, stopper,
                   pushed, taken>>

NotifyOne(p) ==
    /\ pusher[p] = "notify"
    /\ pusher' = [pusher EXCEPT ![p] = "idle"]
    /\ \/ \E r \in Waiting : reader' = [reader EXCEPT ![r] = "lock"]
       \/ Waiting = {} /\ UNCHANGED reader
    /\ UNCHANGED <<packets, destroy, num_readers, call, last_reader, stopper, pushed, taken>>

-----------------------------------------------------------------------------
(* Stop. *)

StoreDestroy ==
    /\ stopper = "idle"
    /\ destroy' = TRUE
    /\ stopper' = "stored"
    /\ UNCHANGED <<packets, num_readers, reader, call, last_reader, pusher, pushed, taken>>

NotifyAll ==
    /\ stopper = "stored"
    /\ reader' = [r \in Readers |-> IF r \in Waiting THEN "lock" ELSE reader[r]]
    /\ stopper' = "notified"
    /\ UNCHANGED <<packets, destroy, num_readers, call, last_reader, pusher, pushed, taken>>

\* Mutant: Stop does not wait for the readers.
StopAtOnce ==
    /\ stopper = "notified"
    /\ stopper' = "done"
    /\ UNCHANGED <<packets, destroy, num_readers, reader, call, last_reader, pusher,
                   pushed, taken>>

\* The wait on num_readers_cv_: the count only falls under num_readers_mutex_,
\* so that finding the predicate false and blocking is one step.
AwaitReaders ==
    /\ stopper = "notified"
    /\ stopper' = IF num_readers <= 0 THEN "done" ELSE "waiting"
    /\ UNCHANGED <<packets, destroy, num_readers, reader, call, last_reader, pusher,
                   pushed, taken>>

-----------------------------------------------------------------------------
ReaderStep(r) ==
    \/ ReturnNothing(r)
    \/ Take(r)
    \/ PredicateFalse(r)
    \/ Block(r)
    \/ DecReaders(r)
    \/ Leave(r)

Stop == StoreDestroy \/ NotifyAll \/ AwaitReaders

Next ==
    \/ \E r \in Readers : IncReaders(r) \/ ReaderStep(r) \/ SpuriousWakeup(r)
    \/ \E p \in Pushers : NotifyOne(p) \/ \E n \in PushSizes : Push(p, n)
    \/ Stop

Spec == Init /\ [][Next]_vars

\* Every thread runs on, and the listeners call the queue again and again.
\* Nobody has to push, nobody has to begin a Stop, and no wakeup is spurious.
Fairness ==
    /\ \A r \in Readers : WF_vars(IncReaders(r)) /\ WF_vars(ReaderStep(r))
    /\ \A p \in Pushers : WF_vars(NotifyOne(p))
    /\ WF_vars(NotifyAll \/ AwaitReaders)

FairSpec == Spec /\ Fairness

-----------------------------------------------------------------------------
(* Properties. *)

\* Every packet comes out once, and in the order it was pushed, whichever
\* readers and pushers compete.
FifoOnce == taken \o packets = [i \in 1 .. pushed |-> i]

\* No packet is left in the queue with the readers asleep: a reader is awake,
\* or a Push has still to notify one, or a caller of DeQueue, who took one packet
\* of several, has to call again (Push notifies one reader for a whole batch).
NoMissedPacket ==
    packets # <<>> /\ Waiting # {} /\ ~destroy =>
        \/ \E r \in Readers : reader[r] = "lock"
        \/ \E p \in Pushers : pusher[p] = "notify"
        \/ \E r \in Readers \ Waiting : call[r].method = "DeQueue"

\* Stop returns only when every reader has given up its place in num_readers_.
StopAwaitsReaders ==
    [][stopper' = "done" /\ stopper # "done" =>
          \A r \in Readers : reader[r] \in {"idle", "leave"}]_vars

\* What is pushed is taken in the end, unless the queue is stopped.
PacketsTaken == packets # <<>> ~> packets = <<>> \/ destroy

\* Stop, once called, returns.
StopReturns == stopper = "stored" ~> stopper = "done"

\* When Stop returns, every client has returned from its blocking DeQueue or
\* DeQueueAllTo, as PacketQueue.h says.
StopIsSafe ==
    [][stopper' = "done" /\ stopper # "done" =>
          \A r \in Readers : call[r].blocking => reader[r] = "idle"]_vars
=============================================================================
