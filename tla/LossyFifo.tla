----------------------------- MODULE LossyFifo ------------------------------
(***************************************************************************)
(* What one host promises the connections of the other: a queue for each   *)
(* of them that may lose packets and never reorders, invents or repeats    *)
(* one, but for the SYN that opens a connection.                           *)
(***************************************************************************)
EXTENDS Integers, FiniteSets, Sequences, SequencesExt

CONSTANTS Keys, Packet

VARIABLES
    inflight,      \* inflight[k]: the packets on their way to connection k
    inbox          \* inbox[k]: what was delivered to it since it was made

\* What is left of s when packets are taken out.
Thinned(s) ==
    {[i \in 1 .. Cardinality(D) |-> s[SetToSortSeq(D, <)[i]]] : D \in SUBSET DOMAIN s}

Init ==
    /\ inflight = [k \in Keys |-> <<>>]
    /\ inbox = [k \in Keys |-> <<>>]

Send(k) ==
    /\ \E pkt \in Packet : inflight' = [inflight EXCEPT ![k] = Append(@, pkt)]
    /\ UNCHANGED inbox

\* Any of the packets get lost.
Lose ==
    /\ \A k \in Keys : inflight'[k] \in Thinned(inflight[k])
    /\ UNCHANGED inbox

Deliver(k) ==
    /\ inflight[k] # <<>>
    /\ inflight' = [inflight EXCEPT ![k] = Tail(@)]
    /\ inbox' = [inbox EXCEPT ![k] = Append(@, Head(inflight[k]))]

\* A connection that was just made gets its SYN twice.
RepeatSyn(k) ==
    /\ Len(inbox[k]) = 1
    /\ Head(inbox[k]).kind = "SYN"
    /\ inbox' = [inbox EXCEPT ![k] = Append(@, Head(@))]
    /\ UNCHANGED inflight

\* The connection is deleted; there may be another with its key later.
Delete(k) ==
    /\ inbox' = [inbox EXCEPT ![k] = <<>>]
    /\ UNCHANGED inflight

Next == Lose \/ \E k \in Keys : Send(k) \/ Deliver(k) \/ RepeatSyn(k) \/ Delete(k)

Spec == Init /\ [][Next]_<<inflight, inbox>>
=============================================================================
