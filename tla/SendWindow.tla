----------------------------- MODULE SendWindow -----------------------------
(***************************************************************************)
(* The sliding window of a sender (SendWindow.cc).                         *)
(*                                                                         *)
(* A window is a record of the class's fields.  The methods are operators  *)
(* that return the new window with the method's result; a SANITY_CHECK of  *)
(* the code, which ends the program when it fails, is the field "sane".    *)
(* The round-trip stopwatch and has_retransmitted_pkt_ only feed the       *)
(* UpdateRTT call that HandleACK has commented out, and are left out.      *)
(***************************************************************************)
EXTENDS Packet, FiniteSetsExt

CONSTANTS
    MaxDupOrigin,  \* kMaxDuplicatedAcksOrigin
    MaxDupCap      \* bound: the growth of max_duplicated_acks stops here

ASSUME MaxDupAssumption ==
    /\ MaxDupOrigin \in Nat \ {0}
    /\ MaxDupCap \in Nat
    /\ MaxDupOrigin <= MaxDupCap

SendWindowType ==
    [send_base : UInt32, capacity : UInt32, size : UInt32,
     pkts_to_ack : Seq(Segment), duplicated_acks : 0 .. MaxDupCap]

NewSendWindow(base, cap) ==
    [send_base |-> base, capacity |-> cap, size |-> 0,
     pkts_to_ack |-> <<>>, duplicated_acks |-> 0]

FreeSpace(w) == IF w.capacity > w.size THEN w.capacity - w.size ELSE 0

NextSeqNumberToSend(w) == U32(w.send_base + w.size)

NumPacketsToAck(w) == Len(w.pkts_to_ack)

LastToAck(w) == w.pkts_to_ack[Len(w.pkts_to_ack)]

-----------------------------------------------------------------------------
\* SendPacket.  A new segment is refused when it does not fit or does not
\* start where the last one ended.
SendPacketRefused(w, p) ==
    \/ FreeSpace(w) < p.len /\ w.capacity > 0
    \/ w.pkts_to_ack = <<>> /\ p.seq # w.send_base
    \/ w.pkts_to_ack # <<>> /\ p.seq # End(LastToAck(w))

SendPacketSane(w, p) ==
    \/ FreeSpace(w) < p.len /\ w.capacity > 0
    \/ w.pkts_to_ack = <<>>
    \/ End(LastToAck(w)) = NextSeqNumberToSend(w)

WithPacket(w, p) ==
    [w EXCEPT !.pkts_to_ack = Append(@, p), !.size = U32(@ + p.len)]

SendPacket(w, p) ==
    [sane   |-> SendPacketSane(w, p),
     ok     |-> ~SendPacketRefused(w, p),
     window |-> IF SendPacketRefused(w, p) THEN w ELSE WithPacket(w, p)]

-----------------------------------------------------------------------------
\* NewAckedPacket.  An acknowledgement below send_base_ counts as one that
\* went past the wrap-around when it does not exceed the window's end.
AckOverflow(w, ack) ==
    ack < w.send_base /\ ack <= U32(w.send_base + w.capacity)

AckAdvances(w, ack) == w.send_base < ack \/ AckOverflow(w, ack)

\* The test of the loop that pops the front of the queue.
IsAcked(w, p, ack) ==
    p.seq < ack \/ (AckOverflow(w, ack) /\ p.seq >= w.send_base)

\* How many segments the loop pops: the ones before the first it keeps.
NumAcked(w, ack) ==
    Min({i \in 1 .. Len(w.pkts_to_ack) + 1 :
            i <= Len(w.pkts_to_ack) => ~IsAcked(w, w.pkts_to_ack[i], ack)}) - 1

\* Mutant: the last segment the loop pops is not subtracted.
AckedBytesShort(w, k) ==
    IF k <= 1 THEN 0 ELSE U32(End(w.pkts_to_ack[k - 1]) - w.pkts_to_ack[1].seq)

\* The payload sizes the loop subtracts from size_ one by one.  SendPacket
\* only appends a segment that starts where the last one ended, so that
\* their sum is the distance between the two ends.
AckedBytes(w, k) ==
    IF k = 0 THEN 0 ELSE U32(End(w.pkts_to_ack[k]) - w.pkts_to_ack[1].seq)

\* crt_seq_num and crt_pkt_length keep the last segment the loop looked at,
\* and are zero when the queue was empty.
ExpectedNextAck(w, k) ==
    IF k < Len(w.pkts_to_ack) THEN w.pkts_to_ack[k + 1].seq
    ELSE IF w.pkts_to_ack = <<>> THEN 0
    ELSE End(LastToAck(w))

AckSane(w, ack) ==
    LET k == NumAcked(w, ack)
    IN  /\ \A i \in 1 .. k : \/ End(w.pkts_to_ack[i]) <= ack
                             \/ AckOverflow(w, ack)
        /\ ack = ExpectedNextAck(w, k)

Acked(w, ack) ==
    LET k == NumAcked(w, ack)
    IN  [w EXCEPT !.send_base = ack,
                  !.size = U32(@ - AckedBytes(w, k)),
                  !.pkts_to_ack = SubSeq(@, k + 1, Len(@)),
                  !.duplicated_acks = 0]

\* Mutant: the threshold shrinks.
ShrinkMaxDup(max) == max \div 2

\* max_duplicated_acks *= 1.5, rounded down by the conversion to uint32.
GrowMaxDup(max) == Min({(max * 3) \div 2, MaxDupCap})

NewAckedPacket(w, max, ack) ==
    LET fast == w.duplicated_acks + 1 >= max
        dup  == [w EXCEPT !.duplicated_acks = IF fast THEN 0 ELSE @ + 1]
    IN  IF AckAdvances(w, ack)
        THEN [sane |-> AckSane(w, ack), window |-> Acked(w, ack),
              max |-> MaxDupOrigin, re_transmit |-> FALSE]
        ELSE IF ack = w.send_base
        THEN [sane |-> TRUE, window |-> dup,
              max |-> IF fast THEN GrowMaxDup(max) ELSE max, re_transmit |-> fast]
        ELSE [sane |-> TRUE, window |-> w, max |-> max, re_transmit |-> FALSE]

\* Mutant: the newest segment is sent again.
LastPacketToReSend(w) ==
    IF w.pkts_to_ack = <<>> THEN <<>> ELSE <<LastToAck(w)>>

\* GetBasePakcketToReSend and SendPacket of its result: nothing is sent when
\* the queue is empty.
BasePacketToReSend(w) ==
    IF w.pkts_to_ack = <<>> THEN <<>> ELSE <<w.pkts_to_ack[1]>>
=============================================================================
