----------------------------- MODULE RecvWindow -----------------------------
(***************************************************************************)
(* The reordering window of a receiver (RecvWindow.cc).                    *)
(*                                                                         *)
(* The doubly linked list behind the dummy head is the sequence "list".    *)
(* ReceivePacket returns the new window, the in-order segments to deliver  *)
(* and whether every SANITY_CHECK on the way held.  All the comparisons    *)
(* are the code's plain uint32 comparisons.                                *)
(***************************************************************************)
EXTENDS Packet, FiniteSetsExt

RecvWindowType == [recv_base : UInt32, list : Seq(Segment)]

NewRecvWindow(base) == [recv_base |-> base, list |-> <<>>]

\* Where the first loop stops: in front of the first node that does not start
\* before the new segment, or at the end.
InsertPos(list, p) ==
    Min({i \in 1 .. Len(list) + 1 : i <= Len(list) => p.seq <= list[i].seq})

InsertSane(list, p) ==
    LET pos == InsertPos(list, p)
    IN  /\ \A i \in 1 .. pos - 1 : p.seq >= End(list[i])
        /\ pos <= Len(list) => End(p) <= list[pos].seq

Inserted(list, p) ==
    LET pos == InsertPos(list, p)
    IN  SubSeq(list, 1, pos - 1) \o <<p>> \o SubSeq(list, pos, Len(list))

\* Mutant: everything behind the new segment is delivered, gaps or not.
RunEndPastGap(list, first) == Len(list)

\* Where the second loop stops: the last node of the run of adjacent segments
\* that starts at position first.
RunEnd(list, first) ==
    Min({i \in first .. Len(list) :
            i < Len(list) => End(list[i]) # list[i + 1].seq})

\* Mutant: the last byte acknowledged is taken for new.
AlreadyAckedButLast(w, p) == U32(p.seq + 1) < w.recv_base

\* Behind recv_base_: to be acknowledged again.  The comparison is plain.
AlreadyAcked(w, p) == p.seq < w.recv_base

ReceivePacket(w, p) ==
    LET pos  == InsertPos(w.list, p)
        ins  == Inserted(w.list, p)
        last == RunEnd(ins, pos)
    IN  IF AlreadyAcked(w, p)
        THEN [sane |-> TRUE, window |-> w, nodes |-> <<>>]
        ELSE IF p.seq = w.recv_base
        THEN [sane   |-> InsertSane(w.list, p) /\ pos = 1,
              window |-> [recv_base |-> End(ins[last]),
                          list      |-> SubSeq(ins, last + 1, Len(ins))],
              nodes  |-> SubSeq(ins, pos, last)]
        ELSE [sane   |-> InsertSane(w.list, p),
              window |-> [w EXCEPT !.list = ins],
              nodes  |-> <<>>]
=============================================================================
