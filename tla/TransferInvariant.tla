------------------------- MODULE TransferInvariant --------------------------
(***************************************************************************)
(* Why no sanity check of the two windows fires and why the sequence       *)
(* numbers stay in order: an inductive invariant of TcpTransfer.           *)
(*                                                                         *)
(* The windows compare uint32 sequence numbers with plain <, which orders  *)
(* them only as long as the connection does not pass the wrap-around.      *)
(* NoWrap says so; a run with a small modulus shows what happens without.  *)
(***************************************************************************)
EXTENDS TcpTransfer

ASSUME NoWrap == Isn + MaxBytes + 1 < Mod

\* Where the next segment starts, without the reduction to a uint32.
NextSum(w) == w.send_base + w.size

FinRegistered == fin \in {"registered", "set", "sent", "done"}

\* The sequence numbers used so far are one for each byte that left the send
\* buffer, and one for the FIN.
Accounting ==
    /\ written + writing <= MaxBytes
    /\ Len(send_buffer) <= written
    /\ NextSum(send_window) = Isn + written - Len(send_buffer)
                                  + (IF FinRegistered THEN 1 ELSE 0)
    /\ sender = "send" => /\ size_to_send \in 1 .. Len(send_buffer)
                          /\ size_to_send <= FreeSpace(send_window)

\* The queue of a send window is a chain of nonempty segments that covers the
\* sequence numbers from send_base_ to the next one to send.
WindowChain(w) ==
    LET q == w.pkts_to_ack
    IN  /\ \A i \in 1 .. Len(q) : /\ q[i].len > 0
                                  /\ w.send_base <= q[i].seq
                                  /\ q[i].seq + q[i].len <= NextSum(w)
        /\ \A i, j \in 1 .. Len(q) : i < j => q[i].seq + q[i].len <= q[j].seq
        /\ \A i \in 1 .. Len(q) - 1 : q[i].seq + q[i].len = q[i + 1].seq
        /\ q = <<>> => w.size = 0
        /\ q # <<>> => /\ q[1].seq = w.send_base
                       /\ q[Len(q)].seq + q[Len(q)].len = NextSum(w)

\* A number at which a segment of the window starts, or the next one will.
Boundary(w, n) ==
    \/ n = NextSum(w)
    \/ \E i \in 1 .. Len(w.pkts_to_ack) : n = w.pkts_to_ack[i].seq

InWindow(w, p) == \E i \in 1 .. Len(w.pkts_to_ack) : p = w.pkts_to_ack[i]

\* What the receiver has acknowledged, or is about to, are boundaries.
Boundaries ==
    /\ Boundary(send_window, recv_window.recv_base)
    /\ \A i \in 1 .. Len(ack_net) : Boundary(send_window, ack_net[i].ack_num)

\* A segment on its way, probes aside, is one of the window or was acknowledged.
Genuine(w, net) ==
    \A i \in 1 .. Len(net) : \/ net[i].len = 0
                             \/ InWindow(w, net[i])
                             \/ net[i].seq + net[i].len <= w.send_base

\* A receive window holds segments of the send window, ahead of recv_base_, in
\* strictly increasing order.
StoredIn(w, rw) ==
    /\ \A i \in 1 .. Len(rw.list) : /\ InWindow(w, rw.list[i])
                                    /\ rw.recv_base < rw.list[i].seq
    /\ \A i, j \in 1 .. Len(rw.list) : i < j => rw.list[i].seq < rw.list[j].seq

Ahead(base, p) == p.len > 0 /\ base < p.seq

\* A segment ahead of the receiver travels once and is not stored yet:
\* retransmissions concern the first segment of the window, which is not ahead.
SentOnce(rw, net) ==
    \A i \in 1 .. Len(net) : Ahead(rw.recv_base, net[i]) =>
        /\ \A j \in 1 .. Len(net) :
               i # j /\ net[j].len > 0 => net[i].seq # net[j].seq
        /\ \A j \in 1 .. Len(rw.list) : net[i].seq # rw.list[j].seq

\* No segment with number seq is ahead of the receiver or stored there.
NotSent(rw, net, seq) ==
    /\ \A i \in 1 .. Len(net) : Ahead(rw.recv_base, net[i]) => net[i].seq # seq
    /\ \A j \in 1 .. Len(rw.list) : rw.list[j].seq # seq

\* The FIN is a segment of the window until it is acknowledged, is sent once, and
\* is the last one when the application does not write and shut down at a time.
FinSegment ==
    /\ FinRegistered => \/ InWindow(send_window, MakeFinPacket(fin_seq))
                        \/ fin_seq + 1 <= send_window.send_base
    /\ fin \in {"registered", "set"} => NotSent(recv_window, data_net, fin_seq)
    /\ OneAppThread =>
           /\ fin # "none" => writing = 0
           /\ FinRegistered => send_buffer = <<>> /\ fin_seq + 1 = NextSum(send_window)

\* The inductive invariant behind NoAbort, AckChain and FinIsLast.
TransferInv ==
    /\ NoAbort
    /\ Accounting
    /\ WindowChain(send_window)
    /\ AckChain
    /\ Boundaries
    /\ Genuine(send_window, data_net)
    /\ StoredIn(send_window, recv_window)
    /\ SentOnce(recv_window, data_net)
    /\ FinSegment
=============================================================================
