-------------------------- MODULE NetworkTheorems ---------------------------
(***************************************************************************)
(* Segments on the network, and the steps that leave both windows alone.   *)
(***************************************************************************)
EXTENDS ChainTheorems

IInv == TypeInv /\ TransferInv

-----------------------------------------------------------------------------
(* Segments on the network. *)

\* What is appended to the network is a segment of the window, a probe, or a
\* segment that was acknowledged.
LEMMA GenuineAppend ==
  ASSUME NEW w, NEW net \in Seq(Segment), NEW p \in Segment, Genuine(w, net),
         p.len = 0 \/ InWindow(w, p) \/ p.seq + p.len <= w.send_base
  PROVE  Genuine(w, Append(net, p))
<1> DEFINE n == Len(net)
           a == Append(net, p)
<1>1. n \in Nat /\ Len(a) = n + 1 /\ a[n + 1] = p /\ \A i \in 1 .. n : a[i] = net[i]
  BY LenProperties, AppendProperties
<1> HIDE DEF a
<1> SUFFICES ASSUME NEW i \in 1 .. n + 1
             PROVE  a[i].len = 0 \/ InWindow(w, a[i]) \/ a[i].seq + a[i].len <= w.send_base
  BY <1>1 DEF Genuine, a
<1>2. CASE i = n + 1
  BY <1>1, <1>2
<1>3. CASE i \in 1 .. n
  <2>1. a[i] = net[i]
    BY <1>1, <1>3
  <2> QED BY <1>3, <2>1 DEF Genuine
<1> QED BY <1>1, <1>2, <1>3

\* Taking a segment from the network, delivered or lost.
LEMMA NetTail ==
  ASSUME NEW net \in Seq(Segment), net # <<>>
  PROVE  /\ Tail(net) \in Seq(Segment)
         /\ Len(net) \in Nat /\ Len(net) > 0
         /\ Len(Tail(net)) = Len(net) - 1
         /\ Head(net) = net[1] /\ Head(net) \in Segment
         /\ \A i \in 1 .. Len(net) - 1 : Tail(net)[i] = net[i + 1] /\ i + 1 \in 1 .. Len(net)
<1>1. /\ Tail(net) \in Seq(Segment) /\ Len(Tail(net)) = Len(net) - 1
      /\ \A i \in 1 .. Len(Tail(net)) : Tail(net)[i] = net[i + 1]
      /\ Head(net) \in Segment
  BY HeadTailProperties
<1>2. Len(net) \in Nat /\ Len(net) > 0
  BY EmptySeq
<1>3. Head(net) = net[1]
  OBVIOUS
<1> QED BY <1>1, <1>2, <1>3

\* Taking a segment off the network keeps the others genuine.
LEMMA GenuineTail ==
  ASSUME NEW w, NEW net \in Seq(Segment), net # <<>>, Genuine(w, net)
  PROVE  Genuine(w, Tail(net))
<1> DEFINE n == Len(net)
           t == Tail(net)
<1>1. n \in Nat /\ Len(t) = n - 1 /\ \A i \in 1 .. n - 1 : t[i] = net[i + 1] /\ i + 1 \in 1 .. n
  BY NetTail
<1> HIDE DEF t
<1> SUFFICES ASSUME NEW i \in 1 .. n - 1
             PROVE  t[i].len = 0 \/ InWindow(w, t[i]) \/ t[i].seq + t[i].len <= w.send_base
  BY <1>1 DEF Genuine, t
<1>2. t[i] = net[i + 1] /\ i + 1 \in 1 .. n
  BY <1>1
<1> QED BY <1>2 DEF Genuine

\* The window moves on: what it still holds or has had acknowledged.
LEMMA GenuineMoves ==
  ASSUME NEW w, NEW v, NEW net \in Seq(Segment), Genuine(w, net),
         w.send_base \in Nat, v.send_base \in Nat, w.send_base <= v.send_base,
         \A s : InWindow(w, s) => InWindow(v, s) \/ s.seq + s.len <= v.send_base
  PROVE  Genuine(v, net)
<1> SUFFICES ASSUME NEW i \in 1 .. Len(net)
             PROVE  \/ net[i].len = 0 \/ InWindow(v, net[i])
                    \/ net[i].seq + net[i].len <= v.send_base
  BY DEF Genuine
<1>1. net[i].seq \in Nat /\ net[i].len \in Nat
  BY ElementOfSeq, SegmentFields
<1>2. net[i].len = 0 \/ InWindow(w, net[i]) \/ net[i].seq + net[i].len <= w.send_base
  BY DEF Genuine
<1> QED BY <1>1, <1>2

\* A segment that is not ahead, or that is not on its way yet, may be sent.
LEMMA SentOnceAppend ==
  ASSUME NEW rw \in RecvWindowType, NEW net \in Seq(Segment), NEW p \in Segment,
         SentOnce(rw, net),
         ~Ahead(rw.recv_base, p) \/
            ( /\ \A j \in 1 .. Len(net) : net[j].len > 0 => net[j].seq # p.seq
              /\ \A j \in 1 .. Len(rw.list) : rw.list[j].seq # p.seq )
  PROVE  SentOnce(rw, Append(net, p))
<1> DEFINE n == Len(net)
           a == Append(net, p)
           base == rw.recv_base
<1>1. n \in Nat /\ Len(a) = n + 1 /\ a[n + 1] = p /\ \A i \in 1 .. n : a[i] = net[i]
  BY LenProperties, AppendProperties
<1>2. /\ base \in Nat /\ p.seq \in Nat /\ p.len \in Nat
      /\ \A i \in 1 .. n : net[i].seq \in Nat /\ net[i].len \in Nat
  BY RecvWindowFields, SegmentFields, ElementOfSeq
<1> HIDE DEF a
<1> SUFFICES ASSUME NEW i \in 1 .. n + 1, Ahead(base, a[i])
             PROVE  /\ \A j \in 1 .. n + 1 :
                          i # j /\ a[j].len > 0 => a[i].seq # a[j].seq
                    /\ \A j \in 1 .. Len(rw.list) : a[i].seq # rw.list[j].seq
  BY <1>1 DEF SentOnce, a
<1>3. CASE i = n + 1
  <2>1. a[i] = p /\ Ahead(base, p)
    BY <1>1, <1>3
  <2>2. \A j \in 1 .. n + 1 : i # j => j \in 1 .. n /\ a[j] = net[j]
    BY <1>1, <1>3
  <2> QED BY <2>1, <2>2
<1>4. CASE i \in 1 .. n
  <2>1. a[i] = net[i] /\ Ahead(base, net[i]) /\ base < net[i].seq
    BY <1>1, <1>4 DEF Ahead
  <2>2. \A j \in 1 .. Len(rw.list) : net[i].seq # rw.list[j].seq
    BY <1>4, <2>1 DEF SentOnce
  <2>3. ASSUME NEW j \in 1 .. n + 1, i # j, a[j].len > 0 PROVE a[i].seq # a[j].seq
    <3>1. CASE j = n + 1
      <4>1. a[j] = p
        BY <1>1, <3>1
      <4>2. CASE Ahead(base, p)
        BY <1>2, <1>4, <2>1, <4>1, <4>2 DEF Ahead
      <4>3. CASE ~Ahead(base, p)
        BY <1>2, <1>4, <2>1, <2>3, <4>1, <4>3 DEF Ahead
      <4> QED BY <4>2, <4>3
    <3>2. CASE j \in 1 .. n
      <4>1. a[j] = net[j]
        BY <1>1, <3>2
      <4> QED BY <1>4, <2>1, <2>3, <3>2, <4>1 DEF SentOnce
    <3> QED BY <1>1, <3>1, <3>2
  <2> QED BY <2>1, <2>2, <2>3
<1> QED BY <1>1, <1>3, <1>4

\* Taking a segment off the network keeps the others the only ones of their
\* number.
LEMMA SentOnceTail ==
  ASSUME NEW rw, NEW net \in Seq(Segment), net # <<>>, SentOnce(rw, net)
  PROVE  SentOnce(rw, Tail(net))
<1> DEFINE n == Len(net)
           t == Tail(net)
<1>1. n \in Nat /\ Len(t) = n - 1 /\ \A i \in 1 .. n - 1 : t[i] = net[i + 1] /\ i + 1 \in 1 .. n
  BY NetTail
<1> HIDE DEF t
<1> SUFFICES ASSUME NEW i \in 1 .. n - 1, Ahead(rw.recv_base, t[i])
             PROVE  /\ \A j \in 1 .. n - 1 :
                          i # j /\ t[j].len > 0 => t[i].seq # t[j].seq
                    /\ \A j \in 1 .. Len(rw.list) : t[i].seq # rw.list[j].seq
  BY <1>1 DEF SentOnce, t
<1>2. t[i] = net[i + 1] /\ i + 1 \in 1 .. n
  BY <1>1
<1>3. \A j \in 1 .. Len(rw.list) : t[i].seq # rw.list[j].seq
  BY <1>2 DEF SentOnce
<1>4. ASSUME NEW j \in 1 .. n - 1, i # j, t[j].len > 0 PROVE t[i].seq # t[j].seq
  <2>1. t[j] = net[j + 1] /\ j + 1 \in 1 .. n /\ i + 1 # j + 1
    BY <1>1, <1>4
  <2> QED BY <1>2, <1>4, <2>1 DEF SentOnce
<1> QED BY <1>3, <1>4

\* The same two facts for the segment that is not sent yet.
LEMMA NotSentAppend ==
  ASSUME NEW rw \in RecvWindowType, NEW net \in Seq(Segment), NEW p \in Segment, NEW seq,
         NotSent(rw, net, seq), ~Ahead(rw.recv_base, p) \/ p.seq # seq
  PROVE  NotSent(rw, Append(net, p), seq)
<1> DEFINE n == Len(net)
           a == Append(net, p)
<1>1. n \in Nat /\ Len(a) = n + 1 /\ a[n + 1] = p /\ \A i \in 1 .. n : a[i] = net[i]
  BY LenProperties, AppendProperties
<1> HIDE DEF a
<1>2. ASSUME NEW i \in 1 .. n + 1, Ahead(rw.recv_base, a[i]) PROVE a[i].seq # seq
  <2>1. CASE i = n + 1
    BY <1>1, <1>2, <2>1
  <2>2. CASE i \in 1 .. n
    <3>1. a[i] = net[i]
      BY <1>1, <2>2
    <3> QED BY <1>2, <2>2, <3>1 DEF NotSent
  <2> QED BY <1>1, <2>1, <2>2
<1> QED BY <1>1, <1>2 DEF NotSent, a

\* A number that is not on the network does not appear when a segment leaves it.
LEMMA NotSentTail ==
  ASSUME NEW rw, NEW net \in Seq(Segment), net # <<>>, NEW seq, NotSent(rw, net, seq)
  PROVE  NotSent(rw, Tail(net), seq)
<1> DEFINE n == Len(net)
           t == Tail(net)
<1>1. n \in Nat /\ Len(t) = n - 1 /\ \A i \in 1 .. n - 1 : t[i] = net[i + 1] /\ i + 1 \in 1 .. n
  BY NetTail
<1> HIDE DEF t
<1>2. ASSUME NEW i \in 1 .. n - 1, Ahead(rw.recv_base, t[i]) PROVE t[i].seq # seq
  <2>1. t[i] = net[i + 1] /\ i + 1 \in 1 .. n
    BY <1>1
  <2> QED BY <1>2, <2>1 DEF NotSent
<1> QED BY <1>1, <1>2 DEF NotSent, t

\* What is stored stays in the send window until recv_base_ is acknowledged.
LEMMA StoredMoves ==
  ASSUME NEW w \in SendWindowType, WindowChain(w), NextSum(w) < Mod,
         NEW v, NEW rw \in RecvWindowType, StoredIn(w, rw),
         v.send_base \in Nat, v.send_base <= rw.recv_base,
         \A s : InWindow(w, s) => InWindow(v, s) \/ s.seq + s.len <= v.send_base
  PROVE  StoredIn(v, rw)
<1> SUFFICES ASSUME NEW i \in 1 .. Len(rw.list) PROVE InWindow(v, rw.list[i])
  BY DEF StoredIn
<1>1. InWindow(w, rw.list[i]) /\ rw.recv_base < rw.list[i].seq
  BY DEF StoredIn
<1>2. /\ rw.list[i].seq \in Nat /\ rw.list[i].len \in Nat /\ rw.list[i].len > 0
      /\ rw.recv_base \in Nat
  BY <1>1, InWindowBounds, RecvWindowFields
<1>3. ~(rw.list[i].seq + rw.list[i].len <= v.send_base)
  <2>1. PICK x \in Nat, y \in Nat, a \in Nat, b \in Nat :
           x = rw.list[i].seq /\ y = rw.list[i].len /\ a = v.send_base /\ b = rw.recv_base
    BY <1>2
  <2>2. y > 0 /\ b < x /\ a <= b
    BY <1>1, <1>2, <2>1
  <2>3. ~(x + y <= a)
    BY <2>2
  <2> QED BY <2>1, <2>3
<1> QED BY <1>1, <1>3

-----------------------------------------------------------------------------
(* The invariant and what it gives. *)

\* The types of the state, the next sequence number below the modulus, and the
\* conjuncts of the invariant.
LEMMA InvFacts ==
  ASSUME IInv
  PROVE  /\ send_window \in SendWindowType /\ recv_window \in RecvWindowType
         /\ send_window.send_base \in Nat /\ send_window.size \in Nat
         /\ recv_window.recv_base \in Nat /\ recv_window.recv_base \in UInt32
         /\ data_net \in Seq(Segment) /\ ack_net \in Seq(Ack)
         /\ send_buffer \in Seq(Nat) /\ Len(send_buffer) \in Nat
         /\ written \in Nat /\ writing \in Nat /\ size_to_send \in Nat
         /\ fin_seq \in UInt32 /\ fin_seq \in Nat
         /\ NextSum(send_window) \in Nat /\ NextSum(send_window) < Mod
         /\ NextSeqNumberToSend(send_window) = NextSum(send_window)
         /\ Isn \in Nat /\ MaxBytes \in Nat /\ Mod \in Nat
<1>1. /\ send_window \in SendWindowType /\ recv_window \in RecvWindowType
      /\ data_net \in Seq(Segment) /\ ack_net \in Seq(Ack) /\ send_buffer \in Seq(Nat)
      /\ written \in Nat /\ writing \in Nat /\ size_to_send \in Nat /\ fin_seq \in UInt32
  BY DEF IInv, TypeInv, TypeOK
<1>2. /\ Len(send_buffer) \in Nat /\ fin_seq \in Nat
      /\ send_window.send_base \in Nat /\ send_window.size \in Nat
      /\ recv_window.recv_base \in Nat /\ recv_window.recv_base \in UInt32
  BY <1>1, LenProperties, UInt32Nat, SendWindowFields, RecvWindowFields
<1>3. Isn \in Nat /\ MaxBytes \in Nat /\ Mod \in Nat
  BY TransferAssumption, ModAssumption, UInt32Nat
<1>4. NextSum(send_window) \in Nat
  BY <1>2 DEF NextSum
<1>5. /\ written + writing <= MaxBytes /\ Len(send_buffer) <= written
      /\ NextSum(send_window) <= Isn + written - Len(send_buffer) + 1
  BY <1>1, <1>2, <1>3, <1>4 DEF IInv, TransferInv, Accounting
<1>6. NextSum(send_window) < Mod
  BY <1>1, <1>2, <1>3, <1>4, <1>5, NoWrap
<1>7. NextSeqNumberToSend(send_window) = NextSum(send_window)
  BY <1>1, <1>6, PlainNext
<1> QED BY <1>1, <1>2, <1>3, <1>4, <1>6, <1>7

\* The connection starts with the invariant.
LEMMA InitTransferInv == Init => TransferInv
<1> SUFFICES ASSUME Init PROVE TransferInv
  OBVIOUS
<1>1. Isn \in Nat /\ Isn \in UInt32 /\ MaxBytes \in Nat
  BY TransferAssumption, UInt32Nat
<1>2. /\ send_window.send_base = Isn /\ send_window.size = 0
      /\ send_window.pkts_to_ack = <<>> /\ Len(send_window.pkts_to_ack) = 0
      /\ recv_window.recv_base = Isn /\ recv_window.list = <<>> /\ Len(recv_window.list) = 0
      /\ Len(data_net) = 0 /\ Len(ack_net) = 0 /\ Len(send_buffer) = 0
  BY EmptySeq DEF Init, NewSendWindow, NewRecvWindow
<1>3. NextSum(send_window) = Isn
  BY <1>1, <1>2 DEF NextSum
<1>4. NextSeqNumberToSend(send_window) = Isn
  BY <1>1, <1>2, U32Identity DEF NextSeqNumberToSend
<1>5. Accounting
  BY <1>1, <1>2, <1>3 DEF Init, Accounting, FinRegistered
<1>6. WindowChain(send_window)
  BY <1>2 DEF WindowChain
<1>7. AckChain
  BY <1>1, <1>2, <1>4 DEF AckChain
<1>8. Boundaries
  BY <1>2, <1>3 DEF Boundaries, Boundary
<1>9. Genuine(send_window, data_net) /\ StoredIn(send_window, recv_window)
      /\ SentOnce(recv_window, data_net)
  BY <1>2 DEF Genuine, StoredIn, SentOnce
<1>10. FinSegment
  BY DEF Init, FinSegment, FinRegistered
<1> QED BY <1>5, <1>6, <1>7, <1>8, <1>9, <1>10 DEF TransferInv, NoAbort, Init

\* The variables the invariant speaks of.
protocolVars == <<written, writing, send_buffer, send_window, sender, size_to_send, fin,
                  fin_seq, recv_window, data_net, ack_net, aborted>>

\* Nothing else matters to it: streaming to the receive buffer, reading, the
\* state's critical section and other connections cannot break it.
LEMMA FrameInv == TransferInv /\ UNCHANGED protocolVars => TransferInv'
  BY DEF protocolVars, TransferInv, NoAbort, Accounting, FinRegistered, AckChain, Boundaries,
         FinSegment

\* These are the steps that FrameInv is about.
LEMMA IndifferentInv ==
  ASSUME TransferInv,
         \/ OtherSendWindow \/ HandleACKState \/ StreamOverflowed \/ StreamDataPacket
         \/ StreamEnd \/ ReceiveBufferListener \/ Reader
  PROVE  TransferInv'
<1>1. UNCHANGED protocolVars
  BY Zenon DEF OtherSendWindow, HandleACKState, StreamOverflowed, StreamDataPacket, StreamEnd,
         ReceiveBufferListener, Reader, ReadData, ReadEOF, protocolVars, sendVars, winVars,
         ctlVars, recvVars, netVars
<1> QED BY <1>1, FrameInv

\* The part of the invariant that only concerns the windows and the network.
SegmentInv ==
    /\ NoAbort
    /\ WindowChain(send_window)
    /\ AckChain
    /\ Boundaries
    /\ Genuine(send_window, data_net)
    /\ StoredIn(send_window, recv_window)
    /\ SentOnce(recv_window, data_net)

\* It depends on the two windows, the network and the abort flag only.
LEMMA SegmentFrame ==
  SegmentInv /\ UNCHANGED <<send_window, recv_window, data_net, ack_net, aborted>>
    => SegmentInv'
  BY DEF SegmentInv, NoAbort, AckChain, Boundaries

\* The invariant is that part, the accounting of bytes, and the FIN.
LEMMA InvParts == TransferInv <=> SegmentInv /\ Accounting /\ FinSegment
  BY DEF TransferInv, SegmentInv

\* The same for the state after a step.
LEMMA InvPartsPrime == TransferInv' <=> SegmentInv' /\ Accounting' /\ FinSegment'
  BY DEF TransferInv, SegmentInv

\* Writing and shutting down: the send buffer grows by what was written, and
\* after ShutDown a single application thread no longer writes.
LEMMA ApplicationInv == IInv /\ Application => TransferInv'
<1> SUFFICES ASSUME IInv, Application PROVE TransferInv'
  OBVIOUS
<1>1. SegmentInv /\ Accounting /\ FinSegment
  BY InvParts DEF IInv
<1>2. /\ written \in Nat /\ writing \in Nat /\ send_buffer \in Seq(Nat)
      /\ Len(send_buffer) \in Nat /\ Isn \in Nat /\ MaxBytes \in Nat
  BY InvFacts
<1>3. SegmentInv'
  BY <1>1, SegmentFrame DEF Application, StartWrite, WriteData, ShutDown, sendVars, winVars,
         recvVars, netVars
<1>4. ASSUME NEW n \in WriteSizes, StartWrite(n) PROVE TransferInv'
  <2>1. /\ n \in Nat /\ writing = 0 /\ writing' = n /\ written + n <= MaxBytes /\ fin = "none"
        /\ UNCHANGED <<written, send_buffer, sender, size_to_send, send_window, fin,
                       fin_seq, recv_window, data_net>>
    BY <1>4, TransferAssumption DEF StartWrite, winVars, ctlVars, recvVars, netVars
  <2>2. Accounting'
    BY <1>1, <1>2, <2>1 DEF Accounting, FinRegistered
  <2>3. FinSegment'
    BY <2>1 DEF FinSegment, FinRegistered
  <2> QED BY <1>3, <2>2, <2>3, InvPartsPrime
<1>5. CASE WriteData
  <2> DEFINE n == Min({writing, SendBufferSize - Len(send_buffer)})
             new == [i \in 1 .. n |-> written + i]
  <2>1. /\ writing > 0 /\ sender # "send" /\ Len(send_buffer) < SendBufferSize
        /\ send_buffer' = send_buffer \o new
        /\ written' = written + n /\ writing' = 0
        /\ UNCHANGED <<sender, size_to_send, send_window, fin, fin_seq, recv_window, data_net>>
    BY <1>5 DEF WriteData, SendBufferLocked, winVars, ctlVars, recvVars, netVars
  <2>2. n \in Nat /\ n <= writing
    <3>1. SendBufferSize - Len(send_buffer) \in Nat
      BY <1>2, <2>1, TransferAssumption
    <3> QED BY <1>2, <3>1, MinOfTwo
  <2> HIDE DEF n
  <2>3. new \in Seq(Nat) /\ Len(new) = n
    BY <1>2, <2>2
  <2> HIDE DEF new
  <2>4. Len(send_buffer') = Len(send_buffer) + n
    BY Zenon, <1>2, <2>1, <2>3, ConcatProperties
  <2>5. Accounting'
    <3>1. /\ written + writing <= MaxBytes /\ Len(send_buffer) <= written
          /\ NextSum(send_window) = Isn + written - Len(send_buffer)
                                        + (IF FinRegistered THEN 1 ELSE 0)
      BY <1>1 DEF Accounting
    <3>2. /\ written' + writing' <= MaxBytes /\ Len(send_buffer') <= written'
          /\ Isn + written' - Len(send_buffer') = Isn + written - Len(send_buffer)
      BY <1>2, <2>1, <2>2, <2>4, <3>1
    <3>3. /\ NextSum(send_window') = NextSum(send_window)
          /\ FinRegistered' = FinRegistered
      BY <2>1 DEF FinRegistered
    <3> QED BY <2>1, <3>1, <3>2, <3>3 DEF Accounting
  <2>6. FinSegment'
    <3>1. OneAppThread => fin = "none"
      BY <1>1, <1>2, <2>1 DEF FinSegment
    <3> QED BY <1>1, <2>1, <3>1 DEF FinSegment, FinRegistered
  <2> QED BY <1>3, <2>5, <2>6, InvPartsPrime
<1>6. CASE ShutDown
  <2>1. /\ fin = "none" /\ fin' = "wait" /\ (OneAppThread => writing = 0)
        /\ UNCHANGED <<written, writing, send_buffer, sender, size_to_send, send_window,
                       fin_seq, recv_window, data_net>>
    BY <1>6 DEF ShutDown, sendVars, winVars, recvVars, netVars
  <2>2. Accounting'
    BY <1>1, <2>1 DEF Accounting, FinRegistered
  <2>3. FinSegment'
    BY <2>1 DEF FinSegment, FinRegistered
  <2> QED BY <1>3, <2>2, <2>3, InvPartsPrime
<1> QED BY <1>4, <1>5, <1>6 DEF Application

\* SendBufferListener outside its sending loop.
LEMMA WaitingInv ==
  ASSUME IInv, WaitForWindow \/ NoRoomAnyMore \/ StartBatch
  PROVE  TransferInv'
<1>1. SegmentInv /\ Accounting /\ FinSegment
  BY InvParts DEF IInv
<1>2. /\ UNCHANGED <<written, writing, send_buffer, send_window, fin, fin_seq, recv_window,
                     data_net, ack_net, aborted>>
      /\ sender' = "send" => StartBatch
  BY DEF WaitForWindow, NoRoomAnyMore, StartBatch, sendVars, winVars, ctlVars, recvVars, netVars
<1>3. SegmentInv'
  BY <1>1, <1>2, SegmentFrame
<1>4. FinSegment'
  BY <1>1, <1>2 DEF FinSegment, FinRegistered
<1>5. sender' = "send" => /\ size_to_send' \in 1 .. Len(send_buffer)
                          /\ size_to_send' <= FreeSpace(send_window)
  <2> SUFFICES ASSUME StartBatch
               PROVE  /\ size_to_send' \in 1 .. Len(send_buffer)
                      /\ size_to_send' <= FreeSpace(send_window)
    BY <1>2
  <2>1. FreeSpace(send_window) \in Nat /\ Len(send_buffer) \in Nat /\ send_buffer \in Seq(Nat)
    BY InvFacts, SendWindowFields
  <2>2. /\ FreeSpace(send_window) > 0 /\ send_buffer # <<>>
        /\ size_to_send' = Min({FreeSpace(send_window), Len(send_buffer)})
    BY DEF StartBatch
  <2>3. Len(send_buffer) > 0
    BY <2>1, <2>2, EmptySeq
  <2> QED BY <2>1, <2>2, <2>3, MinOfTwo
<1>6. Accounting'
  BY <1>1, <1>2, <1>5 DEF Accounting, FinRegistered
<1> QED BY <1>3, <1>4, <1>6, InvPartsPrime
=============================================================================
