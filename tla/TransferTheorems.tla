-------------------------- MODULE TransferTheorems --------------------------
(***************************************************************************)
(* TransferInv is an invariant of TcpTransfer, and with it NoAbort,        *)
(* AckChain and FinIsLast, for every value of the constants that keeps the *)
(* connection below the wrap-around of the sequence numbers.               *)
(***************************************************************************)
EXTENDS SenderTheorems, StoreTheorems, TypeTheorems

-----------------------------------------------------------------------------
(* The receiver and the channel. *)

\* A segment leaves the network without a trace in the windows: a probe, or a
\* segment the channel drops.
LEMMA DropInv ==
  ASSUME IInv, HandleProbe \/ LoseData
  PROVE  TransferInv'
<1>1. SegmentInv /\ Accounting /\ FinSegment
  BY InvParts DEF IInv
<1>2. /\ data_net # <<>> /\ data_net' = Tail(data_net)
      /\ UNCHANGED <<written, writing, send_buffer, send_window, sender, size_to_send, fin,
                     fin_seq, recv_window, ack_net, aborted>>
  BY DEF HandleProbe, LoseData, sendVars, winVars, ctlVars, recvVars
<1>3. /\ Genuine(send_window, data_net') /\ SentOnce(recv_window, data_net')
      /\ \A seq : NotSent(recv_window, data_net, seq) => NotSent(recv_window, data_net', seq)
  BY <1>1, <1>2, InvFacts, GenuineTail, SentOnceTail, NotSentTail DEF SegmentInv
<1>4. SegmentInv'
  BY <1>1, <1>2, <1>3 DEF SegmentInv, NoAbort, AckChain, Boundaries
<1>5. Accounting'
  BY <1>1, <1>2 DEF Accounting, FinRegistered
<1>6. FinSegment'
  BY <1>1, <1>2, <1>3 DEF FinSegment, FinRegistered
<1> QED BY <1>4, <1>5, <1>6, InvPartsPrime

\* Acknowledging recv_base_, and losing an acknowledgement.
LEMMA SendAckInv == IInv /\ SendAck => TransferInv'
<1> SUFFICES ASSUME IInv, SendAck PROVE TransferInv'
  OBVIOUS
<1> DEFINE a == MakeAckPacket(recv_window.recv_base, RecvFreeSpace)
           n == Len(ack_net)
<1>1. SegmentInv /\ Accounting /\ FinSegment /\ AckChain /\ Boundaries
  BY InvParts DEF IInv, SegmentInv
<1>2. /\ ack_net' = Append(ack_net, a)
      /\ UNCHANGED <<written, writing, send_buffer, send_window, sender, size_to_send, fin,
                     fin_seq, recv_window, data_net, aborted>>
  BY DEF SendAck, sendVars, winVars, ctlVars
<1>3. a.ack_num = recv_window.recv_base /\ recv_window.recv_base \in Nat
  BY InvFacts DEF MakeAckPacket
<1>4. /\ n \in Nat /\ Len(ack_net') = n + 1 /\ ack_net'[n + 1] = a
      /\ \A i \in 1 .. n : ack_net'[i] = ack_net[i]
  <2>1. a \in Ack
    <3>1. RecvFreeSpace \in Int
      BY TransferAssumption, UInt32Nat, LenProperties DEF RecvFreeSpace, IInv, TypeInv, TypeOK
    <3> QED BY <3>1, InvFacts, U16Type DEF MakeAckPacket, Ack
  <2> HIDE DEF a
  <2> QED BY <1>2, <2>1, InvFacts, AppendProperties, LenProperties
<1> HIDE DEF a, n
<1>5. \A i \in 1 .. n + 1 :
         \/ i \in 1 .. n /\ ack_net'[i] = ack_net[i]
         \/ i = n + 1 /\ ack_net'[i].ack_num = recv_window.recv_base
  BY <1>3, <1>4
<1>6. /\ \A i \in 1 .. n : /\ send_window.send_base <= ack_net[i].ack_num
                           /\ ack_net[i].ack_num <= recv_window.recv_base
                           /\ Boundary(send_window, ack_net[i].ack_num)
      /\ \A i, j \in 1 .. n : i < j => ack_net[i].ack_num <= ack_net[j].ack_num
      /\ send_window.send_base <= recv_window.recv_base
      /\ recv_window.recv_base <= NextSeqNumberToSend(send_window)
      /\ Boundary(send_window, recv_window.recv_base)
  BY <1>1 DEF AckChain, Boundaries, n
<1>7. \A i \in 1 .. n + 1 : /\ send_window.send_base <= ack_net'[i].ack_num
                            /\ ack_net'[i].ack_num <= recv_window.recv_base
                            /\ Boundary(send_window, ack_net'[i].ack_num)
  <2> TAKE i \in 1 .. n + 1
  <2>1. CASE i \in 1 .. n /\ ack_net'[i] = ack_net[i]
    BY <1>6, <2>1
  <2>2. CASE i = n + 1 /\ ack_net'[i].ack_num = recv_window.recv_base
    BY <1>3, <1>6, <2>2
  <2> QED BY <1>5, <2>1, <2>2
<1>8. \A i, j \in 1 .. n + 1 : i < j => ack_net'[i].ack_num <= ack_net'[j].ack_num
  <2> SUFFICES ASSUME NEW i \in 1 .. n + 1, NEW j \in 1 .. n + 1, i < j
               PROVE  ack_net'[i].ack_num <= ack_net'[j].ack_num
    OBVIOUS
  <2>1. i \in 1 .. n /\ ack_net'[i] = ack_net[i]
    BY <1>4, <1>5
  <2>2. CASE j \in 1 .. n
    BY <1>4, <1>6, <2>1, <2>2
  <2>3. CASE j = n + 1
    BY <1>3, <1>4, <1>6, <2>1, <2>3
  <2> QED BY <1>4, <2>2, <2>3
<1>9. AckChain' /\ Boundaries'
  <2>1. AckChain'
    BY <1>2, <1>4, <1>6, <1>7, <1>8 DEF AckChain
  <2>2. Boundaries'
    BY <1>2, <1>4, <1>6, <1>7 DEF Boundaries
  <2> QED BY <2>1, <2>2
<1>10. SegmentInv'
  BY <1>1, <1>2, <1>9 DEF SegmentInv, NoAbort
<1>11. Accounting' /\ FinSegment'
  BY SMTT(30), <1>1, <1>2 DEF Accounting, FinSegment, FinRegistered
<1> QED BY <1>10, <1>11, InvPartsPrime

\* The channel drops an acknowledgement (BaseChannel::Send).
LEMMA LoseAckInv == IInv /\ LoseAck => TransferInv'
<1> SUFFICES ASSUME IInv, LoseAck PROVE TransferInv'
  OBVIOUS
<1> DEFINE n == Len(ack_net)
<1>1. SegmentInv /\ Accounting /\ FinSegment /\ AckChain /\ Boundaries
  BY InvParts DEF IInv, SegmentInv
<1>2. /\ ack_net # <<>> /\ ack_net' = Tail(ack_net)
      /\ UNCHANGED <<written, writing, send_buffer, send_window, sender, size_to_send, fin,
                     fin_seq, recv_window, data_net, aborted>>
  BY DEF LoseAck, sendVars, winVars, ctlVars, recvVars
<1>3. \A i \in 1 .. Len(ack_net') : i + 1 \in 1 .. n /\ ack_net'[i] = ack_net[i + 1]
  <2>1. ack_net \in Seq(Ack) /\ n \in Nat /\ n > 0
    BY <1>2, InvFacts, EmptySeq
  <2>2. /\ Len(Tail(ack_net)) = n - 1
        /\ \A i \in 1 .. Len(Tail(ack_net)) : Tail(ack_net)[i] = ack_net[i + 1]
    BY <1>2, <2>1, HeadTailProperties
  <2> QED BY <1>2, <2>1, <2>2
<1>4. AckChain'
  <2>1. \A i \in 1 .. Len(ack_net') : /\ send_window.send_base <= ack_net'[i].ack_num
                                      /\ ack_net'[i].ack_num <= recv_window.recv_base
    BY <1>1, <1>3 DEF AckChain
  <2>2. \A i, j \in 1 .. Len(ack_net') : i < j => ack_net'[i].ack_num <= ack_net'[j].ack_num
    <3> SUFFICES ASSUME NEW i \in 1 .. Len(ack_net'), NEW j \in 1 .. Len(ack_net'), i < j
                 PROVE  ack_net'[i].ack_num <= ack_net'[j].ack_num
      OBVIOUS
    <3>1. /\ i + 1 \in 1 .. n /\ j + 1 \in 1 .. n /\ i + 1 < j + 1
          /\ ack_net'[i] = ack_net[i + 1] /\ ack_net'[j] = ack_net[j + 1]
      BY <1>3
    <3> QED BY <1>1, <3>1 DEF AckChain
  <2> QED BY <1>1, <1>2, <2>1, <2>2 DEF AckChain
<1>5. Boundaries'
  <2>1. \A i \in 1 .. Len(ack_net') : Boundary(send_window, ack_net'[i].ack_num)
    BY SMTT(30), <1>1, <1>3 DEF Boundaries
  <2> QED BY <1>1, <1>2, <2>1 DEF Boundaries
<1>6. SegmentInv'
  BY <1>1, <1>2, <1>4, <1>5 DEF SegmentInv, NoAbort
<1>7. Accounting' /\ FinSegment'
  BY <1>1, <1>2 DEF Accounting, FinSegment, FinRegistered
<1> QED BY <1>6, <1>7, InvPartsPrime

\* HandleDataPacket and HandleFIN: a segment below recv_base_ changes nothing; any
\* other one is a segment of the send window that is not stored yet, which the
\* receive window takes with its sanity checks satisfied.
LEMMA HandlePacketInv == IInv /\ HandlePacket => TransferInv'
<1> SUFFICES ASSUME IInv, HandlePacket PROVE TransferInv'
  OBVIOUS
<1> DEFINE w == send_window
           rw == recv_window
           p == Head(data_net)
           r == ReceivePacket(rw, p)
           u == r.window
           n == Len(data_net)
<1>1. /\ w \in SendWindowType /\ rw \in RecvWindowType /\ w.send_base \in Nat
      /\ NextSum(w) < Mod /\ NextSum(w) \in Nat /\ NextSeqNumberToSend(w) = NextSum(w)
      /\ rw.recv_base \in Nat /\ data_net \in Seq(Segment) /\ fin_seq \in Nat
  BY InvFacts
<1>2. /\ SegmentInv /\ Accounting /\ FinSegment /\ WindowChain(w) /\ AckChain /\ Boundaries
      /\ Genuine(w, data_net) /\ StoredIn(w, rw) /\ SentOnce(rw, data_net)
  BY InvParts DEF IInv, SegmentInv
<1>3. recv_window' = u /\ aborted' = ~r.sane
  BY Zenon DEF HandlePacket
<1>4. /\ data_net # <<>> /\ p.len > 0 /\ data_net' = Tail(data_net)
      /\ UNCHANGED <<written, writing, send_buffer, send_window, sender, size_to_send, fin,
                     fin_seq, ack_net>>
  BY DEF HandlePacket, sendVars, winVars, ctlVars
<1>5. /\ n \in Nat /\ n > 0 /\ p = data_net[1] /\ p \in Segment
      /\ Tail(data_net) \in Seq(Segment) /\ Len(Tail(data_net)) = n - 1
      /\ \A i \in 1 .. n - 1 : Tail(data_net)[i] = data_net[i + 1] /\ i + 1 \in 1 .. n
  BY <1>1, <1>4, NetTail
<1>6. p.seq \in Nat /\ p.len \in Nat
  BY <1>5, SegmentFields
<1> DEFINE t == Tail(data_net)
<1> HIDE DEF p, t
<1>7. /\ Genuine(w, t) /\ SentOnce(rw, t)
      /\ \A seq : NotSent(rw, data_net, seq) => NotSent(rw, t, seq)
  BY SMTT(30), <1>1, <1>2, <1>4, GenuineTail, SentOnceTail, NotSentTail DEF t
<1>8. /\ r.sane
      /\ StoredIn(w, u) /\ Boundary(w, u.recv_base)
      /\ rw.recv_base <= u.recv_base /\ u.recv_base <= NextSum(w)
      /\ u.recv_base \in Nat
      /\ SentOnce(u, t)
      /\ \A seq : (fin \in {"registered", "set"} /\ seq = fin_seq /\ NotSent(rw, data_net, seq))
                     => NotSent(u, t, seq)
  <2>0. u.recv_base \in Nat
    BY SMTT(30), <1>1, <1>5, ReceivePacketType, RecvWindowFields
  <2>1. CASE p.seq < rw.recv_base
    <3>1. r.sane /\ u = rw
      BY <2>1 DEF ReceivePacket, AlreadyAcked
    <3> QED BY SMTT(30), <1>1, <1>2, <1>7, <2>0, <3>1 DEF AckChain, Boundaries
  <2>2. CASE ~(p.seq < rw.recv_base)
    <3>1. rw.recv_base <= p.seq /\ w.send_base <= rw.recv_base
      BY SMTT(30), <1>1, <1>2, <1>6, <2>2 DEF AckChain
    <3>2. InWindow(w, p)
      <4>1. 1 \in 1 .. n
        BY <1>5
      <4>2. p.len = 0 \/ InWindow(w, p) \/ p.seq + p.len <= w.send_base
        BY <1>2, <1>5, <4>1 DEF Genuine
      <4>3. ~(p.len = 0) /\ ~(p.seq + p.len <= w.send_base)
        BY <1>1, <1>4, <1>6, <3>1
      <4> QED BY <4>2, <4>3
    <3>3. \A j \in 1 .. Len(rw.list) : rw.list[j].seq # p.seq
      <4> TAKE j \in 1 .. Len(rw.list)
      <4>1. rw.recv_base < rw.list[j].seq /\ rw.list[j].seq \in Nat
        BY <1>1, <1>2, InWindowBounds DEF StoredIn
      <4>2. CASE rw.recv_base = p.seq
        BY <1>1, <1>6, <4>1, <4>2
      <4>3. CASE rw.recv_base < p.seq
        <5>1. 1 \in 1 .. n /\ Ahead(rw.recv_base, data_net[1])
          BY SMTT(30), <1>4, <1>5, <4>3 DEF Ahead
        <5> QED BY <1>2, <1>5, <5>1 DEF SentOnce
      <4> QED BY <1>1, <1>6, <3>1, <4>2, <4>3
    <3>4. /\ r.sane /\ StoredIn(w, u) /\ Boundary(w, u.recv_base)
          /\ rw.recv_base <= u.recv_base /\ u.recv_base <= NextSum(w)
          /\ \A i \in 1 .. Len(u.list) :
                u.list[i] = p \/ \E j \in 1 .. Len(rw.list) : u.list[i] = rw.list[j]
      BY SMTT(30), <1>1, <1>2, <3>1, <3>2, <3>3, ReceiveKeepsOrder DEF Boundaries
    <3> HIDE DEF r
    <3>5. \A i \in 1 .. n - 1 : Ahead(u.recv_base, t[i]) =>
             Ahead(rw.recv_base, t[i]) /\ t[i].seq # p.seq
      <4> SUFFICES ASSUME NEW i \in 1 .. n - 1, Ahead(u.recv_base, t[i])
                   PROVE  Ahead(rw.recv_base, t[i]) /\ t[i].seq # p.seq
        OBVIOUS
      <4>1. t[i] = data_net[i + 1] /\ i + 1 \in 1 .. n /\ i + 1 # 1 /\ 1 \in 1 .. n
        BY SMTT(30), <1>5 DEF t
      <4>2. t[i].seq \in Nat
        BY SMTT(30), <1>1, <4>1, ElementOfSeq, SegmentFields
      <4>3. Ahead(rw.recv_base, t[i])
        BY SMTT(30), <1>1, <2>0, <3>4, <4>2 DEF Ahead
      <4>4. t[i].seq # p.seq
        BY Zenon, <1>2, <1>4, <1>5, <4>1, <4>3 DEF SentOnce
      <4> QED BY <4>3, <4>4
    <3>6. Len(t) = n - 1
      BY <1>5 DEF t
    <3>7. SentOnce(u, t)
      <4> SUFFICES ASSUME NEW i \in 1 .. n - 1, Ahead(u.recv_base, t[i])
                   PROVE  /\ \A j \in 1 .. n - 1 :
                                i # j /\ t[j].len > 0 => t[i].seq # t[j].seq
                          /\ \A j \in 1 .. Len(u.list) : t[i].seq # u.list[j].seq
        BY SMTT(30), <3>6 DEF SentOnce
      <4>1. Ahead(rw.recv_base, t[i]) /\ t[i].seq # p.seq
        BY <3>5
      <4>2. /\ \A j \in 1 .. n - 1 : i # j /\ t[j].len > 0 => t[i].seq # t[j].seq
            /\ \A j \in 1 .. Len(rw.list) : t[i].seq # rw.list[j].seq
        BY <1>7, <3>6, <4>1 DEF SentOnce
      <4>3. \A j \in 1 .. Len(u.list) : t[i].seq # u.list[j].seq
        <5> TAKE j \in 1 .. Len(u.list)
        <5>1. u.list[j] = p \/ \E k \in 1 .. Len(rw.list) : u.list[j] = rw.list[k]
          BY <3>4
        <5> QED BY <4>1, <4>2, <5>1
      <4> QED BY SMTT(30), <4>2, <4>3
    <3>8. ASSUME fin \in {"registered", "set"}, NotSent(rw, data_net, fin_seq)
          PROVE  NotSent(u, t, fin_seq)
      <4>1. \A i \in 1 .. n - 1 : Ahead(u.recv_base, t[i]) => t[i].seq # fin_seq
        BY <1>7, <3>5, <3>6, <3>8 DEF NotSent
      <4>2. \A j \in 1 .. Len(u.list) : u.list[j].seq # fin_seq
        <5> TAKE j \in 1 .. Len(u.list)
        <5>1. u.list[j] = p \/ \E k \in 1 .. Len(rw.list) : u.list[j] = rw.list[k]
          BY <3>4
        <5>2. CASE \E k \in 1 .. Len(rw.list) : u.list[j] = rw.list[k]
          BY <3>8, <5>2 DEF NotSent
        <5>3. CASE u.list[j] = p
          <6>1. CASE Ahead(rw.recv_base, p)
            <7>1. 1 \in 1 .. n
              BY <1>5
            <7> QED BY <1>5, <3>8, <5>3, <6>1, <7>1 DEF NotSent
          <6>2. CASE ~Ahead(rw.recv_base, p)
            <7>1. p.seq <= rw.recv_base
              BY SMTT(30), <1>1, <1>4, <1>6, <6>2 DEF Ahead
            <7>2. u.recv_base < u.list[j].seq
              BY SMTT(30), <3>4 DEF StoredIn
            <7> QED BY SMTT(30), <1>1, <1>6, <2>0, <3>4, <5>3, <7>1, <7>2
          <6> QED BY <6>1, <6>2
        <5> QED BY <5>1, <5>2, <5>3
      <4> QED BY SMTT(30), <3>6, <4>1, <4>2 DEF NotSent
    <3> QED BY <2>0, <3>4, <3>7, <3>8
  <2> QED BY <2>1, <2>2
<1> HIDE DEF r
<1>9. AckChain'
  <2>1. \A i \in 1 .. Len(ack_net) : /\ w.send_base <= ack_net[i].ack_num
                                     /\ ack_net[i].ack_num <= u.recv_base
    <3> TAKE i \in 1 .. Len(ack_net)
    <3>1. ack_net \in Seq(Ack)
      BY InvFacts
    <3>2. ack_net[i] \in Ack
      BY <3>1, ElementOfSeq
    <3>3. ack_net[i].ack_num \in Nat
      BY <3>2, UInt32Nat DEF Ack
    <3>4. w.send_base <= ack_net[i].ack_num /\ ack_net[i].ack_num <= rw.recv_base
      BY <1>2 DEF AckChain
    <3>5. ack_net[i].ack_num <= u.recv_base
      <4>1. rw.recv_base \in Nat /\ u.recv_base \in Nat /\ rw.recv_base <= u.recv_base
        BY <1>1, <1>8
      <4> HIDE DEF rw, u
      <4> QED BY SMTT(30), <3>3, <3>4, <4>1
    <3> QED BY <3>4, <3>5
  <2>2. w.send_base <= u.recv_base
    BY SMTT(30), <1>1, <1>2, <1>8 DEF AckChain
  <2> QED BY <1>1, <1>2, <1>3, <1>4, <1>8, <2>1, <2>2 DEF AckChain
<1>10. Boundaries'
  BY SMTT(30), <1>2, <1>3, <1>4, <1>8 DEF Boundaries
<1>11. SegmentInv'
  BY <1>2, <1>3, <1>4, <1>7, <1>8, <1>9, <1>10 DEF SegmentInv, NoAbort, t
<1>12. Accounting'
  BY <1>2, <1>4 DEF Accounting, FinRegistered
<1>13. FinSegment'
  <2>1. fin \in {"registered", "set"} => NotSent(u, t, fin_seq)
    BY <1>2, <1>8 DEF FinSegment
  <2> QED BY SMTT(30), <1>2, <1>3, <1>4, <2>1 DEF FinSegment, FinRegistered, t
<1> QED BY <1>11, <1>12, <1>13, InvPartsPrime

-----------------------------------------------------------------------------
(* The theorems. *)

\* Every step keeps the invariant.
LEMMA NextTransferInv == IInv /\ [Next]_vars => IInv'
<1> SUFFICES ASSUME IInv, [Next]_vars PROVE TransferInv'
  BY NextTypeInv DEF IInv
<1>1. TransferInv
  BY DEF IInv
<1>2. CASE UNCHANGED vars
  <2>1. UNCHANGED protocolVars
    BY <1>2 DEF vars, sendVars, winVars, ctlVars, recvVars, netVars, protocolVars
  <2> QED BY <1>1, <2>1, FrameInv
<1>3. CASE Application
  BY <1>3, ApplicationInv
<1>4. CASE Sender
  BY <1>4, WaitingInv, SendDataPacketInv DEF Sender
<1>5. CASE SendFIN
  BY <1>5, RegisterFINInv, SendFINInv DEF SendFIN
<1>6. CASE AckHandler
  BY <1>1, <1>6, HandleACKInv, IndifferentInv DEF AckHandler
<1>7. CASE TimeoutReTransmitter \/ ProbeWindowSize
  BY <1>7, TimersInv
<1>8. CASE Receiver
  BY <1>1, <1>8, DropInv, HandlePacketInv, SendAckInv, IndifferentInv DEF Receiver
<1>9. CASE OtherSendWindow \/ ReceiveBufferListener \/ Reader
  BY <1>1, <1>9, IndifferentInv
<1>10. CASE Channel
  BY <1>10, DropInv, LoseAckInv DEF Channel
<1> QED BY SMTT(30), <1>2, <1>3, <1>4, <1>5, <1>6, <1>7, <1>8, <1>9, <1>10 DEF Next

\* The invariant holds in every state of the connection.
THEOREM TransferInvariance == Spec => []TransferInv
<1>1. Init => IInv
  BY InitTypeInv, InitTransferInv DEF IInv
<1>2. Spec => []IInv
  BY <1>1, NextTransferInv, PTL DEF Spec
<1> QED BY <1>2, PTL DEF IInv

\* No SANITY_CHECK of SendWindow.cc and RecvWindow.cc and no LogFATAL of SendFIN
\* fires, whatever is lost, sent again or acknowledged twice, and whether or not
\* the application writes and shuts down at a time.
THEOREM NeverAborts == Spec => []NoAbort
<1>1. TransferInv => NoAbort
  BY DEF TransferInv
<1> QED BY <1>1, TransferInvariance, PTL

\* send_base_, the acknowledgements on their way, recv_base_ and the next
\* sequence number are in order in every state.
THEOREM AcksInOrder == Spec => []AckChain
<1>1. TransferInv => AckChain
  BY DEF TransferInv
<1> QED BY <1>1, TransferInvariance, PTL

\* When one application thread writes and shuts down, no data follows the FIN.
THEOREM FinLast == OneAppThread => (Spec => []FinIsLast)
<1> SUFFICES ASSUME OneAppThread PROVE Spec => []FinIsLast
  OBVIOUS
<1>1. IInv => FinIsLast
  <2> SUFFICES ASSUME IInv, FinRegistered
               PROVE  NextSeqNumberToSend(send_window) = U32(fin_seq + 1)
    BY DEF FinIsLast, FinRegistered
  <2>1. fin_seq + 1 = NextSum(send_window)
    BY DEF IInv, TransferInv, FinSegment
  <2>2. fin_seq + 1 \in UInt32
    BY <2>1, InvFacts, PlainNext
  <2> QED BY <2>1, <2>2, InvFacts, U32Identity
<1>2. Init => IInv
  BY InitTypeInv, InitTransferInv DEF IInv
<1>3. Spec => []IInv
  BY <1>2, NextTransferInv, PTL DEF Spec
<1> QED BY <1>1, <1>3, PTL

=============================================================================
