--------------------------- MODULE SenderTheorems ---------------------------
(***************************************************************************)
(* The steps of the sending side keep TransferInv: the thread that sends   *)
(* data, SendFIN, the timers and the handler of acknowledgements.          *)
(***************************************************************************)
EXTENDS NetworkTheorems

-----------------------------------------------------------------------------
(* New segments. *)

\* Every segment sent so far starts before the next one.
LEMMA OlderThanNext ==
  ASSUME IInv
  PROVE  /\ \A j \in 1 .. Len(data_net) : data_net[j].len > 0 =>
               data_net[j].seq < NextSum(send_window)
         /\ \A j \in 1 .. Len(recv_window.list) :
               recv_window.list[j].seq < NextSum(send_window)
         /\ FinRegistered => fin_seq < NextSum(send_window)
<1> DEFINE w == send_window
           next == NextSum(send_window)
<1>1. /\ w \in SendWindowType /\ w.send_base \in Nat /\ w.size \in Nat
      /\ next \in Nat /\ next < Mod /\ data_net \in Seq(Segment) /\ fin_seq \in Nat
  BY InvFacts
<1>2. /\ WindowChain(w) /\ Genuine(w, data_net) /\ StoredIn(w, recv_window)
      /\ FinRegistered => InWindow(w, MakeFinPacket(fin_seq)) \/ fin_seq + 1 <= w.send_base
  BY DEF IInv, TransferInv, FinSegment
<1>3. w.send_base <= next
  BY <1>1 DEF NextSum
<1>4. \A s : InWindow(w, s) => s.seq \in Nat /\ s.seq < next
  <2> SUFFICES ASSUME NEW s, InWindow(w, s) PROVE s.seq \in Nat /\ s.seq < next
    OBVIOUS
  <2>1. s.seq \in Nat /\ s.len \in Nat /\ s.len > 0 /\ s.seq + s.len <= next
    BY <1>1, <1>2, InWindowBounds
  <2> QED BY <1>1, <2>1
<1> HIDE DEF w, next
<1>5. ASSUME NEW j \in 1 .. Len(data_net), data_net[j].len > 0 PROVE data_net[j].seq < next
  <2>1. data_net[j].seq \in Nat /\ data_net[j].len \in Nat
    BY <1>1, ElementOfSeq, SegmentFields
  <2>2. InWindow(w, data_net[j]) \/ data_net[j].seq + data_net[j].len <= w.send_base
    BY <1>2, <1>5, <2>1 DEF Genuine
  <2>3. CASE InWindow(w, data_net[j])
    BY <1>4, <2>3
  <2>4. CASE data_net[j].seq + data_net[j].len <= w.send_base
    BY <1>1, <1>3, <1>5, <2>1, <2>4
  <2> QED BY <2>2, <2>3, <2>4
<1>6. ASSUME NEW j \in 1 .. Len(recv_window.list) PROVE recv_window.list[j].seq < next
  BY <1>2, <1>4 DEF StoredIn
<1>7. ASSUME FinRegistered PROVE fin_seq < next
  <2>1. CASE InWindow(w, MakeFinPacket(fin_seq))
    <3>1. MakeFinPacket(fin_seq).seq = fin_seq
      BY DEF MakeFinPacket
    <3> QED BY <1>4, <2>1, <3>1
  <2>2. CASE fin_seq + 1 <= w.send_base
    BY <1>1, <1>3, <2>2
  <2> QED BY <1>2, <1>7, <2>1, <2>2
<1> QED BY <1>5, <1>6, <1>7 DEF w, next

\* Windows that differ in capacity and in the duplicate counter only.
LEMMA ChainCongruence ==
  ASSUME NEW v, NEW w, v.send_base = w.send_base, v.size = w.size,
         v.pkts_to_ack = w.pkts_to_ack
  PROVE  /\ NextSum(v) = NextSum(w)
         /\ NextSeqNumberToSend(v) = NextSeqNumberToSend(w)
         /\ WindowChain(v) <=> WindowChain(w)
         /\ \A n : Boundary(v, n) <=> Boundary(w, n)
         /\ \A s : InWindow(v, s) <=> InWindow(w, s)
<1>1. NextSum(v) = NextSum(w) /\ NextSeqNumberToSend(v) = NextSeqNumberToSend(w)
  BY DEF NextSum, NextSeqNumberToSend
<1>2. WindowChain(v) <=> WindowChain(w)
  BY <1>1 DEF WindowChain
<1> QED BY <1>1, <1>2 DEF Boundary, InWindow

\* The send window grows by the next segment p, which may go on the network.
LEMMA GrowInv ==
  ASSUME IInv, NEW p \in Segment, p.len > 0, p.seq = NextSum(send_window),
         NextSum(send_window) + p.len < Mod,
         NEW v \in SendWindowType, v.send_base = send_window.send_base,
         NextSum(v) = NextSum(send_window) + p.len, WindowChain(v),
         \A n : Boundary(send_window, n) => Boundary(v, n),
         \A s : InWindow(send_window, s) => InWindow(v, s),
         InWindow(v, p),
         send_window' = v,
         data_net' = data_net \/ data_net' = Append(data_net, p),
         aborted' = FALSE,
         UNCHANGED <<recv_window, ack_net>>
  PROVE  SegmentInv'
<1> DEFINE w == send_window
<1>1. /\ w \in SendWindowType /\ data_net \in Seq(Segment) /\ recv_window \in RecvWindowType
      /\ w.send_base \in Nat /\ NextSum(w) \in Nat /\ recv_window.recv_base \in Nat
      /\ NextSeqNumberToSend(w) = NextSum(w) /\ p.len \in Nat /\ p.seq \in Nat
  BY InvFacts, SegmentFields
<1>2. /\ AckChain /\ Boundaries /\ Genuine(w, data_net) /\ StoredIn(w, recv_window)
      /\ SentOnce(recv_window, data_net)
  BY DEF IInv, TransferInv
<1>3. AckChain'
  <2>1. NextSeqNumberToSend(v) = NextSum(v)
    <3>1. NextSum(v) < Mod
      OBVIOUS
    <3> QED BY <3>1, PlainNext
  <2>2. recv_window.recv_base <= NextSum(v)
    BY <1>1, <1>2 DEF AckChain
  <2> QED BY <1>2, <2>1, <2>2 DEF AckChain
<1>4. Boundaries'
  BY <1>2 DEF Boundaries
<1>5. StoredIn(v, recv_window)
  BY <1>2 DEF StoredIn
<1>6. Genuine(v, data_net)
  BY <1>2 DEF Genuine
<1>7. Genuine(v, data_net')
  BY Zenon, <1>1, <1>6, GenuineAppend
<1>8. SentOnce(recv_window, data_net')
  <2>1. /\ \A j \in 1 .. Len(data_net) : data_net[j].len > 0 => data_net[j].seq # p.seq
        /\ \A j \in 1 .. Len(recv_window.list) : recv_window.list[j].seq # p.seq
    <3>1. \A j \in 1 .. Len(data_net) : data_net[j].len > 0 => data_net[j].seq # p.seq
      <4> TAKE j \in 1 .. Len(data_net)
      <4>1. data_net[j].seq \in Nat
        BY <1>1, ElementOfSeq, SegmentFields
      <4>2. data_net[j].len > 0 => data_net[j].seq < p.seq
        BY OlderThanNext
      <4> QED BY <1>1, <4>1, <4>2
    <3>2. \A j \in 1 .. Len(recv_window.list) : recv_window.list[j].seq # p.seq
      <4> TAKE j \in 1 .. Len(recv_window.list)
      <4>1. recv_window.list[j].seq \in Nat
        BY <1>1, RecvWindowFields, ElementOfSeq, SegmentFields
      <4>2. recv_window.list[j].seq < p.seq
        BY OlderThanNext
      <4> QED BY <1>1, <4>1, <4>2
    <3> QED BY <3>1, <3>2
  <2> QED BY <1>1, <1>2, <2>1, SentOnceAppend
<1> QED BY <1>3, <1>4, <1>5, <1>7, <1>8 DEF SegmentInv, NoAbort

\* One iteration of the sending loop: the window accepts the segment, because the
\* batch was cut to the room there is and the window's lock is held since.
LEMMA SendDataPacketInv == IInv /\ SendDataPacket => TransferInv'
<1> SUFFICES ASSUME IInv, SendDataPacket PROVE TransferInv'
  OBVIOUS
<1> DEFINE w == send_window
           n == Min({PacketSize, size_to_send})
           bytes == SubSeq(send_buffer, 1, n)
           rest == SubSeq(send_buffer, n + 1, Len(send_buffer))
           p == MakeDataPacket(NextSeqNumberToSend(w), bytes)
           r == SendPacket(w, p)
           v == WithPacket(w, p)
<1>1. /\ w \in SendWindowType /\ w.size \in Nat /\ w.send_base \in Nat
      /\ NextSum(w) \in Nat /\ NextSum(w) < Mod /\ NextSeqNumberToSend(w) = NextSum(w)
      /\ send_buffer \in Seq(Nat) /\ Len(send_buffer) \in Nat
      /\ written \in Nat /\ writing \in Nat /\ size_to_send \in Nat
      /\ Isn \in Nat /\ MaxBytes \in Nat /\ Mod \in Nat
      /\ FreeSpace(w) \in Nat /\ w.capacity \in Nat
  BY InvFacts, SendWindowFields
<1>2. SegmentInv /\ Accounting /\ FinSegment /\ WindowChain(w)
  BY InvParts DEF IInv, SegmentInv
<1>3. /\ written + writing <= MaxBytes /\ Len(send_buffer) <= written
      /\ size_to_send \in 1 .. Len(send_buffer) /\ size_to_send <= FreeSpace(w)
      /\ NextSum(w) = Isn + written - Len(send_buffer) + (IF FinRegistered THEN 1 ELSE 0)
  BY <1>2 DEF Accounting, SendDataPacket
<1>4. n \in 1 .. size_to_send
  <2>1. PacketSize \in Nat /\ PacketSize > 0
    BY TransferAssumption
  <2>2. size_to_send \in Nat /\ size_to_send >= 1
    BY <1>1, <1>3
  <2> QED BY <2>1, <2>2, MinOfTwo
<1>5. /\ send_buffer' = rest /\ send_window' = r.window
      /\ data_net' = (IF r.ok THEN Append(data_net, p) ELSE data_net)
      /\ size_to_send' = size_to_send - n
      /\ sender' = (IF size_to_send = n THEN "window" ELSE "send")
      /\ aborted' = ~r.sane
  BY Zenon DEF SendDataPacket
<1>6. UNCHANGED <<written, writing, fin, fin_seq, recv_window, ack_net>>
  BY DEF SendDataPacket, ctlVars, recvVars
<1> HIDE DEF n
<1>7. /\ bytes \in Seq(Nat) /\ Len(bytes) = n
      /\ rest \in Seq(Nat) /\ Len(rest) = Len(send_buffer) - n
  <2>1. \A i \in 1 .. Len(send_buffer) : send_buffer[i] \in Nat
    BY <1>1, ElementOfSeq
  <2> QED BY <1>1, <1>3, <1>4, <2>1, SubSeqProperties
<1> HIDE DEF bytes, rest
<1>8. n \in Nat /\ NextSum(w) + n < Mod
  <2>1. n <= Len(send_buffer) /\ n \in Nat
    BY <1>1, <1>3, <1>4
  <2>2. NextSum(w) <= Isn + written - Len(send_buffer) + 1
    BY <1>1, <1>3
  <2> QED BY <1>1, <1>3, <2>1, <2>2, NoWrap
<1>9. p \in Segment /\ p.seq = NextSum(w) /\ p.len = n
  <2>1. NextSum(w) \in UInt32
    BY <1>1, PlainNext
  <2>2. n \in UInt32
    BY <1>1, <1>8 DEF UInt32
  <2>3. p \in Segment
    BY <1>1, <1>7, <2>1, MakeDataPacketType
  <2> QED BY <1>1, <1>7, <2>2, <2>3, U32Identity DEF MakeDataPacket
<1> HIDE DEF p, w
<1>10. /\ SendPacketSane(w, p) /\ ~SendPacketRefused(w, p)
       /\ v \in SendWindowType /\ v.send_base = w.send_base
       /\ v.capacity = w.capacity /\ v.size = w.size + n
       /\ NextSum(v) = NextSum(w) + n /\ WindowChain(v)
       /\ \A m : Boundary(w, m) => Boundary(v, m)
       /\ \A s : InWindow(w, s) => InWindow(v, s)
       /\ InWindow(v, p)
  <2>1. p.len > 0 /\ p.len <= FreeSpace(w)
    BY <1>1, <1>3, <1>4, <1>9
  <2> QED BY <1>1, <1>2, <1>8, <1>9, <2>1, SendKeepsChain
<1>11. r.ok /\ r.sane /\ r.window = v
  BY Zenon, <1>10 DEF SendPacket
<1> HIDE DEF r, v
<1>12. /\ send_window' = v /\ data_net' = Append(data_net, p) /\ aborted' = FALSE
  BY Zenon, <1>5, <1>11
<1>13. SegmentInv'
  <2>1. /\ p \in Segment /\ p.len > 0 /\ p.seq = NextSum(send_window)
        /\ NextSum(send_window) + p.len < Mod
    BY <1>1, <1>3, <1>4, <1>8, <1>9 DEF w
  <2>2. /\ v \in SendWindowType /\ v.send_base = send_window.send_base
        /\ NextSum(v) = NextSum(send_window) + p.len /\ WindowChain(v)
        /\ \A m : Boundary(send_window, m) => Boundary(v, m)
        /\ \A s : InWindow(send_window, s) => InWindow(v, s)
        /\ InWindow(v, p)
    BY <1>9, <1>10 DEF w
  <2>3. /\ data_net' = data_net \/ data_net' = Append(data_net, p)
        /\ UNCHANGED <<recv_window, ack_net>>
    BY <1>6, <1>12
  <2> QED BY Zenon, <1>12, <2>1, <2>2, <2>3, GrowInv
<1>14. FinRegistered' = FinRegistered
  BY <1>6 DEF FinRegistered
<1>15. Accounting'
  <2>1. /\ written' + writing' <= MaxBytes /\ Len(send_buffer') <= written'
    BY <1>1, <1>3, <1>4, <1>5, <1>6, <1>7
  <2>2. NextSum(send_window') = Isn + written' - Len(send_buffer')
                                    + (IF FinRegistered THEN 1 ELSE 0)
    <3>1. Len(send_buffer') = Len(send_buffer) - n
      BY <1>5, <1>7
    <3> QED BY <1>1, <1>3, <1>6, <1>8, <1>10, <1>12, <3>1
  <2>3. sender' = "send" => /\ size_to_send' \in 1 .. Len(send_buffer')
                            /\ size_to_send' <= FreeSpace(send_window')
    <3>1. FreeSpace(v) = FreeSpace(w) - n
      <4>1. n <= FreeSpace(w) /\ n > 0
        BY <1>1, <1>3, <1>4
      <4> QED BY SMTT(30), <1>1, <1>8, <1>10, <4>1 DEF FreeSpace
    <3>2. sender' = "send" => size_to_send # n
      BY <1>5
    <3>3. size_to_send' = size_to_send - n /\ Len(send_buffer') = Len(send_buffer) - n
      BY <1>5, <1>7
    <3>4. size_to_send \in 1 .. Len(send_buffer) /\ size_to_send <= FreeSpace(w)
      BY <1>3
    <3>5. size_to_send # n => /\ size_to_send - n \in 1 .. Len(send_buffer) - n
                              /\ size_to_send - n <= FreeSpace(w) - n
      BY <1>1, <1>4, <3>4
    <3> QED BY <1>12, <3>1, <3>2, <3>3, <3>5
  <2> QED BY <1>14, <2>1, <2>2, <2>3 DEF Accounting
<1>16. FinSegment'
  <2>1. FinRegistered => \/ InWindow(v, MakeFinPacket(fin_seq))
                         \/ fin_seq + 1 <= v.send_base
    BY <1>2, <1>10 DEF FinSegment, w
  <2>2. OneAppThread => ~FinRegistered
    <3> SUFFICES ASSUME OneAppThread, FinRegistered PROVE FALSE
      OBVIOUS
    <3>1. Len(send_buffer) = 0
      BY <1>2, EmptySeq DEF FinSegment
    <3> QED BY <1>3, <3>1
  <2>3. fin \in {"registered", "set"} => NotSent(recv_window, data_net', fin_seq)
    <3> SUFFICES ASSUME fin \in {"registered", "set"}
                 PROVE  NotSent(recv_window, data_net', fin_seq)
      OBVIOUS
    <3>1. NotSent(recv_window, data_net, fin_seq)
      BY <1>2 DEF FinSegment
    <3>2. fin_seq < NextSum(w) /\ fin_seq \in Nat
      BY OlderThanNext, InvFacts DEF FinRegistered, w
    <3>3. p.seq # fin_seq
      BY <1>1, <1>9, <3>2
    <3> QED BY <1>9, <1>12, <3>1, <3>3, NotSentAppend, InvFacts
  <2>4. OneAppThread => (fin # "none" => writing = 0)
    BY <1>2 DEF FinSegment
  <2> QED BY SMTT(30), <1>6, <1>12, <1>14, <2>1, <2>2, <2>3, <2>4 DEF FinSegment
<1> QED BY <1>13, <1>15, <1>16, InvPartsPrime

\* SendFIN registers the FIN in the send window, which it widens before: neither
\* its sanity check nor the LogFATAL after a refusal is reached.
LEMMA RegisterFINInv == IInv /\ RegisterFIN => TransferInv'
<1> SUFFICES ASSUME IInv, RegisterFIN PROVE TransferInv'
  OBVIOUS
<1> DEFINE cap == U32(send_window.size + 1)
           w == [send_window EXCEPT !.capacity = cap]
           p == MakeFinPacket(NextSeqNumberToSend(w))
           r == SendPacket(w, p)
           v == WithPacket(w, p)
<1>1. /\ send_window \in SendWindowType /\ send_window.size \in Nat
      /\ send_window.send_base \in Nat /\ fin_seq \in Nat
      /\ NextSum(send_window) \in Nat
      /\ written \in Nat /\ writing \in Nat /\ send_buffer \in Seq(Nat)
      /\ Isn \in Nat /\ MaxBytes \in Nat /\ Mod \in Nat
  BY InvFacts
<1>2. SegmentInv /\ Accounting /\ FinSegment /\ WindowChain(send_window)
  BY InvParts DEF IInv, SegmentInv
<1>3. /\ fin_seq' = NextSeqNumberToSend(w) /\ send_window' = r.window
      /\ aborted' = ~(r.sane /\ r.ok)
  BY Zenon DEF RegisterFIN
<1>4. /\ fin = "wait" /\ fin' = "registered" /\ send_buffer = <<>> /\ sender # "send"
      /\ UNCHANGED <<written, writing, send_buffer, sender, size_to_send, recv_window,
                     data_net, ack_net>>
  BY DEF RegisterFIN, SendBufferLocked, sendVars, recvVars, netVars
<1>5. Len(send_buffer) = 0
  BY <1>4, EmptySeq
<1>6. /\ ~FinRegistered /\ FinRegistered'
      /\ written + writing <= MaxBytes /\ NextSum(send_window) = Isn + written
      /\ NextSum(send_window) + 1 < Mod
  <2>1. ~FinRegistered /\ FinRegistered'
    BY <1>4 DEF FinRegistered
  <2>2. /\ written + writing <= MaxBytes
        /\ NextSum(send_window) = Isn + written - Len(send_buffer) + 0
    BY <1>2, <2>1 DEF Accounting
  <2> QED BY <1>1, <1>5, <2>1, <2>2, NoWrap
<1>7. cap = send_window.size + 1 /\ cap \in UInt32 /\ cap \in Nat
  <2>1. send_window.size + 1 \in UInt32
    BY <1>1, <1>6 DEF UInt32, NextSum
  <2> QED BY <2>1, U32Identity, UInt32Nat
<1> HIDE DEF cap
<1>8. /\ w \in SendWindowType /\ w.send_base = send_window.send_base
      /\ w.size = send_window.size /\ w.pkts_to_ack = send_window.pkts_to_ack
      /\ w.capacity = cap
  BY Zenon, <1>1, <1>7 DEF SendWindowType
<1> HIDE DEF w
<1>9. /\ NextSum(w) = NextSum(send_window) /\ WindowChain(w)
      /\ \A m : Boundary(send_window, m) => Boundary(w, m)
      /\ \A s : InWindow(send_window, s) => InWindow(w, s)
  BY <1>2, <1>8, ChainCongruence
<1>10. NextSeqNumberToSend(w) = NextSum(w) /\ NextSum(w) \in UInt32 /\ NextSum(w) < Mod
  <2>1. NextSum(w) < Mod
    BY <1>1, <1>6, <1>9
  <2> QED BY <1>8, <2>1, PlainNext
<1>11. p \in Segment /\ p.seq = NextSum(w) /\ p.len = 1
  BY <1>10, MakeFinPacketType DEF MakeFinPacket
<1>12. p = MakeFinPacket(NextSum(w))
  BY <1>10
<1> HIDE DEF p
<1>13. /\ SendPacketSane(w, p) /\ ~SendPacketRefused(w, p)
       /\ v \in SendWindowType /\ v.send_base = w.send_base
       /\ NextSum(v) = NextSum(w) + 1 /\ WindowChain(v)
       /\ \A m : Boundary(w, m) => Boundary(v, m)
       /\ \A s : InWindow(w, s) => InWindow(v, s)
       /\ InWindow(v, p)
  <2>1. p.len <= FreeSpace(w) /\ p.len > 0
    BY <1>1, <1>7, <1>8, <1>11 DEF FreeSpace
  <2> QED BY <1>6, <1>8, <1>9, <1>11, <2>1, SendKeepsChain
<1>14. r.ok /\ r.sane /\ r.window = v
  BY Zenon, <1>13 DEF SendPacket
<1> HIDE DEF r, v
<1>15. send_window' = v /\ aborted' = FALSE /\ fin_seq' = NextSum(send_window)
  BY Zenon, <1>3, <1>9, <1>10, <1>14
<1>16. SegmentInv'
  <2>1. /\ p \in Segment /\ p.len > 0 /\ p.seq = NextSum(send_window)
        /\ NextSum(send_window) + p.len < Mod
    BY <1>6, <1>9, <1>11
  <2>2. /\ v \in SendWindowType /\ v.send_base = send_window.send_base
        /\ NextSum(v) = NextSum(send_window) + p.len /\ WindowChain(v)
        /\ \A m : Boundary(send_window, m) => Boundary(v, m)
        /\ \A s : InWindow(send_window, s) => InWindow(v, s)
        /\ InWindow(v, p)
    BY <1>8, <1>9, <1>11, <1>13
  <2>3. /\ data_net' = data_net \/ data_net' = Append(data_net, p)
        /\ UNCHANGED <<recv_window, ack_net>>
    BY <1>4
  <2> QED BY Zenon, <1>15, <2>1, <2>2, <2>3, GrowInv
<1>17. Accounting'
  <2>1. NextSum(send_window') = Isn + written + 1
    BY <1>6, <1>9, <1>13, <1>15
  <2> QED BY <1>1, <1>4, <1>5, <1>6, <2>1 DEF Accounting
<1>18. FinSegment'
  <2>1. InWindow(send_window', MakeFinPacket(fin_seq'))
    BY <1>9, <1>12, <1>13, <1>15
  <2>2. NotSent(recv_window, data_net, fin_seq')
    <3> DEFINE next == NextSum(send_window)
    <3>1. \A i \in 1 .. Len(data_net) : Ahead(recv_window.recv_base, data_net[i]) =>
             data_net[i].seq # next
      <4> TAKE i \in 1 .. Len(data_net)
      <4>1. data_net[i].seq \in Nat
        BY InvFacts, ElementOfSeq, SegmentFields
      <4>2. data_net[i].len > 0 => data_net[i].seq < next
        BY OlderThanNext
      <4> QED BY <1>1, <4>1, <4>2 DEF Ahead
    <3>2. \A j \in 1 .. Len(recv_window.list) : recv_window.list[j].seq # next
      <4> TAKE j \in 1 .. Len(recv_window.list)
      <4>1. recv_window.list[j].seq \in Nat
        BY SMTT(30), InvFacts, RecvWindowFields, ElementOfSeq, SegmentFields
      <4>2. recv_window.list[j].seq < next
        BY OlderThanNext
      <4> QED BY <1>1, <4>1, <4>2
    <3> QED BY <1>15, <3>1, <3>2 DEF NotSent
  <2>3. OneAppThread => writing' = 0 /\ send_buffer' = <<>>
                        /\ fin_seq' + 1 = NextSum(send_window')
    BY <1>2, <1>4, <1>9, <1>13, <1>15 DEF FinSegment
  <2> QED BY <1>4, <2>1, <2>2, <2>3 DEF FinSegment
<1> QED BY <1>16, <1>17, <1>18, InvPartsPrime

-----------------------------------------------------------------------------
(* Segments sent late or again. *)

\* The rest of SendFIN: the FIN goes out when it is registered, and no other
\* copy of it is ahead of the receiver then.
LEMMA SendFINInv ==
  ASSUME IInv, EnterFinWait1 \/ TransmitFIN \/ StartFinTimers
  PROVE  TransferInv'
<1>1. SegmentInv /\ Accounting /\ FinSegment
  BY InvParts DEF IInv
<1>2. CASE EnterFinWait1 \/ StartFinTimers
  <2>1. /\ UNCHANGED <<written, writing, send_buffer, send_window, sender, size_to_send,
                       fin_seq, recv_window, data_net, ack_net, aborted>>
        /\ \/ fin = "registered" /\ fin' = "set"
           \/ fin = "sent" /\ fin' = "done"
    BY <1>2 DEF EnterFinWait1, StartFinTimers, sendVars, winVars, recvVars, netVars
  <2>2. SegmentInv'
    BY <1>1, <2>1, SegmentFrame
  <2>3. Accounting'
    BY <1>1, <2>1 DEF Accounting, FinRegistered
  <2>4. FinSegment'
    BY <1>1, <2>1 DEF FinSegment, FinRegistered
  <2> QED BY SMTT(30), <2>2, <2>3, <2>4, InvPartsPrime
<1>3. CASE TransmitFIN
  <2> DEFINE p == MakeFinPacket(fin_seq)
  <2>1. /\ UNCHANGED <<written, writing, send_buffer, send_window, sender, size_to_send,
                       fin_seq, recv_window, ack_net, aborted>>
        /\ fin = "set" /\ fin' = "sent" /\ data_net' = Append(data_net, p)
    BY <1>3 DEF TransmitFIN, sendVars, winVars, recvVars
  <2>2. /\ p \in Segment /\ p.seq = fin_seq /\ p.len = 1
        /\ data_net \in Seq(Segment) /\ recv_window \in RecvWindowType
    BY InvFacts, MakeFinPacketType DEF MakeFinPacket
  <2>3. /\ InWindow(send_window, p) \/ fin_seq + 1 <= send_window.send_base
        /\ NotSent(recv_window, data_net, fin_seq)
    BY <1>1, <2>1 DEF FinSegment, FinRegistered
  <2> HIDE DEF p
  <2>4. Genuine(send_window, data_net')
    BY <1>1, <2>1, <2>2, <2>3, GenuineAppend DEF SegmentInv
  <2>5. Ahead(recv_window.recv_base, p) =>
           /\ \A j \in 1 .. Len(data_net) : data_net[j].len > 0 => data_net[j].seq # p.seq
           /\ \A j \in 1 .. Len(recv_window.list) : recv_window.list[j].seq # p.seq
    BY <2>2, <2>3 DEF NotSent, Ahead
  <2>6. SentOnce(recv_window, data_net')
    BY SMTT(30), <1>1, <2>1, <2>2, <2>5, SentOnceAppend DEF SegmentInv
  <2>7. SegmentInv'
    BY <1>1, <2>1, <2>4, <2>6 DEF SegmentInv, NoAbort, AckChain, Boundaries
  <2>8. Accounting'
    BY <1>1, <2>1 DEF Accounting, FinRegistered
  <2>9. FinSegment'
    BY SMTT(30), <1>1, <2>1 DEF FinSegment, FinRegistered
  <2> QED BY <2>7, <2>8, <2>9, InvPartsPrime
<1> QED BY <1>2, <1>3

\* A retransmission repeats the first segment of the window, which starts at
\* send_base_ and is therefore not ahead of the receiver.
LEMMA Resend ==
  ASSUME NEW v \in SendWindowType, WindowChain(v), NextSum(v) < Mod,
         NEW rw \in RecvWindowType, v.send_base <= rw.recv_base,
         NEW net \in Seq(Segment), Genuine(v, net), SentOnce(rw, net)
  PROVE  /\ Genuine(v, net \o BasePacketToReSend(v))
         /\ SentOnce(rw, net \o BasePacketToReSend(v))
         /\ \A seq : NotSent(rw, net, seq) => NotSent(rw, net \o BasePacketToReSend(v), seq)
<1> DEFINE q == v.pkts_to_ack
<1>1. CASE q = <<>>
  <2>1. net \o BasePacketToReSend(v) = net
    BY <1>1, ConcatEmptySeq DEF BasePacketToReSend
  <2> QED BY <2>1
<1>2. CASE q # <<>>
  <2>1. q \in Seq(Segment) /\ 1 \in 1 .. Len(q)
    BY SMTT(30), <1>2, SendWindowFields, EmptySeq
  <2>2. InWindow(v, q[1]) /\ q[1].seq = v.send_base
    BY <1>2, <2>1 DEF InWindow, WindowChain
  <2>3. net \o BasePacketToReSend(v) = Append(net, q[1])
    <3>1. q[1] \in Segment
      BY <2>1, ElementOfSeq
    <3> QED BY <1>2, <3>1, AppendIsConcat DEF BasePacketToReSend
  <2>4. q[1] \in Segment /\ ~Ahead(rw.recv_base, q[1])
    BY SMTT(30), <2>1, <2>2, ElementOfSeq, SendWindowFields, RecvWindowFields DEF Ahead
  <2> HIDE DEF q
  <2>5. Genuine(v, Append(net, q[1]))
    BY <2>2, <2>4, GenuineAppend
  <2>6. SentOnce(rw, Append(net, q[1]))
    BY <2>4, SentOnceAppend
  <2>7. ASSUME NEW seq, NotSent(rw, net, seq) PROVE NotSent(rw, Append(net, q[1]), seq)
    BY <2>4, <2>7, NotSentAppend
  <2> QED BY <2>3, <2>5, <2>6, <2>7
<1> QED BY <1>1, <1>2

\* The two timers of the sender: a retransmission, or a probe of size zero.
LEMMA TimersInv ==
  ASSUME IInv, TimeoutReTransmitter \/ ProbeWindowSize
  PROVE  TransferInv'
<1>1. SegmentInv /\ Accounting /\ FinSegment
  BY InvParts DEF IInv
<1>2. UNCHANGED <<written, writing, send_buffer, send_window, sender, size_to_send, fin,
                  fin_seq, recv_window, ack_net, aborted>>
  BY DEF TimeoutReTransmitter, ProbeWindowSize, sendVars, winVars, ctlVars, recvVars
<1>3. /\ Genuine(send_window, data_net') /\ SentOnce(recv_window, data_net')
      /\ \A seq : NotSent(recv_window, data_net, seq) => NotSent(recv_window, data_net', seq)
  <2>1. CASE TimeoutReTransmitter
    <3>1. data_net' = data_net \o BasePacketToReSend(send_window)
      BY <2>1 DEF TimeoutReTransmitter
    <3>2. /\ WindowChain(send_window) /\ Genuine(send_window, data_net)
          /\ SentOnce(recv_window, data_net)
          /\ send_window.send_base <= recv_window.recv_base
      BY SMTT(30), <1>1 DEF SegmentInv, AckChain
    <3> QED BY <3>1, <3>2, Resend, InvFacts
  <2>2. CASE ProbeWindowSize
    <3> DEFINE p == MakeDataPacket(NextSeqNumberToSend(send_window), <<>>)
    <3>1. data_net' = Append(data_net, p)
      BY <2>2 DEF ProbeWindowSize
    <3>2. p \in Segment
      BY Zenon, InvFacts, SendWindowFields, EmptySeq, MakeDataPacketType
    <3>3. p.len = 0
      <4>1. 0 \in UInt32
        BY ModAssumption DEF UInt32
      <4> QED BY <4>1, EmptySeq, U32Identity DEF MakeDataPacket
    <3> HIDE DEF p
    <3>4. ~Ahead(recv_window.recv_base, p)
      BY SMTT(30), <3>3 DEF Ahead
    <3> QED BY <1>1, <3>1, <3>2, <3>3, <3>4, InvFacts, GenuineAppend, SentOnceAppend,
               NotSentAppend DEF SegmentInv
  <2> QED BY <2>1, <2>2
<1>4. SegmentInv'
  BY <1>1, <1>2, <1>3 DEF SegmentInv, NoAbort, AckChain, Boundaries
<1>5. Accounting'
  BY <1>1, <1>2 DEF Accounting, FinRegistered
<1>6. FinSegment'
  BY <1>1, <1>2, <1>3 DEF FinSegment, FinRegistered
<1> QED BY <1>4, <1>5, <1>6, InvPartsPrime

-----------------------------------------------------------------------------
(* Acknowledgements. *)

\* NewAckedPacket of an acknowledgement at a boundary at or above send_base_.
LEMMA NewAckedPacketChain ==
  ASSUME NEW w \in SendWindowType, WindowChain(w), NextSum(w) < Mod,
         NEW max, NEW ack \in UInt32, Boundary(w, ack), w.send_base <= ack
  PROVE  LET r == NewAckedPacket(w, max, ack)
         IN  /\ r.sane
             /\ r.window.send_base = ack
             /\ NextSum(r.window) = NextSum(w)
             /\ WindowChain(r.window)
             /\ \A n \in Nat : Boundary(w, n) /\ ack <= n => Boundary(r.window, n)
             /\ \A s : InWindow(w, s) => \/ InWindow(r.window, s)
                                         \/ s.seq + s.len <= ack
<1> DEFINE r == NewAckedPacket(w, max, ack)
<1>1. w.send_base \in Nat /\ ack \in Nat
  BY SMTT(30), SendWindowFields, UInt32Nat
<1>2. CASE w.send_base < ack
  <2>1. /\ AckAdvances(w, ack) /\ AckSane(w, ack)
        /\ Acked(w, ack).send_base = ack
        /\ NextSum(Acked(w, ack)) = NextSum(w)
        /\ WindowChain(Acked(w, ack))
        /\ \A n \in Nat : Boundary(w, n) /\ ack <= n => Boundary(Acked(w, ack), n)
        /\ \A s : InWindow(w, s) => InWindow(Acked(w, ack), s) \/ s.seq + s.len <= ack
    BY <1>2, AckKeepsChain
  <2>2. r.sane = AckSane(w, ack) /\ r.window = Acked(w, ack)
    BY SMTT(30), <2>1 DEF NewAckedPacket
  <2> HIDE DEF r
  <2> QED BY <2>1, <2>2 DEF r
<1>3. CASE w.send_base = ack
  <2> DEFINE d == IF w.duplicated_acks + 1 >= max THEN 0 ELSE w.duplicated_acks + 1
             v == [w EXCEPT !.duplicated_acks = d]
  <2>1. ~AckAdvances(w, ack) /\ ack = w.send_base
    BY <1>1, <1>3 DEF AckAdvances, AckOverflow
  <2>2. r.sane = TRUE /\ r.window = v
    BY <2>1 DEF NewAckedPacket, SendWindowType
  <2> HIDE DEF d
  <2>3. v.send_base = w.send_base /\ v.size = w.size /\ v.pkts_to_ack = w.pkts_to_ack
    BY DEF SendWindowType
  <2> HIDE DEF v, r
  <2>4. /\ NextSum(v) = NextSum(w) /\ WindowChain(v)
        /\ \A n : Boundary(w, n) => Boundary(v, n)
        /\ \A s : InWindow(w, s) => InWindow(v, s)
    BY <2>3, ChainCongruence
  <2> QED BY <1>3, <2>2, <2>3, <2>4 DEF r
<1>4. w.send_base < ack \/ w.send_base = ack
  BY <1>1
<1> QED BY Zenon, <1>2, <1>3, <1>4

\* HandleACK: the acknowledgement is a boundary between send_base_ and
\* recv_base_, so that the window's sanity checks hold, and what the receiver
\* has stored or not yet acknowledged stays in the window.
LEMMA HandleACKInv == IInv /\ HandleACK => TransferInv'
<1> SUFFICES ASSUME IInv, HandleACK PROVE TransferInv'
  OBVIOUS
<1> DEFINE w == send_window
           ack == Head(ack_net)
           r == NewAckedPacket(w, max_duplicated_acks, ack.ack_num)
           v == [r.window EXCEPT !.capacity = ack.window_size]
           n == Len(ack_net)
<1>1. /\ w \in SendWindowType /\ NextSum(w) < Mod /\ NextSum(w) \in Nat /\ w.send_base \in Nat
      /\ recv_window \in RecvWindowType /\ recv_window.recv_base \in Nat
      /\ data_net \in Seq(Segment) /\ ack_net \in Seq(Ack) /\ fin_seq \in Nat
      /\ NextSeqNumberToSend(w) = NextSum(w)
  BY InvFacts
<1>2. SegmentInv /\ Accounting /\ FinSegment /\ WindowChain(w) /\ AckChain /\ Boundaries
  BY InvParts DEF IInv, SegmentInv
<1>3. /\ send_window' = v
      /\ data_net' = (IF r.re_transmit THEN data_net \o BasePacketToReSend(v) ELSE data_net)
      /\ aborted' = ~r.sane
  BY Zenon DEF HandleACK
<1>4. /\ ack_net # <<>> /\ ack_net' = Tail(ack_net) /\ sender # "send"
      /\ UNCHANGED <<written, writing, send_buffer, sender, size_to_send, fin, fin_seq,
                     recv_window>>
  BY DEF HandleACK, SendWindowLocked, sendVars, recvVars
<1>5. /\ n \in Nat /\ n > 0 /\ ack = ack_net[1] /\ 1 \in 1 .. n /\ ack \in Ack
      /\ Len(Tail(ack_net)) = n - 1
      /\ \A i \in 1 .. n - 1 : Tail(ack_net)[i] = ack_net[i + 1] /\ i + 1 \in 1 .. n
  <2>1. n \in Nat /\ n > 0
    BY SMTT(30), <1>1, <1>4, EmptySeq
  <2> QED BY <1>1, <1>4, <2>1, HeadTailProperties
<1>6. /\ ack.ack_num \in UInt32 /\ ack.ack_num \in Nat /\ ack.window_size \in UInt32
      /\ \A i \in 1 .. n : ack_net[i].ack_num \in Nat
  <2>1. \A a \in Ack : a.ack_num \in UInt32 /\ a.ack_num \in Nat /\ a.window_size \in UInt32
    BY UInt32Nat, UInt16IsUInt32 DEF Ack
  <2> QED BY <1>1, <1>5, <2>1, ElementOfSeq
<1>7. /\ w.send_base <= ack.ack_num /\ ack.ack_num <= recv_window.recv_base
      /\ Boundary(w, ack.ack_num)
      /\ \A i \in 1 .. n - 1 : ack.ack_num <= ack_net[i + 1].ack_num
  <2>1. \A i \in 1 .. n - 1 : i + 1 \in 1 .. n /\ 1 < i + 1
    BY SMTT(30), <1>5
  <2> QED BY <1>2, <1>5, <2>1 DEF AckChain, Boundaries
<1> HIDE DEF ack
<1>8. /\ r.sane
      /\ r.window.send_base = ack.ack_num
      /\ NextSum(r.window) = NextSum(w)
      /\ WindowChain(r.window)
      /\ \A m \in Nat : Boundary(w, m) /\ ack.ack_num <= m => Boundary(r.window, m)
      /\ \A s : InWindow(w, s) => InWindow(r.window, s) \/ s.seq + s.len <= ack.ack_num
  BY <1>1, <1>2, <1>6, <1>7, NewAckedPacketChain
<1>9. r.window \in SendWindowType
  <2>1. max_duplicated_acks \in 1 .. MaxDupCap
    BY DEF IInv, TypeInv, TypeOK
  <2> QED BY <1>1, <1>6, <2>1, NewAckedPacketType
<1> HIDE DEF r
<1>10. /\ v \in SendWindowType /\ v.send_base = r.window.send_base
       /\ v.size = r.window.size /\ v.pkts_to_ack = r.window.pkts_to_ack
  BY SMTT(30), <1>6, <1>9 DEF SendWindowType
<1> HIDE DEF v
<1>11. /\ NextSum(v) = NextSum(w) /\ WindowChain(v) /\ v.send_base = ack.ack_num
       /\ \A m \in Nat : Boundary(w, m) /\ ack.ack_num <= m => Boundary(v, m)
       /\ \A s : InWindow(w, s) => InWindow(v, s) \/ s.seq + s.len <= v.send_base
  BY <1>8, <1>10, ChainCongruence
<1>12. Genuine(v, data_net) /\ StoredIn(v, recv_window)
  <2>1. Genuine(v, data_net)
    BY <1>1, <1>2, <1>6, <1>7, <1>11, GenuineMoves DEF SegmentInv
  <2>2. StoredIn(v, recv_window)
    BY <1>1, <1>2, <1>6, <1>7, <1>11, StoredMoves DEF SegmentInv
  <2> QED BY SMTT(30), <2>1, <2>2
<1>13. /\ Genuine(v, data_net') /\ SentOnce(recv_window, data_net')
       /\ \A seq : NotSent(recv_window, data_net, seq) => NotSent(recv_window, data_net', seq)
  <2>1. SentOnce(recv_window, data_net)
    BY SMTT(30), <1>2 DEF SegmentInv
  <2>2. NextSum(v) < Mod /\ v.send_base <= recv_window.recv_base
    BY SMTT(30), <1>1, <1>7, <1>11
  <2>3. CASE r.re_transmit
    <3>1. data_net' = data_net \o BasePacketToReSend(v)
      BY <1>3, <2>3
    <3> QED BY <1>1, <1>10, <1>11, <1>12, <2>1, <2>2, <3>1, Resend
  <2>4. CASE ~r.re_transmit
    <3>1. data_net' = data_net
      BY <1>3, <2>4
    <3> QED BY <1>12, <2>1, <3>1
  <2> QED BY <2>3, <2>4
<1>14. \A i \in 1 .. Len(ack_net') :
          /\ i + 1 \in 1 .. n /\ i \in 1 .. n - 1 /\ ack_net'[i] = ack_net[i + 1]
  BY <1>4, <1>5
<1>15. AckChain'
  <2>1. NextSeqNumberToSend(v) = NextSum(w)
    BY SMTT(30), <1>1, <1>10, <1>11, PlainNext
  <2>2. v.send_base <= recv_window.recv_base /\ recv_window.recv_base <= NextSum(w)
    BY SMTT(30), <1>1, <1>2, <1>7, <1>11 DEF AckChain
  <2>3. \A i \in 1 .. Len(ack_net') : /\ v.send_base <= ack_net'[i].ack_num
                                      /\ ack_net'[i].ack_num <= recv_window.recv_base
    BY <1>2, <1>7, <1>11, <1>14 DEF AckChain
  <2>4. \A i, j \in 1 .. Len(ack_net') : i < j => ack_net'[i].ack_num <= ack_net'[j].ack_num
    <3> SUFFICES ASSUME NEW i \in 1 .. Len(ack_net'), NEW j \in 1 .. Len(ack_net'), i < j
                 PROVE  ack_net'[i].ack_num <= ack_net'[j].ack_num
      OBVIOUS
    <3>1. i + 1 \in 1 .. n /\ ack_net'[i] = ack_net[i + 1]
      BY Zenon, <1>14
    <3>2. j + 1 \in 1 .. n /\ ack_net'[j] = ack_net[j + 1]
      BY Zenon, <1>14
    <3>3. i + 1 < j + 1
      OBVIOUS
    <3> QED BY <1>2, <3>1, <3>2, <3>3 DEF AckChain
  <2> QED BY SMTT(30), <1>3, <1>4, <2>1, <2>2, <2>3, <2>4 DEF AckChain
<1>16. Boundaries'
  <2>1. Boundary(v, recv_window.recv_base)
    BY <1>1, <1>2, <1>7, <1>11 DEF Boundaries
  <2>2. \A i \in 1 .. Len(ack_net') : Boundary(v, ack_net'[i].ack_num)
    <3> TAKE i \in 1 .. Len(ack_net')
    <3>1. /\ i + 1 \in 1 .. n /\ i \in 1 .. n - 1 /\ ack_net'[i] = ack_net[i + 1]
      BY SMTT(30), <1>14
    <3>2. ack.ack_num <= ack_net[i + 1].ack_num /\ ack_net[i + 1].ack_num \in Nat
      BY SMTT(30), <1>6, <1>7, <3>1
    <3>3. Boundary(w, ack_net[i + 1].ack_num)
      BY SMTT(30), <1>2, <3>1 DEF Boundaries
    <3> QED BY <1>11, <3>1, <3>2, <3>3
  <2> QED BY <1>3, <1>4, <2>1, <2>2 DEF Boundaries
<1>17. SegmentInv'
  BY <1>3, <1>4, <1>8, <1>11, <1>12, <1>13, <1>15, <1>16 DEF SegmentInv, NoAbort
<1>18. Accounting'
  <2>1. NextSum(send_window') = NextSum(send_window)
    BY SMTT(30), <1>3, <1>11
  <2> QED BY <1>2, <1>4, <2>1 DEF Accounting, FinRegistered
<1>19. FinSegment'
  <2>1. FinRegistered => \/ InWindow(v, MakeFinPacket(fin_seq))
                         \/ fin_seq + 1 <= v.send_base
    <3> SUFFICES ASSUME FinRegistered
                 PROVE  InWindow(v, MakeFinPacket(fin_seq)) \/ fin_seq + 1 <= v.send_base
      OBVIOUS
    <3>1. MakeFinPacket(fin_seq).seq = fin_seq /\ MakeFinPacket(fin_seq).len = 1
      BY DEF MakeFinPacket
    <3>2. CASE InWindow(w, MakeFinPacket(fin_seq))
      BY <1>11, <3>1, <3>2
    <3>3. CASE fin_seq + 1 <= w.send_base
      <4>1. w.send_base \in Nat /\ fin_seq \in Nat /\ v.send_base \in Nat
        BY Zenon, <1>1, <1>6, <1>11
      <4>2. w.send_base <= v.send_base
        BY Zenon, <1>7, <1>11
      <4>3. fin_seq + 1 <= v.send_base
        BY <3>3, <4>1, <4>2
      <4> QED BY <4>3
    <3> QED BY <1>2, <3>2, <3>3 DEF FinSegment
  <2>2. NextSum(send_window') = NextSum(send_window)
    BY <1>3, <1>11
  <2> QED BY <1>2, <1>3, <1>4, <1>13, <2>1, <2>2 DEF FinSegment, FinRegistered
<1> QED BY <1>17, <1>18, <1>19, InvPartsPrime

=============================================================================
