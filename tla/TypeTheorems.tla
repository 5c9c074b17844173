---------------------------- MODULE TypeTheorems ----------------------------
(***************************************************************************)
(* Every state of TcpTransfer is well typed, for every value of the        *)
(* constants: any modulus, any buffer and packet sizes, any number of      *)
(* losses, and with or without a second application thread.                *)
(***************************************************************************)
EXTENDS TcpTransfer, WindowTheorems

\* The connection starts well typed.
LEMMA InitTypeInv == Init => TypeInv
<1> SUFFICES ASSUME Init PROVE TypeInv
  OBVIOUS
<1>1. NewSendWindow(Isn, U16(RecvBufferSize)) \in SendWindowType
  <2>1. U16(RecvBufferSize) \in UInt32
    BY TransferAssumption, U16Type, UInt16IsUInt32
  <2> QED BY <2>1, TransferAssumption, ModAssumption, MaxDupAssumption, EmptySeq
          DEF NewSendWindow, SendWindowType, UInt32
<1>2. NewRecvWindow(Isn) \in RecvWindowType
  BY TransferAssumption DEF NewRecvWindow, RecvWindowType
<1>3. 0 \in UInt32 /\ 0 \in 0 .. MaxLosses /\ MaxDupOrigin \in 1 .. MaxDupCap
  BY TransferAssumption, ModAssumption, MaxDupAssumption DEF UInt32
<1>4. <<>> \in Seq(Nat) /\ <<>> \in Seq(Segment) /\ <<>> \in Seq(Ack)
  BY EmptySeq
<1>5. sender # "send"
  BY DEF Init
<1> QED BY Zenon, <1>1, <1>2, <1>3, <1>4, <1>5 DEF Init, TypeInv, TypeOK, BatchInBuffer

\* The application's calls keep the types.
LEMMA ApplicationType == TypeInv /\ Application => TypeInv'
<1> SUFFICES ASSUME TypeInv, Application PROVE TypeInv'
  OBVIOUS
<1> USE DEF TypeInv, TypeOK, BatchInBuffer, sendVars, winVars, ctlVars, recvVars, netVars
<1>1. ASSUME NEW n \in WriteSizes, StartWrite(n) PROVE TypeInv'
  <2>1. n \in Nat
    BY TransferAssumption
  <2> QED BY <1>1, <2>1 DEF StartWrite
<1>2. CASE WriteData
  <2> DEFINE n == Min({writing, SendBufferSize - Len(send_buffer)})
             new == [i \in 1 .. n |-> written + i]
  <2>1. SendBufferSize - Len(send_buffer) \in Nat
    BY <1>2, TransferAssumption, LenProperties DEF WriteData
  <2>2. n \in Nat
    BY Zenon, <2>1, MinOfTwo
  <2> HIDE DEF n
  <2>3. new \in Seq(Nat)
    BY <2>2
  <2>4. send_buffer' = send_buffer \o new /\ written' = written + n
    BY <1>2 DEF WriteData, n
  <2> HIDE DEF new
  <2>5. send_buffer' \in Seq(Nat) /\ written' \in Nat
    BY <2>2, <2>3, <2>4, ConcatProperties
  <2>6. sender # "send" /\ sender' = sender
    BY <1>2 DEF WriteData, SendBufferLocked
  <2>7. /\ writing' = 0
        /\ UNCHANGED <<size_to_send, winVars, ctlVars, recvVars, netVars, aborted>>
    BY <1>2 DEF WriteData
  <2> QED BY <2>5, <2>6, <2>7
<1>3. CASE ShutDown
  BY <1>3 DEF ShutDown
<1> QED BY <1>1, <1>2, <1>3 DEF Application

\* SendBufferListener keeps the types, and the batch stays in the buffer.
LEMMA SenderType == TypeInv /\ Sender => TypeInv'
<1> SUFFICES ASSUME TypeInv, Sender PROVE TypeInv'
  OBVIOUS
<1> USE DEF TypeInv, TypeOK, BatchInBuffer, sendVars, winVars, ctlVars, recvVars, netVars
<1>1. CASE WaitForWindow
  BY <1>1 DEF WaitForWindow
<1>2. CASE NoRoomAnyMore
  <2>1. prober_timer' \in BOOLEAN
    BY <1>2 DEF NoRoomAnyMore
  <2> QED BY <1>2, <2>1 DEF NoRoomAnyMore
<1>3. CASE StartBatch
  <2>1. FreeSpace(send_window) \in Nat /\ Len(send_buffer) \in Nat
    BY SendWindowFields, LenProperties
  <2>2. FreeSpace(send_window) > 0 /\ Len(send_buffer) > 0
    BY <1>3, <2>1, EmptySeq DEF StartBatch
  <2>3. size_to_send' = Min({FreeSpace(send_window), Len(send_buffer)})
    BY <1>3 DEF StartBatch
  <2>4. size_to_send' \in 1 .. Len(send_buffer)
    <3> HIDE DEF TypeInv
    <3> QED BY <2>1, <2>2, <2>3, MinOfTwo
  <2> QED BY <1>3, <2>1, <2>4 DEF StartBatch
<1>4. CASE SendDataPacket
  <2> DEFINE n == Min({PacketSize, size_to_send})
             bytes == SubSeq(send_buffer, 1, n)
             p == MakeDataPacket(NextSeqNumberToSend(send_window), bytes)
             r == SendPacket(send_window, p)
             rest == SubSeq(send_buffer, n + 1, Len(send_buffer))
  <2>1. Len(send_buffer) \in Nat /\ size_to_send \in 1 .. Len(send_buffer)
    BY <1>4, LenProperties DEF SendDataPacket
  <2>2. n \in 1 .. size_to_send
    <3> HIDE DEF TypeInv
    <3>1. PacketSize \in Nat /\ PacketSize > 0 /\ size_to_send \in Nat
      BY <2>1, TransferAssumption
    <3> QED BY <2>1, <3>1, MinOfTwo
  <2>3. /\ send_buffer' = rest /\ send_window' = r.window
        /\ data_net' = (IF r.ok THEN Append(data_net, p) ELSE data_net)
        /\ timer' = (timer \/ (r.ok /\ NumPacketsToAck(send_window) = 0))
        /\ size_to_send' = size_to_send - n
        /\ sender' = (IF size_to_send = n THEN "window" ELSE "send")
        /\ aborted' = ~r.sane
    BY <1>4, Zenon DEF SendDataPacket
  <2> HIDE DEF n
  <2>4. /\ bytes \in Seq(Nat)
        /\ rest \in Seq(Nat) /\ Len(rest) = Len(send_buffer) - n
    <3>1. \A i \in 1 .. Len(send_buffer) : send_buffer[i] \in Nat
      BY ElementOfSeq
    <3>2. send_buffer \in Seq(Nat)
      OBVIOUS
    <3> HIDE DEF TypeInv
    <3> QED BY <2>1, <2>2, <3>1, <3>2, SubSeqProperties
  <2> HIDE DEF bytes, rest
  <2>5. p \in Segment
    BY <2>4, SendWindowFields, MakeDataPacketType
  <2> HIDE DEF p
  <2>6. r.window \in SendWindowType /\ r.ok \in BOOLEAN /\ r.sane \in BOOLEAN
    BY <2>5, SendPacketType
  <2> HIDE DEF r
  <2>7. data_net' \in Seq(Segment)
    BY <2>3, <2>5, AppendProperties
  <2>8. size_to_send' \in Nat /\ (sender' = "send" => size_to_send' \in 1 .. Len(send_buffer'))
    BY <2>1, <2>2, <2>3, <2>4
  <2>9. timer' \in BOOLEAN /\ aborted' \in BOOLEAN /\ sender' \in {"window", "buffer", "send"}
    BY <2>3, <2>6
  <2>10. send_buffer' \in Seq(Nat) /\ send_window' \in SendWindowType
    BY <2>3, <2>4, <2>6
  <2>11. UNCHANGED <<written, writing, max_duplicated_acks, prober_timer, ctlVars,
                     recvVars, ack_net, losses>>
    BY <1>4 DEF SendDataPacket
  <2> QED BY <2>7, <2>8, <2>9, <2>10, <2>11
<1> QED BY <1>1, <1>2, <1>3, <1>4 DEF Sender

\* The SendFIN task keeps the types.
LEMMA SendFINType == TypeInv /\ SendFIN => TypeInv'
<1> SUFFICES ASSUME TypeInv, SendFIN PROVE TypeInv'
  OBVIOUS
<1> USE DEF TypeInv, TypeOK, BatchInBuffer, sendVars, winVars, ctlVars, recvVars, netVars
<1>1. CASE RegisterFIN
  <2> DEFINE cap == U32(send_window.size + 1)
             w == [send_window EXCEPT !.capacity = cap]
             r == SendPacket(w, MakeFinPacket(NextSeqNumberToSend(w)))
  <2>1. /\ fin_seq' = NextSeqNumberToSend(w)
        /\ send_window' = r.window
        /\ aborted' = ~(r.sane /\ r.ok)
    BY <1>1, Zenon DEF RegisterFIN
  <2>2. cap \in UInt32
    BY SendWindowFields, U32Type
  <2> HIDE DEF cap
  <2>3. w \in SendWindowType
    BY Zenon, <2>2 DEF SendWindowType
  <2> HIDE DEF w
  <2>4. NextSeqNumberToSend(w) \in UInt32
    BY <2>3, SendWindowFields
  <2>5. r.window \in SendWindowType /\ r.sane \in BOOLEAN /\ r.ok \in BOOLEAN
    BY <2>3, <2>4, MakeFinPacketType, SendPacketType
  <2> HIDE DEF r
  <2>6. /\ fin' = "registered"
        /\ UNCHANGED <<state, acker, send_window_empty, sendVars, max_duplicated_acks,
                       timer, prober_timer, recvVars, netVars>>
    BY <1>1 DEF RegisterFIN
  <2> QED BY <2>1, <2>4, <2>5, <2>6
<1>2. CASE EnterFinWait1
  BY <1>2 DEF EnterFinWait1
<1>3. CASE TransmitFIN
  <2>1. data_net' \in Seq(Segment)
    BY <1>3, MakeFinPacketType, AppendProperties DEF TransmitFIN
  <2> QED BY <1>3, <2>1 DEF TransmitFIN
<1>4. CASE StartFinTimers
  BY <1>4 DEF StartFinTimers
<1> QED BY <1>1, <1>2, <1>3, <1>4 DEF SendFIN

\* HandleACK keeps the types: no acknowledgement, fresh, duplicated or stale,
\* makes the window's fields leave their ranges.
LEMMA AckHandlerType == TypeInv /\ AckHandler => TypeInv'
<1> SUFFICES ASSUME TypeInv, AckHandler PROVE TypeInv'
  OBVIOUS
<1> USE DEF TypeInv, TypeOK, BatchInBuffer, sendVars, winVars, ctlVars, recvVars, netVars
<1>1. CASE HandleACK
  <2> DEFINE ack == Head(ack_net)
             r == NewAckedPacket(send_window, max_duplicated_acks, ack.ack_num)
             w == [r.window EXCEPT !.capacity = ack.window_size]
  <2>1. /\ send_window' = w
        /\ max_duplicated_acks' = r.max
        /\ data_net' = (IF r.re_transmit THEN data_net \o BasePacketToReSend(w)
                        ELSE data_net)
        /\ timer' = (NumPacketsToAck(w) > 0)
        /\ prober_timer' = (prober_timer /\ ack.window_size = 0)
        /\ send_window_empty' = (NumPacketsToAck(w) = 0)
        /\ aborted' = ~r.sane
    BY <1>1, Zenon DEF HandleACK
  <2>2. ack \in Ack /\ ack_net' \in Seq(Ack)
    BY <1>1, HeadTailProperties DEF HandleACK
  <2> HIDE DEF ack
  <2>3. ack.ack_num \in UInt32 /\ ack.window_size \in UInt32
    BY <2>2, UInt16IsUInt32 DEF Ack
  <2>4. r.window \in SendWindowType /\ r.max \in 1 .. MaxDupCap /\ r.sane \in BOOLEAN
    BY <2>3, NewAckedPacketType
  <2> HIDE DEF r
  <2>5. w \in SendWindowType
    BY Zenon, <2>3, <2>4 DEF SendWindowType
  <2> HIDE DEF w
  <2>6. data_net' \in Seq(Segment)
    BY <2>1, <2>5, BasePacketType, ConcatProperties
  <2>7. timer' \in BOOLEAN /\ prober_timer' \in BOOLEAN /\ send_window_empty' \in BOOLEAN
    BY <2>1
  <2>8. acker' = "state" /\ UNCHANGED <<fin, fin_seq, state, sendVars, recvVars, losses>>
    BY <1>1 DEF HandleACK
  <2>9. send_window' \in SendWindowType /\ max_duplicated_acks' \in 1 .. MaxDupCap
        /\ aborted' \in BOOLEAN
    BY <2>1, <2>4, <2>5
  <2> QED BY <2>2, <2>6, <2>7, <2>8, <2>9
<1>2. CASE HandleACKState
  <2>1. state' \in {"ESTABLISHED", "FIN_WAIT_1", "FIN_WAIT_2"}
    BY <1>2 DEF HandleACKState
  <2>2. /\ acker' = "idle" /\ send_window_empty' \in BOOLEAN
        /\ UNCHANGED <<fin, fin_seq, sendVars, winVars, recvVars, netVars, aborted>>
    BY Zenon, <1>2 DEF HandleACKState
  <2> QED BY <2>1, <2>2
<1> QED BY <1>1, <1>2 DEF AckHandler

\* The timers and the other connections keep the types.
LEMMA TimersType ==
  TypeInv /\ (TimeoutReTransmitter \/ ProbeWindowSize \/ OtherSendWindow) => TypeInv'
<1> SUFFICES ASSUME TypeInv,
                    TimeoutReTransmitter \/ ProbeWindowSize \/ OtherSendWindow
             PROVE  TypeInv'
  OBVIOUS
<1> USE DEF TypeInv, TypeOK, BatchInBuffer, sendVars, winVars, ctlVars, recvVars, netVars
<1>1. CASE TimeoutReTransmitter
  <2>1. data_net' \in Seq(Segment)
    BY <1>1, BasePacketType, ConcatProperties DEF TimeoutReTransmitter
  <2> QED BY SMTT(30), <1>1, <2>1 DEF TimeoutReTransmitter
<1>2. CASE ProbeWindowSize
  <2>1. MakeDataPacket(NextSeqNumberToSend(send_window), <<>>) \in Segment
    BY Zenon, SendWindowFields, MakeDataPacketType, EmptySeq
  <2>2. data_net' \in Seq(Segment)
    BY <1>2, <2>1, AppendProperties DEF ProbeWindowSize
  <2> QED BY <1>2, <2>2 DEF ProbeWindowSize
<1>3. CASE OtherSendWindow
  <2>1. max_duplicated_acks' \in 1 .. MaxDupCap
    BY <1>3, GrowMaxDupType, MaxDupAssumption DEF OtherSendWindow
  <2> QED BY <1>3, <2>1 DEF OtherSendWindow
<1> QED BY <1>1, <1>2, <1>3

\* Moving an overflowed segment to the receive buffer keeps the types.
LEMMA PushOverflowedType ==
  ASSUME TypeInv, PushOverflowed
  PROVE  recv_buffer' \in Seq(Nat) /\ overflow_pkts' \in Seq(Segment)
<1>1. recv_buffer \in Seq(Nat) /\ overflow_pkts \in Seq(Segment)
  BY DEF TypeInv, TypeOK
<1>2. CASE OverflowFits
  <2>1. Head(overflow_pkts) \in Segment /\ Tail(overflow_pkts) \in Seq(Segment)
    BY <1>1, <1>2, HeadTailProperties DEF OverflowFits
  <2> QED BY <1>1, <1>2, <2>1, SegmentFields, ConcatProperties DEF PushOverflowed
<1>3. CASE ~OverflowFits
  BY SMTT(30), <1>1, <1>3 DEF PushOverflowed
<1> QED BY <1>2, <1>3

\* The packet handler of the receiving endpoint keeps the types.
LEMMA ReceiverType == TypeInv /\ Receiver => TypeInv'
<1> SUFFICES ASSUME TypeInv, Receiver PROVE TypeInv'
  OBVIOUS
<1> USE DEF TypeInv, TypeOK, BatchInBuffer, sendVars, winVars, ctlVars, recvVars, netVars
<1>1. CASE HandleProbe
  <2>1. data_net' \in Seq(Segment)
    BY <1>1, HeadTailProperties DEF HandleProbe
  <2> QED BY <1>1, <2>1 DEF HandleProbe
<1>2. CASE HandlePacket
  <2> DEFINE p == Head(data_net)
             r == ReceivePacket(recv_window, p)
  <2>1. p \in Segment /\ data_net' \in Seq(Segment)
    BY <1>2, HeadTailProperties DEF HandlePacket
  <2>2. recv_window' = r.window /\ nodes' = r.nodes /\ aborted' = ~r.sane
    BY <1>2, Zenon DEF HandlePacket
  <2>3. peer_state' \in {"ESTABLISHED", "CLOSE_WAIT"}
    BY <1>2 DEF HandlePacket
  <2> HIDE DEF p
  <2>4. r.window \in RecvWindowType /\ r.nodes \in Seq(Segment) /\ r.sane \in BOOLEAN
    BY <2>1, ReceivePacketType
  <2> HIDE DEF r
  <2>5. /\ receiver' = "overflow"
        /\ UNCHANGED <<recv_buffer, overflow_pkts, pipe_state, delivered, sendVars,
                       winVars, ctlVars, ack_net, losses>>
    BY <1>2 DEF HandlePacket
  <2> QED BY <2>1, <2>2, <2>3, <2>4, <2>5
<1>3. CASE StreamOverflowed
  <2>1. recv_buffer' \in Seq(Nat) /\ overflow_pkts' \in Seq(Segment)
    BY <1>3, PushOverflowedType DEF StreamOverflowed
  <2>2. receiver' \in {"overflow", "stream"}
    BY <1>3 DEF StreamOverflowed
  <2> QED BY <1>3, <2>1, <2>2 DEF StreamOverflowed
<1>4. CASE StreamDataPacket
  <2> DEFINE p == Head(nodes)
             fits == p.len <= RecvFreeSpace
  <2>1. p \in Segment /\ nodes' \in Seq(Segment)
    BY <1>4, HeadTailProperties DEF StreamDataPacket
  <2>2. /\ recv_buffer' = (IF fits THEN recv_buffer \o p.data ELSE recv_buffer)
        /\ overflow_pkts' = (IF fits THEN overflow_pkts ELSE Append(overflow_pkts, p))
    BY <1>4, Zenon DEF StreamDataPacket
  <2> HIDE DEF p, fits
  <2>3. recv_buffer' \in Seq(Nat) /\ overflow_pkts' \in Seq(Segment)
    BY <2>1, <2>2, SegmentFields, ConcatProperties, AppendProperties
  <2>4. UNCHANGED <<recv_window, receiver, pipe_state, peer_state, delivered, sendVars,
                    winVars, ctlVars, netVars, aborted>>
    BY <1>4 DEF StreamDataPacket
  <2> QED BY <2>1, <2>3, <2>4
<1>5. CASE StreamEnd
  <2>1. pipe_state' \in {"OPEN", "EOF_NOT_CONSUMED", "EOF_CONSUMED"}
    BY <1>5 DEF StreamEnd
  <2>2. nodes' \in Seq(Segment)
    BY <1>5, EmptySeq DEF StreamEnd
  <2> QED BY <1>5, <2>1, <2>2 DEF StreamEnd
<1>6. CASE SendAck
  <2>1. RecvFreeSpace \in Int
    BY TransferAssumption, LenProperties, UInt32Nat DEF RecvFreeSpace
  <2>2. MakeAckPacket(recv_window.recv_base, RecvFreeSpace) \in Ack
    BY <2>1, U16Type, RecvWindowFields DEF MakeAckPacket, Ack
  <2>3. ack_net' \in Seq(Ack)
    BY <1>6, <2>2, AppendProperties DEF SendAck
  <2> QED BY <1>6, <2>3 DEF SendAck
<1> QED BY <1>1, <1>2, <1>3, <1>4, <1>5, <1>6 DEF Receiver

\* The reading application and the receive buffer's own thread keep the types.
LEMMA ReaderType == TypeInv /\ (ReceiveBufferListener \/ Reader) => TypeInv'
<1> SUFFICES ASSUME TypeInv, ReceiveBufferListener \/ Reader PROVE TypeInv'
  OBVIOUS
<1> USE DEF TypeInv, TypeOK, BatchInBuffer, sendVars, winVars, ctlVars, recvVars, netVars
<1>1. CASE ReceiveBufferListener
  <2>1. recv_buffer' \in Seq(Nat) /\ overflow_pkts' \in Seq(Segment)
    BY <1>1, PushOverflowedType DEF ReceiveBufferListener
  <2> QED BY <1>1, <2>1 DEF ReceiveBufferListener
<1>2. ASSUME NEW n \in ReadSizes, ReadData(n) PROVE TypeInv'
  <2> DEFINE len == Len(recv_buffer)
             k == Min({n, len})
             front == SubSeq(recv_buffer, 1, k)
             rest == SubSeq(recv_buffer, k + 1, len)
  <2>1. delivered' = delivered \o front /\ recv_buffer' = rest
    BY <1>2 DEF ReadData
  <2>2. n \in Nat /\ len \in Nat
    BY TransferAssumption, LenProperties
  <2>3. k \in 0 .. len
    <3> HIDE DEF TypeInv, len
    <3> QED BY <2>2, MinOfTwo
  <2>4. recv_buffer \in Seq(Nat) /\ \A i \in 1 .. len : recv_buffer[i] \in Nat
    BY ElementOfSeq
  <2>5. front \in Seq(Nat) /\ rest \in Seq(Nat)
    <3> HIDE DEF TypeInv, k
    <3> QED BY <2>2, <2>3, <2>4, SubSeqProperties
  <2> HIDE DEF front, rest
  <2>6. delivered' \in Seq(Nat) /\ recv_buffer' \in Seq(Nat)
    BY <2>1, <2>5, ConcatProperties
  <2>7. UNCHANGED <<recv_window, receiver, nodes, overflow_pkts, pipe_state, peer_state,
                    sendVars, winVars, ctlVars, netVars, aborted>>
    BY <1>2 DEF ReadData
  <2> QED BY <2>6, <2>7
<1>3. CASE ReadEOF
  BY <1>3 DEF ReadEOF
<1> QED BY <1>1, <1>2, <1>3 DEF Reader

\* Losing a segment keeps the types.
LEMMA ChannelType == TypeInv /\ Channel => TypeInv'
<1> SUFFICES ASSUME TypeInv, Channel PROVE TypeInv'
  OBVIOUS
<1> USE DEF TypeInv, TypeOK, BatchInBuffer, sendVars, winVars, ctlVars, recvVars, netVars
<1>1. CASE LoseData
  <2>1. data_net' \in Seq(Segment) /\ losses' \in 0 .. MaxLosses
    BY <1>1, HeadTailProperties, TransferAssumption DEF LoseData
  <2> QED BY <1>1, <2>1 DEF LoseData
<1>2. CASE LoseAck
  <2>1. ack_net' \in Seq(Ack) /\ losses' \in 0 .. MaxLosses
    BY <1>2, HeadTailProperties, TransferAssumption DEF LoseAck
  <2> QED BY <1>2, <2>1 DEF LoseAck
<1> QED BY <1>1, <1>2 DEF Channel

\* Every step of TcpTransfer keeps the types.
LEMMA NextTypeInv == TypeInv /\ [Next]_vars => TypeInv'
<1>1. TypeInv /\ UNCHANGED vars => TypeInv'
  BY DEF TypeInv, TypeOK, BatchInBuffer, vars, sendVars, winVars, ctlVars, recvVars, netVars
<1> QED BY <1>1, ApplicationType, SenderType, SendFINType, AckHandlerType, TimersType,
           ReceiverType, ReaderType, ChannelType DEF Next

\* The states of the two controllers, of their threads and of the network stay
\* well typed in every behaviour: each field of the two windows stays a uint32
\* and each queue a queue of segments.
THEOREM TypeCorrect == Spec => []TypeOK
<1>1. Spec => []TypeInv
  BY InitTypeInv, NextTypeInv, PTL DEF Spec
<1> QED BY <1>1, PTL DEF TypeInv

=============================================================================
