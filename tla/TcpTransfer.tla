---------------------------- MODULE TcpTransfer -----------------------------
(***************************************************************************)
(* One direction of an established connection, from the WriteData calls of *)
(* the sending application to the ReadData calls of the receiving one      *)
(* (TcpController.cc with SendWindow.cc and RecvWindow.cc), ended by the   *)
(* sender's ShutDown.                                                      *)
(*                                                                         *)
(* Each thread of the two controllers advances by one action per critical  *)
(* section.  A condition-variable wait is the guard of the action that     *)
(* follows it.  The locks a thread keeps from one action to the next are   *)
(* SendWindowLocked, SendBufferLocked and RecvBufferLocked.                *)
(*                                                                         *)
(* The path of a segment (packet send buffer, host queue, channel, host    *)
(* queue, packet receive buffer) is a FIFO queue that may lose segments.   *)
(***************************************************************************)
EXTENDS SendWindow, RecvWindow

CONSTANTS
    Isn,             \* sequence number of the first byte (SYN's number plus 1)
    PacketSize,      \* kDefaultDataPacketSize
    SendBufferSize,  \* options.send_buffer_size
    RecvBufferSize,  \* options.recv_buffer_size
    WriteSizes,      \* sizes of the application's WriteData calls
    ReadSizes,       \* sizes of the application's ReadData calls
    MaxBytes,        \* how many bytes the application writes in all
    MaxLosses,       \* bound: how many segments the channel loses
    NetworkCap,      \* bound: timers fire only below this many segments in flight
    OneAppThread     \* TRUE: no WriteData is in progress when ShutDown is called

ASSUME TransferAssumption ==
    /\ Isn \in UInt32
    /\ PacketSize \in Nat \ {0}
    /\ SendBufferSize \in Nat \ {0}
    /\ RecvBufferSize \in (Nat \ {0}) \cap UInt32
    /\ WriteSizes \subseteq Nat \ {0}
    /\ ReadSizes \subseteq Nat \ {0}
    /\ MaxBytes \in Nat
    /\ MaxLosses \in Nat
    /\ NetworkCap \in Nat
    /\ OneAppThread \in BOOLEAN

VARIABLES
    \* Sending endpoint.
    written,        \* number of bytes WriteData has accepted
    writing,        \* the size of a WriteData call in progress, 0 if none
    send_buffer,    \* bytes accepted and not yet put in a segment
    send_window,
    max_duplicated_acks,
    timer,          \* timer_ is STARTED
    prober_timer,   \* prober_timer_ is STARTED
    sender,         \* where SendBufferListener is: "window", "buffer", "send"
    size_to_send,   \* what is left of the batch SendBufferListener sends
    fin,            \* where the SendFIN task is, "none" before ShutDown
    fin_seq,        \* sequence number of SendFIN's fin_pkt, 0 before it is made
    state,          \* state_ of the sending endpoint
    acker,          \* where HandleACK is: "idle" or "state"
    send_window_empty,  \* HandleACK's local variable of that name
    \* Receiving endpoint.
    recv_window,
    receiver,       \* where its packet handler is: "idle", "overflow", "stream", "ack"
    nodes,          \* in-order segments not yet streamed to the receive buffer
    recv_buffer,
    overflow_pkts,
    pipe_state,
    peer_state,     \* state_ of the receiving endpoint
    delivered,      \* bytes ReadData has returned
    \* Network.
    data_net,       \* segments on the way to the receiver
    ack_net,        \* acknowledgements on the way back
    losses,
    \* A SANITY_CHECK or LogFATAL has ended the program.
    aborted

sendVars == <<written, writing, send_buffer, sender, size_to_send>>
winVars  == <<send_window, max_duplicated_acks, timer, prober_timer>>
ctlVars  == <<fin, fin_seq, state, acker, send_window_empty>>
recvVars == <<recv_window, receiver, nodes, recv_buffer, overflow_pkts,
              pipe_state, peer_state, delivered>>
netVars  == <<data_net, ack_net, losses>>
vars     == <<sendVars, winVars, ctlVars, recvVars, netVars, aborted>>

-----------------------------------------------------------------------------
\* SendBufferListener holds both locks from the moment it has found data and
\* room until its batch is sent.
SendWindowLocked == sender = "send"
SendBufferLocked == sender = "send"

\* StreamDataToReceiveBuffer holds this lock for its whole loop.
RecvBufferLocked == receiver \in {"overflow", "stream"}

\* A failed SANITY_CHECK ends the program.
Running == ~aborted

\* Mutant: the size of the receive buffer, for its free space.
RecvSpace == RecvBufferSize

RecvFreeSpace == RecvBufferSize - Len(recv_buffer)

InClosingState == state \in {"FIN_WAIT_1", "FIN_WAIT_2"}

TypeOK ==
    /\ written \in Nat
    /\ writing \in Nat
    /\ send_buffer \in Seq(Nat)
    /\ send_window \in SendWindowType
    /\ max_duplicated_acks \in 1 .. MaxDupCap
    /\ timer \in BOOLEAN
    /\ prober_timer \in BOOLEAN
    /\ sender \in {"window", "buffer", "send"}
    /\ size_to_send \in Nat
    /\ fin \in {"none", "wait", "registered", "set", "sent", "done"}
    /\ fin_seq \in UInt32
    /\ state \in {"ESTABLISHED", "FIN_WAIT_1", "FIN_WAIT_2"}
    /\ acker \in {"idle", "state"}
    /\ send_window_empty \in BOOLEAN
    /\ recv_window \in RecvWindowType
    /\ receiver \in {"idle", "overflow", "stream", "ack"}
    /\ nodes \in Seq(Segment)
    /\ recv_buffer \in Seq(Nat)
    /\ overflow_pkts \in Seq(Segment)
    /\ pipe_state \in {"OPEN", "EOF_NOT_CONSUMED", "EOF_CONSUMED"}
    /\ peer_state \in {"ESTABLISHED", "CLOSE_WAIT"}
    /\ delivered \in Seq(Nat)
    /\ data_net \in Seq(Segment)
    /\ ack_net \in Seq(Ack)
    /\ losses \in 0 .. MaxLosses
    /\ aborted \in BOOLEAN

\* TypeOK is not inductive: SendBufferListener copies size_to_send bytes out of
\* the send buffer, which is a segment only while that many bytes are there.
BatchInBuffer == sender = "send" => size_to_send \in 1 .. Len(send_buffer)

TypeInv == TypeOK /\ BatchInBuffer

\* Both sides are past the handshake: SYN and SYN_ACK are acknowledged, and the
\* sender has been told the size of the receive buffer, in 16 bits.
Init ==
    /\ written = 0
    /\ writing = 0
    /\ send_buffer = <<>>
    /\ send_window = NewSendWindow(Isn, U16(RecvBufferSize))
    /\ max_duplicated_acks = MaxDupOrigin
    /\ timer = FALSE
    /\ prober_timer = FALSE
    /\ sender = "window"
    /\ size_to_send = 0
    /\ fin = "none"
    /\ fin_seq = 0
    /\ state = "ESTABLISHED"
    /\ acker = "idle"
    /\ send_window_empty = FALSE
    /\ recv_window = NewRecvWindow(Isn)
    /\ receiver = "idle"
    /\ nodes = <<>>
    /\ recv_buffer = <<>>
    /\ overflow_pkts = <<>>
    /\ pipe_state = "OPEN"
    /\ peer_state = "ESTABLISHED"
    /\ delivered = <<>>
    /\ data_net = <<>>
    /\ ack_net = <<>>
    /\ losses = 0
    /\ aborted = FALSE

-----------------------------------------------------------------------------
(* The sending application. *)

\* Mutant: WriteData does not ask whether the socket is shut down.
StartWriteAfterShutDown(n) ==
    /\ Running
    /\ writing = 0
    /\ written + n <= MaxBytes
    /\ writing' = n
    /\ UNCHANGED <<written, send_buffer, sender, size_to_send, winVars, ctlVars,
                   recvVars, netVars, aborted>>

\* Host::WriteData and TcpController::WriteData up to the wait for room.
StartWrite(n) ==
    /\ Running
    /\ writing = 0
    /\ written + n <= MaxBytes
    /\ fin = "none"
    /\ ~InClosingState
    /\ writing' = n
    /\ UNCHANGED <<written, send_buffer, sender, size_to_send, winVars, ctlVars,
                   recvVars, netVars, aborted>>

\* The rest of WriteData: the buffer takes what fits.
WriteData ==
    /\ Running
    /\ writing > 0
    /\ ~SendBufferLocked
    /\ Len(send_buffer) < SendBufferSize
    /\ LET n == Min({writing, SendBufferSize - Len(send_buffer)})
       IN  /\ send_buffer' = send_buffer \o [i \in 1 .. n |-> written + i]
           /\ written' = written + n
    /\ writing' = 0
    /\ UNCHANGED <<sender, size_to_send, winVars, ctlVars, recvVars, netVars, aborted>>

\* Host::ShutDownSocket and TryShutDown: the SendFIN task is queued.
ShutDown ==
    /\ Running
    /\ fin = "none"
    /\ OneAppThread => writing = 0
    /\ ~InClosingState
    /\ fin' = "wait"
    /\ UNCHANGED <<fin_seq, state, acker, send_window_empty, sendVars, winVars, recvVars,
                   netVars, aborted>>

-----------------------------------------------------------------------------
(* SendBufferListener. *)

WaitForWindow ==
    /\ Running
    /\ sender = "window"
    /\ \/ FreeSpace(send_window) > 0
       \/ send_window.capacity = 0 /\ ~prober_timer
    /\ sender' = "buffer"
    /\ UNCHANGED <<written, writing, send_buffer, size_to_send, winVars, ctlVars,
                   recvVars, netVars, aborted>>

\* Mutant: the window prober is not started.
NoRoomNoProber ==
    /\ Running
    /\ sender = "buffer"
    /\ send_buffer # <<>>
    /\ FreeSpace(send_window) = 0
    /\ sender' = "window"
    /\ UNCHANGED <<written, writing, send_buffer, size_to_send, winVars, ctlVars,
                   recvVars, netVars, aborted>>

\* Data is there, but an acknowledgement has closed the window meanwhile.
NoRoomAnyMore ==
    /\ Running
    /\ sender = "buffer"
    /\ send_buffer # <<>>
    /\ FreeSpace(send_window) = 0
    /\ sender' = "window"
    /\ prober_timer' = (prober_timer \/ send_window.capacity = 0)
    /\ UNCHANGED <<written, writing, send_buffer, size_to_send, send_window,
                   max_duplicated_acks, timer, ctlVars, recvVars, netVars, aborted>>

StartBatch ==
    /\ Running
    /\ sender = "buffer"
    /\ send_buffer # <<>>
    /\ FreeSpace(send_window) > 0
    /\ sender' = "send"
    /\ size_to_send' = Min({FreeSpace(send_window), Len(send_buffer)})
    /\ UNCHANGED <<written, writing, send_buffer, winVars, ctlVars, recvVars,
                   netVars, aborted>>

\* One iteration of the loop.  The bytes leave the send buffer even when the
\* window refuses the segment.
SendDataPacket ==
    /\ Running
    /\ sender = "send"
    /\ LET n == Min({PacketSize, size_to_send})
           p == MakeDataPacket(NextSeqNumberToSend(send_window),
                               SubSeq(send_buffer, 1, n))
           r == SendPacket(send_window, p)
       IN  /\ send_buffer' = SubSeq(send_buffer, n + 1, Len(send_buffer))
           /\ send_window' = r.window
           /\ data_net' = IF r.ok THEN Append(data_net, p) ELSE data_net
           /\ timer' = (timer \/ (r.ok /\ NumPacketsToAck(send_window) = 0))
           /\ size_to_send' = size_to_send - n
           /\ sender' = IF size_to_send = n THEN "window" ELSE "send"
           /\ aborted' = ~r.sane
    /\ UNCHANGED <<written, writing, max_duplicated_acks, prober_timer, ctlVars,
                   recvVars, ack_net, losses>>

-----------------------------------------------------------------------------
(* Timers of the sender. *)

InFlight == Len(data_net) + Len(ack_net) + (IF receiver = "idle" THEN 0 ELSE 1)

TimeoutReTransmitter ==
    /\ Running
    /\ timer
    /\ ~SendWindowLocked
    /\ NumPacketsToAck(send_window) > 0
    /\ InFlight < NetworkCap
    /\ data_net' = data_net \o BasePacketToReSend(send_window)
    /\ UNCHANGED <<sendVars, winVars, ctlVars, recvVars, ack_net, losses, aborted>>

ProbeWindowSize ==
    /\ Running
    /\ prober_timer
    /\ ~SendWindowLocked
    /\ send_window.capacity = 0
    /\ InFlight < NetworkCap
    /\ data_net' = Append(data_net,
                          MakeDataPacket(NextSeqNumberToSend(send_window), <<>>))
    /\ UNCHANGED <<sendVars, winVars, ctlVars, recvVars, ack_net, losses, aborted>>

\* max_duplicated_acks is a global of SendWindow.cc, without a lock: the send
\* windows of other connections of the process reset it and let it grow.
OtherSendWindow ==
    /\ Running
    /\ max_duplicated_acks' \in {MaxDupOrigin, GrowMaxDup(max_duplicated_acks)}
    /\ UNCHANGED <<sendVars, send_window, timer, prober_timer, ctlVars, recvVars,
                   netVars, aborted>>

-----------------------------------------------------------------------------
(* SendFIN, a task of its own. *)

\* The FIN enters the send window; the window is widened to let it in.
RegisterFIN ==
    /\ Running
    /\ fin = "wait"
    /\ ~SendBufferLocked
    /\ send_buffer = <<>>
    /\ LET w == [send_window EXCEPT !.capacity = U32(send_window.size + 1)]
           r == SendPacket(w, MakeFinPacket(NextSeqNumberToSend(w)))
       IN  /\ fin_seq' = NextSeqNumberToSend(w)
           /\ send_window' = r.window
           /\ aborted' = ~(r.sane /\ r.ok)
    /\ fin' = "registered"
    /\ UNCHANGED <<state, acker, send_window_empty, sendVars, max_duplicated_acks,
                   timer, prober_timer, recvVars, netVars>>

EnterFinWait1 ==
    /\ Running
    /\ fin = "registered"
    /\ state = "ESTABLISHED"
    /\ state' = "FIN_WAIT_1"
    /\ fin' = "set"
    /\ UNCHANGED <<fin_seq, acker, send_window_empty, sendVars, winVars, recvVars, netVars,
                   aborted>>

TransmitFIN ==
    /\ Running
    /\ fin = "set"
    /\ data_net' = Append(data_net, MakeFinPacket(fin_seq))
    /\ fin' = "sent"
    /\ UNCHANGED <<fin_seq, state, acker, send_window_empty, sendVars, winVars, recvVars,
                   ack_net, losses, aborted>>

\* Mutant: SendFIN does not start the retransmission timer.
StartFinTimerOnly ==
    /\ Running
    /\ fin = "sent"
    /\ fin' = "done"
    /\ UNCHANGED <<fin_seq, state, acker, send_window_empty, sendVars, winVars,
                   recvVars, netVars, aborted>>

StartFinTimers ==
    /\ Running
    /\ fin = "sent"
    /\ timer' = TRUE
    /\ fin' = "done"
    /\ UNCHANGED <<fin_seq, state, acker, send_window_empty, sendVars, send_window,
                   max_duplicated_acks, prober_timer, recvVars, netVars, aborted>>

-----------------------------------------------------------------------------
(* HandleACK on the sending endpoint, in its two critical sections. *)

\* Under the send window's lock.
HandleACK ==
    /\ Running
    /\ acker = "idle"
    /\ ack_net # <<>>
    /\ ~SendWindowLocked
    /\ LET ack == Head(ack_net)
           r   == NewAckedPacket(send_window, max_duplicated_acks, ack.ack_num)
           w   == [r.window EXCEPT !.capacity = ack.window_size]
       IN  /\ send_window' = w
           /\ max_duplicated_acks' = r.max
           /\ data_net' = IF r.re_transmit
                          THEN data_net \o BasePacketToReSend(w)
                          ELSE data_net
           /\ timer' = (NumPacketsToAck(w) > 0)
           /\ prober_timer' = (prober_timer /\ ack.window_size = 0)
           /\ send_window_empty' = (NumPacketsToAck(w) = 0)
           /\ aborted' = ~r.sane
    /\ ack_net' = Tail(ack_net)
    /\ acker' = "state"
    /\ UNCHANGED <<fin, fin_seq, state, sendVars, recvVars, losses>>

\* Under the state's lock, with the emptiness read before the send window's
\* lock was released.
HandleACKState ==
    /\ Running
    /\ acker = "state"
    /\ state' = IF state = "FIN_WAIT_1" /\ send_window_empty THEN "FIN_WAIT_2"
                ELSE state
    /\ acker' = "idle"
    /\ send_window_empty' = FALSE
    /\ UNCHANGED <<fin, fin_seq, sendVars, winVars, recvVars, netVars, aborted>>

-----------------------------------------------------------------------------
(* The packet handler of the receiving endpoint. *)

\* HandleDataPacket of a zero-size segment: only an acknowledgement.
HandleProbe ==
    /\ Running
    /\ receiver = "idle"
    /\ data_net # <<>>
    /\ Head(data_net).len = 0
    /\ receiver' = "ack"
    /\ data_net' = Tail(data_net)
    /\ UNCHANGED <<recv_window, nodes, recv_buffer, overflow_pkts, pipe_state,
                   peer_state, delivered, sendVars, winVars, ctlVars, ack_net,
                   losses, aborted>>

\* HandleDataPacket or HandleFIN up to StreamDataToReceiveBuffer.  A FIN
\* changes the state whether or not it is in order.
HandlePacket ==
    /\ Running
    /\ receiver = "idle"
    /\ data_net # <<>>
    /\ Head(data_net).len > 0
    /\ LET r == ReceivePacket(recv_window, Head(data_net))
       IN  /\ recv_window' = r.window
           /\ nodes' = r.nodes
           /\ aborted' = ~r.sane
    /\ peer_state' = IF Head(data_net).fin THEN "CLOSE_WAIT" ELSE peer_state
    /\ receiver' = "overflow"
    /\ data_net' = Tail(data_net)
    /\ UNCHANGED <<recv_buffer, overflow_pkts, pipe_state, delivered, sendVars,
                   winVars, ctlVars, ack_net, losses>>

OverflowFits == overflow_pkts # <<>> /\ Head(overflow_pkts).len <= RecvFreeSpace

\* One iteration of PushOverflowedPacketsToSocketBuffer.
PushOverflowed ==
    /\ recv_buffer' = IF OverflowFits THEN recv_buffer \o Head(overflow_pkts).data
                      ELSE recv_buffer
    /\ overflow_pkts' = IF OverflowFits THEN Tail(overflow_pkts) ELSE overflow_pkts

StreamOverflowed ==
    /\ Running
    /\ receiver = "overflow"
    /\ PushOverflowed
    /\ receiver' = IF OverflowFits THEN "overflow" ELSE "stream"
    /\ UNCHANGED <<recv_window, nodes, pipe_state, peer_state, delivered, sendVars,
                   winVars, ctlVars, netVars, aborted>>

\* One iteration of StreamDataToReceiveBuffer's loop; a FIN ends it.
StreamDataPacket ==
    /\ Running
    /\ receiver = "stream"
    /\ nodes # <<>>
    /\ ~Head(nodes).fin
    /\ LET fits == Head(nodes).len <= RecvFreeSpace
       IN  /\ recv_buffer' = IF fits THEN recv_buffer \o Head(nodes).data
                             ELSE recv_buffer
           /\ overflow_pkts' = IF fits THEN overflow_pkts
                               ELSE Append(overflow_pkts, Head(nodes))
    /\ nodes' = Tail(nodes)
    /\ UNCHANGED <<recv_window, receiver, pipe_state, peer_state, delivered, sendVars,
                   winVars, ctlVars, netVars, aborted>>

StreamEnd ==
    /\ Running
    /\ receiver = "stream"
    /\ nodes # <<>> => Head(nodes).fin
    /\ pipe_state' = IF nodes # <<>> THEN "EOF_NOT_CONSUMED" ELSE pipe_state
    /\ nodes' = <<>>
    /\ receiver' = "ack"
    /\ UNCHANGED <<recv_window, recv_buffer, overflow_pkts, peer_state, delivered,
                   sendVars, winVars, ctlVars, netVars, aborted>>

\* MakeAckPacket reads the free space anew.
SendAck ==
    /\ Running
    /\ receiver = "ack"
    /\ ack_net' = Append(ack_net, MakeAckPacket(recv_window.recv_base, RecvFreeSpace))
    /\ receiver' = "idle"
    /\ UNCHANGED <<recv_window, nodes, recv_buffer, overflow_pkts, pipe_state,
                   peer_state, delivered, sendVars, winVars, ctlVars, data_net,
                   losses, aborted>>

\* One pass of the ReceiveBufferListener thread.
ReceiveBufferListener ==
    /\ Running
    /\ ~RecvBufferLocked
    /\ RecvFreeSpace > 0
    /\ PushOverflowed
    /\ UNCHANGED <<recv_window, receiver, nodes, pipe_state, peer_state, delivered,
                   sendVars, winVars, ctlVars, netVars, aborted>>

-----------------------------------------------------------------------------
(* The receiving application.  It stops reading at the end of the stream, as *)
(* ReadData demands.                                                         *)

ReadData(n) ==
    /\ Running
    /\ ~RecvBufferLocked
    /\ recv_buffer # <<>>
    /\ LET k == Min({n, Len(recv_buffer)})
       IN  /\ delivered' = delivered \o SubSeq(recv_buffer, 1, k)
           /\ recv_buffer' = SubSeq(recv_buffer, k + 1, Len(recv_buffer))
    /\ UNCHANGED <<recv_window, receiver, nodes, overflow_pkts, pipe_state, peer_state,
                   sendVars, winVars, ctlVars, netVars, aborted>>

\* Mutant: the end of the stream is reported before the buffer is empty.
ReadEOFEarly ==
    /\ Running
    /\ ~RecvBufferLocked
    /\ pipe_state = "EOF_NOT_CONSUMED"
    /\ pipe_state' = "EOF_CONSUMED"
    /\ UNCHANGED <<recv_window, receiver, nodes, recv_buffer, overflow_pkts, peer_state,
                   delivered, sendVars, winVars, ctlVars, netVars, aborted>>

ReadEOF ==
    /\ Running
    /\ ~RecvBufferLocked
    /\ recv_buffer = <<>>
    /\ pipe_state = "EOF_NOT_CONSUMED"
    /\ pipe_state' = "EOF_CONSUMED"
    /\ UNCHANGED <<recv_window, receiver, nodes, recv_buffer, overflow_pkts, peer_state,
                   delivered, sendVars, winVars, ctlVars, netVars, aborted>>

-----------------------------------------------------------------------------
(* The channel drops a segment (BaseChannel::Send). *)

LoseData ==
    /\ Running
    /\ losses < MaxLosses
    /\ data_net # <<>>
    /\ data_net' = Tail(data_net)
    /\ losses' = losses + 1
    /\ UNCHANGED <<sendVars, winVars, ctlVars, recvVars, ack_net, aborted>>

LoseAck ==
    /\ Running
    /\ losses < MaxLosses
    /\ ack_net # <<>>
    /\ ack_net' = Tail(ack_net)
    /\ losses' = losses + 1
    /\ UNCHANGED <<sendVars, winVars, ctlVars, recvVars, data_net, aborted>>

-----------------------------------------------------------------------------
Application ==
    \/ \E n \in WriteSizes : StartWrite(n)
    \/ WriteData
    \/ ShutDown

Sender ==
    \/ WaitForWindow
    \/ NoRoomAnyMore
    \/ StartBatch
    \/ SendDataPacket

SendFIN ==
    \/ RegisterFIN
    \/ EnterFinWait1
    \/ TransmitFIN
    \/ StartFinTimers

AckHandler ==
    \/ HandleACK
    \/ HandleACKState

Receiver ==
    \/ HandleProbe
    \/ HandlePacket
    \/ StreamOverflowed
    \/ StreamDataPacket
    \/ StreamEnd
    \/ SendAck

Reader ==
    \/ \E n \in ReadSizes : ReadData(n)
    \/ ReadEOF

Channel ==
    \/ LoseData
    \/ LoseAck

Next ==
    \/ Application
    \/ Sender
    \/ SendFIN
    \/ AckHandler
    \/ TimeoutReTransmitter
    \/ ProbeWindowSize
    \/ OtherSendWindow
    \/ Receiver
    \/ ReceiveBufferListener
    \/ Reader
    \/ Channel

Spec == Init /\ [][Next]_vars

\* Every thread of the program is scheduled again and again, a running timer
\* fires, and the receiving application keeps reading.  Nobody has to write,
\* to shut down or to lose a segment.
Fairness ==
    /\ WF_vars(WriteData)
    /\ WF_vars(Sender)
    /\ WF_vars(SendFIN)
    /\ WF_vars(AckHandler)
    /\ WF_vars(TimeoutReTransmitter)
    /\ WF_vars(ProbeWindowSize)
    /\ WF_vars(Receiver)
    /\ WF_vars(ReceiveBufferListener)
    /\ WF_vars(Reader)

FairSpec == Spec /\ Fairness

-----------------------------------------------------------------------------
(* Properties. *)

\* No SANITY_CHECK and no LogFATAL of the two windows and of SendFIN fires: the
\* window's queue, its size and every acknowledgement agree, and no two
\* segments in the receive window overlap.
NoAbort == ~aborted

\* What ReadData returns is what WriteData took, byte for byte, in order,
\* without gap or repetition, whatever was lost or sent again.
StreamIntegrity ==
    /\ Len(delivered) <= written
    /\ \A i \in 1 .. Len(delivered) : delivered[i] = i

\* Flow control: the bytes sent and not yet read never exceed the receive
\* buffer, so that overflow_pkts_ is never used.
FlowControl ==
    /\ written - Len(send_buffer) - Len(delivered) <= RecvBufferSize
    /\ overflow_pkts = <<>>

\* The reader is told of the end of the stream only when it holds every byte:
\* ReadData returns 0 after the last byte that was written.
EofComplete ==
    pipe_state = "EOF_CONSUMED" => Len(delivered) = written /\ fin # "none"

\* No retransmission, late acknowledgement or duplicate is ever ahead of the
\* receiver or behind the sender: send_base_ <= acknowledgements in the order
\* they travel <= recv_base_ <= next sequence number.
AckChain ==
    LET acks == 1 .. Len(ack_net)
    IN  /\ send_window.send_base <= recv_window.recv_base
        /\ recv_window.recv_base <= NextSeqNumberToSend(send_window)
        /\ \A i \in acks : /\ send_window.send_base <= ack_net[i].ack_num
                           /\ ack_net[i].ack_num <= recv_window.recv_base
        /\ \A i, j \in acks : i < j => ack_net[i].ack_num <= ack_net[j].ack_num

\* A segment that was acknowledged before is acknowledged again and not put in
\* the receive window: what waits there is ahead of every byte streamed so far.
StoredIsAhead ==
    \A i \in 1 .. Len(recv_window.list) :
        LET p == recv_window.list[i]
        IN  p.data # <<>> => p.data[1] > Len(delivered) + Len(recv_buffer)

\* The FIN is the last segment to be sent: no data follows it in the sequence.
FinIsLast ==
    fin \in {"registered", "set", "sent", "done"} =>
        NextSeqNumberToSend(send_window) = U32(fin_seq + 1)

\* A segment is never silently dropped between buffer and network: while
\* something is unacknowledged and nothing is under way, the timer runs.
TimerCovers ==
    /\ NumPacketsToAck(send_window) > 0
    /\ ~SendWindowLocked
    /\ data_net = <<>> /\ ack_net = <<>> /\ receiver = "idle"
    /\ fin \notin {"registered", "set", "sent"}
    => timer

\* No acknowledgement takes back room the receiver has granted: the right edge
\* of the send window only moves forward until the FIN widens it.
RightEdgeKept ==
    [][HandleACK /\ fin \in {"none", "wait"} =>
          send_window'.send_base + send_window'.capacity
            >= send_window.send_base + send_window.capacity]_vars

\* The connection implements a reliable byte stream.
Stream == INSTANCE ByteStream WITH
              sent     <- written,
              received <- delivered,
              closed   <- fin # "none",
              eof      <- pipe_state = "EOF_CONSUMED"

ImplementsByteStream == Stream!StreamSpec

\* Every byte written is read in the end.
AllDelivered ==
    \A n \in 1 .. MaxBytes : written >= n ~> Len(delivered) >= n

\* After ShutDown the reader gets its end of stream.
EofDelivered == fin = "wait" ~> pipe_state = "EOF_CONSUMED"

\* HandleACK enters FIN_WAIT_2 only when the FIN has been acknowledged.
FinWait2MeansAcked ==
    state = "FIN_WAIT_2" => send_window.send_base = U32(fin_seq + 1)
=============================================================================
