----------------------------- MODULE PacketPath -----------------------------
(***************************************************************************)
(* The way of a packet from the connections of one host to those of the    *)
(* other: the send queue and its listener (Host.cc), the channel with its  *)
(* losses and its thread (BaseChannel.cc), the receive queue, and the      *)
(* demultiplexing of its packets (Host.cc).                                *)
(*                                                                         *)
(* A packet is its connection, its kind and its number among the packets   *)
(* to that connection.  PacketQueue is used through what it promises:      *)
(* Push and DeQueueAllTo are atomic.                                       *)
(***************************************************************************)
EXTENDS Integers, Sequences, SequencesExt

CONSTANTS
    Keys,          \* the connections that packets are sent to
    Scenarios,     \* what the receiving host has, and what happens
    MaxSent        \* bound: how many packets are sent

AllKinds == {"SYN", "RST", "other"}

\* open: the connections that the receiving host has from the start; listened:
\* those whose port somebody listens on; kinds: the packets that are sent;
\* deletes: connections are deleted; closes: the channel is destroyed;
\* max_losses: how many packets the channel drops; max_files: how many open files
\* the receiving host can make.
Scenario == [open : SUBSET Keys, listened : SUBSET Keys, kinds : SUBSET AllKinds,
             deletes : BOOLEAN, closes : BOOLEAN, max_losses : Nat, max_files : Nat]

ASSUME PathAssumption == Scenarios \subseteq Scenario /\ MaxSent \in Nat

VARIABLES
    scenario,
    send_pkt_queue,        \* of the sending host
    sending,               \* the packets in BaseChannel::Send
    pkt_buffer,            \* of the channel
    channel,               \* the life of the channel
    callback,              \* it has a receiver
    listner,               \* its thread
    moving,                \* the packets in the callback
    recv_pkt_queue,        \* of the receiving host
    new_packets, todo,     \* in DemultiplexPacketsToTcps, and the iterations left
    creating,              \* HandleNewConnection has returned true
    connections,           \* what each connection was given
    files,                 \* open files made
    rsts,                  \* rsts[k]: the RSTs sent back to connection k
    sent, lost             \* packets sent to, and dropped of, each connection

link == <<pkt_buffer, channel, callback, listner, moving>>
demux == <<new_packets, todo, creating, connections, files, rsts>>
vars == <<scenario, send_pkt_queue, sending, link, recv_pkt_queue, demux, sent, lost>>

Packet == [key : Keys, kind : AllKinds, n : 1 .. MaxSent]

TypeOK ==
    /\ scenario \in Scenarios
    /\ {send_pkt_queue, sending, pkt_buffer, moving, recv_pkt_queue, new_packets}
           \subseteq Seq(Packet)
    /\ channel \in {"new", "started", "stopping", "stopped", "gone"}
    /\ callback \in BOOLEAN
    /\ listner \in {"none", "loop", "dequeue", "callback", "ended"}
    /\ todo \in 0 .. Len(new_packets)
    /\ creating \in BOOLEAN
    /\ DOMAIN connections \subseteq Keys
    /\ \A k \in DOMAIN connections : connections[k] \in Seq(Packet)
    /\ files \in 0 .. scenario.max_files
    /\ rsts \in [Keys -> Nat]
    /\ sent \in [Keys -> 0 .. MaxSent] /\ lost \in [Keys -> 0 .. MaxSent]

Init ==
    /\ scenario \in Scenarios
    /\ send_pkt_queue = <<>> /\ sending = <<>>
    /\ pkt_buffer = <<>> /\ channel = "new" /\ callback = FALSE
    /\ listner = "none" /\ moving = <<>>
    /\ recv_pkt_queue = <<>> /\ new_packets = <<>> /\ todo = 0 /\ creating = FALSE
    /\ connections = [k \in scenario.open |-> <<>>]
    /\ files = 0
    /\ rsts = [k \in Keys |-> 0]
    /\ sent = [k \in Keys |-> 0] /\ lost = [k \in Keys |-> 0]

Total(f) == FoldFunction(+, 0, f)

\* The packets to connection k among those of s.
To(k, s) == SelectSeq(s, LAMBDA pkt : pkt.key = k)

-----------------------------------------------------------------------------
(* The sending host. *)

\* A connection hands a packet to its host.
MultiplexPacketsFromTcp(k) ==
    \E kind \in scenario.kinds :
        /\ Total(sent) < MaxSent
        /\ sent' = [sent EXCEPT ![k] = @ + 1]
        /\ send_pkt_queue' = Append(send_pkt_queue, [key |-> k, kind |-> kind, n |-> sent[k] + 1])
        /\ UNCHANGED <<scenario, sending, link, recv_pkt_queue, demux, lost>>

PacketsSendListener ==
    /\ sending = <<>> /\ send_pkt_queue # <<>>
    /\ sending' = send_pkt_queue
    /\ send_pkt_queue' = <<>>
    /\ UNCHANGED <<scenario, link, recv_pkt_queue, demux, sent, lost>>

-----------------------------------------------------------------------------
(* The channel. *)

RegisterReceiverCallback ==
    /\ ~callback
    /\ callback' = TRUE
    /\ UNCHANGED <<scenario, send_pkt_queue, sending, pkt_buffer, channel, listner,
                   moving, recv_pkt_queue, demux, sent, lost>>

\* main starts the channels when they have their receivers.
Start ==
    /\ channel = "new" /\ callback
    /\ channel' = "started"
    /\ listner' = "loop"
    /\ UNCHANGED <<scenario, send_pkt_queue, sending, pkt_buffer, callback, moving,
                   recv_pkt_queue, demux, sent, lost>>

\* Mutant: the packets come out in the opposite order.
KeptReversed(s, places) ==
    LET order == SetToSortSeq(places, >) IN [i \in DOMAIN order |-> s[order[i]]]

\* The packets at these places of s.
Kept(s, places) ==
    LET order == SetToSortSeq(places, <) IN [i \in DOMAIN order |-> s[order[i]]]

\* BaseChannel::Send of a queue drops some of the packets.
Send ==
    \E places \in SUBSET DOMAIN sending :
        /\ sending # <<>> /\ channel # "gone"
        /\ lost' = [k \in Keys |->
                       lost[k] + Len(To(k, Kept(sending, DOMAIN sending \ places)))]
        /\ Total(lost') <= scenario.max_losses
        /\ pkt_buffer' = pkt_buffer \o Kept(sending, places)
        /\ sending' = <<>>
        /\ UNCHANGED <<scenario, send_pkt_queue, channel, callback, listner, moving,
                       recv_pkt_queue, demux, sent>>

\* WaitingForPackets looks at stop_.
WaitingForPackets ==
    /\ listner = "loop"
    /\ listner' = IF channel = "started" THEN "dequeue" ELSE "ended"
    /\ UNCHANGED <<scenario, send_pkt_queue, sending, pkt_buffer, channel, callback,
                   moving, recv_pkt_queue, demux, sent, lost>>

\* Mutant: the packets stay in the buffer.
DeQueueAllCopy ==
    /\ listner = "dequeue" /\ channel # "stopped"
    /\ pkt_buffer # <<>>
    /\ moving' = pkt_buffer
    /\ listner' = "callback"
    /\ UNCHANGED <<scenario, send_pkt_queue, sending, pkt_buffer, channel, callback,
                   recv_pkt_queue, demux, sent, lost>>

\* pkt_buffer_.DeQueueAllTo returns packets ...
DeQueueAll ==
    /\ listner = "dequeue" /\ channel # "stopped"
    /\ pkt_buffer # <<>>
    /\ moving' = pkt_buffer
    /\ pkt_buffer' = <<>>
    /\ listner' = "callback"
    /\ UNCHANGED <<scenario, send_pkt_queue, sending, channel, callback,
                   recv_pkt_queue, demux, sent, lost>>

\* ... or nothing, when the buffer is stopped.
DeQueueNothing ==
    /\ listner = "dequeue" /\ channel = "stopped"
    /\ listner' = "loop"
    /\ UNCHANGED <<scenario, send_pkt_queue, sending, pkt_buffer, channel, callback,
                   moving, recv_pkt_queue, demux, sent, lost>>

\* The callback, MovePacketsFromChannel.
MovePacketsFromChannel ==
    /\ listner = "callback"
    /\ recv_pkt_queue' = IF callback THEN recv_pkt_queue \o moving ELSE recv_pkt_queue
    /\ moving' = <<>>
    /\ listner' = "loop"
    /\ UNCHANGED <<scenario, send_pkt_queue, sending, pkt_buffer, channel, callback,
                   demux, sent, lost>>

\* The destructor sets stop_, ...
StoreStop ==
    /\ scenario.closes /\ channel = "started"
    /\ channel' = "stopping"
    /\ UNCHANGED <<scenario, send_pkt_queue, sending, pkt_buffer, callback, listner,
                   moving, recv_pkt_queue, demux, sent, lost>>

\* ... stops the buffer ...
StopBuffer ==
    /\ channel = "stopping"
    /\ channel' = "stopped"
    /\ UNCHANGED <<scenario, send_pkt_queue, sending, pkt_buffer, callback, listner,
                   moving, recv_pkt_queue, demux, sent, lost>>

Joined == listner = "ended"

\* ... and joins it.  What the channel holds is gone.
Destroy ==
    /\ channel = "stopped"
    /\ Joined
    /\ channel' = "gone"
    /\ pkt_buffer' = <<>>
    /\ lost' = [k \in Keys |-> lost[k] + Len(To(k, pkt_buffer))]
    /\ UNCHANGED <<scenario, send_pkt_queue, sending, callback, listner, moving,
                   recv_pkt_queue, demux, sent>>

-----------------------------------------------------------------------------
(* The receiving host. *)

\* Mutant: the loop is one packet short.
PacketsReceiveListenerShort ==
    /\ new_packets = <<>> /\ recv_pkt_queue # <<>>
    /\ new_packets' = recv_pkt_queue
    /\ todo' = Len(recv_pkt_queue) - 1
    /\ recv_pkt_queue' = <<>>
    /\ UNCHANGED <<scenario, send_pkt_queue, sending, link, creating, connections,
                   files, rsts, sent, lost>>

\* The loop has one iteration for each packet.
PacketsReceiveListener ==
    /\ new_packets = <<>> /\ recv_pkt_queue # <<>>
    /\ new_packets' = recv_pkt_queue
    /\ todo' = Len(recv_pkt_queue)
    /\ recv_pkt_queue' = <<>>
    /\ UNCHANGED <<scenario, send_pkt_queue, sending, link, creating, connections,
                   files, rsts, sent, lost>>

\* After the last one new_packets goes out of scope, and what is in it is gone.
ForgetRest ==
    /\ todo = 0 /\ new_packets # <<>>
    /\ new_packets' = <<>>
    /\ UNCHANGED <<scenario, send_pkt_queue, sending, link, recv_pkt_queue, todo,
                   creating, connections, files, rsts, sent, lost>>

\* An iteration ends with these packets left.
Iterated(left) ==
    /\ todo' = todo - 1
    /\ new_packets' = left

FrontPacket == Head(new_packets)

Given(k, pkt) == [connections EXCEPT ![k] = Append(@, pkt)]

\* DemultiplexPacketsToTcps finds the connection, or has made it.
Demultiplex ==
    /\ todo > 0
    /\ FrontPacket.key \in DOMAIN connections
    /\ connections' = Given(FrontPacket.key, FrontPacket)
    /\ creating' = FALSE
    /\ Iterated(Tail(new_packets))
    /\ UNCHANGED <<scenario, send_pkt_queue, sending, link, recv_pkt_queue, files,
                   rsts, sent, lost>>

\* HandleNewConnection may make a connection, which gets a copy of the packet.
IsNew ==
    /\ FrontPacket.kind = "SYN" /\ FrontPacket.key \in scenario.listened
    /\ files < scenario.max_files

HandleNewConnection ==
    /\ todo > 0 /\ ~creating
    /\ FrontPacket.key \notin DOMAIN connections
    /\ IsNew
    /\ connections' = [k \in DOMAIN connections \cup {FrontPacket.key} |->
                           IF k = FrontPacket.key THEN <<FrontPacket>> ELSE connections[k]]
    /\ creating' = TRUE
    /\ files' = files + 1
    /\ UNCHANGED <<scenario, send_pkt_queue, sending, link, recv_pkt_queue,
                   new_packets, todo, rsts, sent, lost>>

\* Mutant: it answers the RSTs and nothing else.
RstsAnswered(pkt) ==
    [rsts EXCEPT ![pkt.key] = IF pkt.kind = "RST" THEN @ + 1 ELSE @]

RstsAfter(pkt) ==
    [rsts EXCEPT ![pkt.key] = IF pkt.kind = "RST" THEN @ ELSE @ + 1]

\* Nobody wants it: SendBackRST, unless it is an RST.  The packet stays in
\* front.
SendBackRST ==
    /\ todo > 0
    /\ FrontPacket.key \notin DOMAIN connections
    /\ ~IsNew
    /\ rsts' = RstsAfter(FrontPacket)
    /\ Iterated(new_packets)
    /\ UNCHANGED <<scenario, send_pkt_queue, sending, link, recv_pkt_queue,
                   creating, connections, files, sent, lost>>

\* SocketConnect makes a connection.
SocketConnect(k) ==
    /\ k \notin DOMAIN connections \cup scenario.listened
    /\ files < scenario.max_files
    /\ connections' = [x \in DOMAIN connections \cup {k} |->
                           IF x = k THEN <<>> ELSE connections[x]]
    /\ files' = files + 1
    /\ UNCHANGED <<scenario, send_pkt_queue, sending, link, recv_pkt_queue,
                   new_packets, todo, creating, rsts, sent, lost>>

\* DeleteTcpConnection, seconds after the connection was made.
DeleteTcpConnection(k) ==
    /\ scenario.deletes
    /\ k \in DOMAIN connections
    /\ creating => k # FrontPacket.key
    /\ connections' = [x \in DOMAIN connections \ {k} |-> connections[x]]
    /\ UNCHANGED <<scenario, send_pkt_queue, sending, link, recv_pkt_queue,
                   new_packets, todo, creating, files, rsts, sent, lost>>

-----------------------------------------------------------------------------
ChannelStep == WaitingForPackets \/ DeQueueAll \/ DeQueueNothing \/ MovePacketsFromChannel

DemultiplexPacketsToTcps == Demultiplex \/ HandleNewConnection \/ SendBackRST \/ ForgetRest

Next ==
    \/ \E k \in Keys :
           MultiplexPacketsFromTcp(k) \/ SocketConnect(k) \/ DeleteTcpConnection(k)
    \/ PacketsSendListener
    \/ RegisterReceiverCallback
    \/ Start
    \/ Send
    \/ ChannelStep
    \/ StoreStop
    \/ StopBuffer
    \/ Destroy
    \/ PacketsReceiveListener
    \/ DemultiplexPacketsToTcps

Spec == Init /\ [][Next]_vars

\* Connections and channel stay as they are.
Steady == ~scenario.deletes /\ ~scenario.closes /\ scenario.max_files = 0

\* The threads of the hosts and of the channel then go on running, and main gets
\* to start the channel.
LiveSpec ==
    /\ Spec
    /\ WF_vars(Steady /\ PacketsSendListener)
    /\ WF_vars(Steady /\ RegisterReceiverCallback)
    /\ WF_vars(Steady /\ Start)
    /\ WF_vars(Steady /\ Send)
    /\ WF_vars(Steady /\ ChannelStep)
    /\ WF_vars(Steady /\ PacketsReceiveListener)
    /\ WF_vars(Steady /\ DemultiplexPacketsToTcps)

-----------------------------------------------------------------------------
(* Properties. *)

\* The packets to k that are still on their way, the first one first.
InFlight(k) ==
    To(k, (IF creating THEN Tail(new_packets) ELSE new_packets) \o recv_pkt_queue \o moving
              \o pkt_buffer \o sending \o send_pkt_queue)

Inbox(k) == IF k \in DOMAIN connections THEN connections[k] ELSE <<>>

Fifo == INSTANCE LossyFifo WITH inflight <- [k \in Keys |-> InFlight(k)],
                                inbox <- [k \in Keys |-> Inbox(k)]

\* The queues, the channel and the demultiplexing implement a lossy FIFO queue
\* for each connection: whatever is lost, what arrives is in order and, but for
\* the SYN of a new connection, arrives once.
ImplementsLossyFifo == Fifo!Spec

\* What was sent to a connection is on its way, was delivered, or was dropped by
\* the channel, by its dice or at its end.
Accounted ==
    \A k \in scenario.open : Len(InFlight(k)) + Len(Inbox(k)) + lost[k] = sent[k]

\* Every packet has a connection that stays.
AllThere == scenario.open = Keys /\ ~scenario.deletes

\* Only the channel drops packets when every packet has its connection: one that
\* has none makes DemultiplexPacketsToTcps drop those behind it.
OnlyChannelDrops == AllThere => Accounted

\* A packet that the channel does not drop then reaches its connection, through the
\* four queues and the loop of DemultiplexPacketsToTcps.
EventuallyDelivered ==
    \A k \in Keys : AllThere /\ Steady /\ InFlight(k) # <<>>
                        ~> Len(Inbox(k)) + lost[k] = sent[k]

\* The connections that are not there.
Orphans == Keys \ (scenario.open \cup scenario.listened)

\* Whoever sends to the one connection that is not there gets an RST, if the
\* channel does not drop what they sent: SendBackRST.
EventuallyAnswered ==
    \A k \in Keys :
        Steady /\ Orphans = {k} /\ InFlight(k) # <<>> ~> rsts[k] > 0 \/ lost[k] > 0
=============================================================================
