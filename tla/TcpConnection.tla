--------------------------- MODULE TcpConnection ----------------------------
(***************************************************************************)
(* The life of a connection: the state machines of both controllers        *)
(* (TcpController.cc), from the client's SYN over the handshake, data in   *)
(* both directions and the close of either side to the deletion of both    *)
(* objects, over a channel that loses segments.                            *)
(*                                                                         *)
(* A handler that changes state_ in one critical section and goes on in    *)
(* another is two actions; in between its segment stays at the head of the *)
(* network.  SendFIN and the task of TryClose are threads of their own.    *)
(* Initial sequence numbers are 0, as in the code.  A data segment carries *)
(* one byte, and the receive buffer holds all the bytes of a run: closed   *)
(* windows and overflow are the subject of TcpTransfer.                    *)
(***************************************************************************)
EXTENDS SendWindow, RecvWindow, FiniteSets

CONSTANTS
    RecvBufferSize, \* options.recv_buffer_size
    Scenarios,      \* what the applications do, and how timers and network behave
    MaxCreated,     \* bound: how many connections the server's host creates
    NetworkCap      \* bound: timer_ expires only below this many segments

Endpoints == {"client", "server"}

Peer(e) == IF e = "client" THEN "server" ELSE "client"

Calls == {"ShutDown", "Close"}

\* data[e]: how many bytes the application of e writes; close_when[e]: when it
\* closes; close_calls[e]: which of ShutDown and Close it calls.
\* fin_during_ack: SendFIN may run between HandleACK's critical sections.
\* patient_timers: the long timers let retransmissions come to an end.
\* loses_rst: an RST, which is sent once, may be lost.
\* max_losses: how many segments the channel loses; max_timeouts: how often
\* syn_timer_ or fin_timer_ expires.
Scenario ==
    [data           : [Endpoints -> 0 .. RecvBufferSize - 1],
     close_when     : [Endpoints -> {"any", "established", "eof"}],
     close_calls    : [Endpoints -> SUBSET Calls],
     fin_during_ack : BOOLEAN,
     patient_timers : BOOLEAN,
     loses_rst      : BOOLEAN,
     max_losses     : Nat,
     max_timeouts   : Nat]

ASSUME ConnectionAssumption ==
    /\ RecvBufferSize \in UInt32
    /\ Scenarios \subseteq Scenario
    /\ {MaxCreated, NetworkCap} \subseteq Nat

VARIABLES
    con,       \* con[e]: the TcpController of endpoint e and its socket
    net,       \* net[e]: segments on their way to endpoint e
    scenario,
    created,   \* how many connections the server's host has created
    losses,
    timeouts,
    aborted    \* a SANITY_CHECK or LogFATAL has ended the program

vars == <<con, net, scenario, created, losses, timeouts, aborted>>

-----------------------------------------------------------------------------
(* The objects. *)

TCP_STATE == {"CLOSED", "SYN_SENT", "ESTABLISHED", "SYN_RCVD", "FIN_WAIT_1",
              "FIN_WAIT_2", "TIME_WAIT", "CLOSING", "CLOSE_WAIT", "LAST_ACK"}

\* obj: no object yet, in use, CloseAndDelete has begun, deleted.
\* fin: where the SendFIN task is that each of the two calls has queued.
\* reset: where SendRSTForClosedConnection is.
\* handler: whether a handler is between its two critical sections.
Controller ==
    [obj : {"none", "live", "shutdown", "gone"}, state : TCP_STATE,
     send_window : SendWindowType, recv_window : RecvWindowType,
     written : Nat, send_buffer : Nat, started : BOOLEAN,
     recv_buffer : Nat, readn : Nat,
     pipe_state : {"OPEN", "EOF_NOT_CONSUMED", "EOF_CONSUMED"},
     timer : BOOLEAN, syn_timer : BOOLEAN, fin_timer : BOOLEAN,
     close_timer : BOOLEAN, kill : BOOLEAN,
     fin : [Calls -> {"none", "wait", "registered", "send", "refused", "done"}],
     fin_seq : [Calls -> UInt32],
     reset : {"none", "wait", "state"},
     handler : {"idle", "rest"}, send_window_empty : BOOLEAN,
     syns : 0 .. 2, shut : BOOLEAN, closed : BOOLEAN]

\* The constructor.
NewController(base) ==
    [obj |-> "live", state |-> "CLOSED",
     send_window |-> NewSendWindow(0, RecvBufferSize),
     recv_window |-> NewRecvWindow(base),
     written |-> 0, send_buffer |-> 0, started |-> FALSE,
     recv_buffer |-> 0, readn |-> 0, pipe_state |-> "OPEN",
     timer |-> FALSE, syn_timer |-> FALSE, fin_timer |-> FALSE,
     close_timer |-> FALSE, kill |-> FALSE,
     fin |-> [t \in Calls |-> "none"], fin_seq |-> [t \in Calls |-> 0],
     reset |-> "none", handler |-> "idle", send_window_empty |-> FALSE,
     syns |-> 0, shut |-> FALSE, closed |-> FALSE]

NoController == [NewController(0) EXCEPT !.obj = "none"]

InConnectingState(c) == c.state \in {"CLOSED", "SYN_SENT", "SYN_RCVD"}

InClosingState(c) ==
    c.state \in {"FIN_WAIT_1", "FIN_WAIT_2", "TIME_WAIT", "CLOSING", "LAST_ACK"}

\* The two steps of CloseAndDelete and its thread are StartShutDown and
\* DeleteTcpConnection.  In between the connection is still known to its host.
StartShutDown(c) == [c EXCEPT !.obj = "shutdown"]

-----------------------------------------------------------------------------
(* Segments. *)

\* A SYN counts one sequence number and carries neither byte nor FIN.
MakeSyncPacket(seq) == [seq |-> seq, len |-> 1, fin |-> FALSE, data |-> <<>>]

IsSync(p) == p.len = 1 /\ ~p.fin /\ p.data = <<>>

Kinds == {"SYN", "SYN_ACK", "FIN", "ACK", "RST", "DATA"}

Message == [kind : Kinds, seg : Segment, ack : Ack]

NoSeg == MakeDataPacket(0, <<>>)
NoAck == MakeAckPacket(0, 0)

\* The header of a segment of e's send window.  The SYN of the server
\* acknowledges that of the client, also when it is sent again.
SegmentMessage(e, p) ==
    LET kind == IF IsSync(p) THEN IF e = "client" THEN "SYN" ELSE "SYN_ACK"
                ELSE IF p.fin THEN "FIN" ELSE "DATA"
    IN  [kind |-> kind, seg |-> p,
         ack  |-> IF kind = "SYN_ACK" THEN MakeAckPacket(1, RecvBufferSize) ELSE NoAck]

\* Mutant: an acknowledgement is one ahead.
AckMessageNext(c) ==
    [kind |-> "ACK", seg |-> NoSeg,
     ack  |-> MakeAckPacket(c.recv_window.recv_base + 1, RecvBufferSize - c.recv_buffer)]

AckMessage(c) ==
    [kind |-> "ACK", seg |-> NoSeg,
     ack  |-> MakeAckPacket(c.recv_window.recv_base, RecvBufferSize - c.recv_buffer)]

MakeRstPacket == [kind |-> "RST", seg |-> NoSeg, ack |-> NoAck]

\* What GetBasePakcketToReSend and SendPacket put on the network.
ReSend(e, w) ==
    [i \in 1 .. Len(BasePacketToReSend(w)) |-> SegmentMessage(e, BasePacketToReSend(w)[i])]

Send(e, ms) == net' = [net EXCEPT ![Peer(e)] = @ \o ms]

\* The handler of e is done with the segment at the head, and answers.
TakeAndSend(e, ms) == net' = [net EXCEPT ![e] = Tail(@), ![Peer(e)] = @ \o ms]

Set(e, c) == con' = [con EXCEPT ![e] = c]

-----------------------------------------------------------------------------
TypeOK ==
    /\ con \in [Endpoints -> Controller]
    /\ net \in [Endpoints -> Seq(Message)]
    /\ scenario \in Scenarios
    /\ created \in 0 .. MaxCreated
    /\ losses \in 0 .. scenario.max_losses
    /\ timeouts \in 0 .. scenario.max_timeouts
    /\ aborted \in BOOLEAN

Init ==
    /\ con = [e \in Endpoints |-> NoController]
    /\ net = [e \in Endpoints |-> <<>>]
    /\ scenario \in Scenarios
    /\ created = 0
    /\ losses = 0
    /\ timeouts = 0
    /\ aborted = FALSE

Running(e) == ~aborted /\ con[e].obj = "live"

\* PacketReceiveBufferListener takes the next segment.
Handling(e, kind) ==
    /\ Running(e)
    /\ con[e].handler = "idle"
    /\ con[e].syns = 0
    /\ net[e] # <<>>
    /\ Head(net[e]).kind = kind

\* It is in the middle of a handler.
HandlingRest(e, kind) ==
    /\ Running(e)
    /\ con[e].handler = "rest"
    /\ Head(net[e]).kind = kind

-----------------------------------------------------------------------------
(* System calls. *)

\* Host::SocketConnect's TryConnect: the SYN is registered and sent.
TryConnect ==
    /\ ~aborted
    /\ con["client"].obj = "none"
    /\ LET c == NewController(0)
           r == SendPacket(c.send_window, MakeSyncPacket(0))
       IN  /\ Set("client", [c EXCEPT !.send_window = r.window, !.state = "SYN_SENT",
                                      !.timer = TRUE, !.syn_timer = TRUE])
           /\ Send("client", <<SegmentMessage("client", MakeSyncPacket(0))>>)
    /\ UNCHANGED <<scenario, created, losses, timeouts, aborted>>

WriteData(e) ==
    /\ Running(e)
    /\ ~con[e].shut /\ ~con[e].closed
    /\ ~InClosingState(con[e])
    /\ con[e].written < scenario.data[e]
    /\ Set(e, [con[e] EXCEPT !.written = @ + 1, !.send_buffer = @ + 1])
    /\ UNCHANGED <<net, scenario, created, losses, timeouts, aborted>>

ReadData(e) ==
    /\ Running(e)
    /\ ~con[e].closed
    /\ con[e].recv_buffer > 0
    /\ Set(e, [con[e] EXCEPT !.readn = @ + con[e].recv_buffer, !.recv_buffer = 0])
    /\ UNCHANGED <<net, scenario, created, losses, timeouts, aborted>>

\* ReadData returns 0, and the application does not call it again.
ReadEOF(e) ==
    /\ Running(e)
    /\ ~con[e].closed
    /\ con[e].recv_buffer = 0
    /\ con[e].pipe_state = "EOF_NOT_CONSUMED"
    /\ Set(e, [con[e] EXCEPT !.pipe_state = "EOF_CONSUMED"])
    /\ UNCHANGED <<net, scenario, created, losses, timeouts, aborted>>

\* The application's rule for closing.
MayClose(e, call) ==
    /\ call \in scenario.close_calls[e]
    /\ \/ scenario.close_when[e] = "any"
       \/ scenario.close_when[e] = "established" /\ ~InConnectingState(con[e])
       \/ scenario.close_when[e] = "eof" /\ con[e].pipe_state = "EOF_CONSUMED"

\* TryShutDown queues SendFIN, unless the FIN is sent already.
TryShutDown(c, call) ==
    [c EXCEPT !.fin[call] = IF InClosingState(c) THEN @ ELSE "wait"]

ShutDown(e) ==
    /\ Running(e)
    /\ ~con[e].shut /\ ~con[e].closed
    /\ MayClose(e, "ShutDown")
    /\ Set(e, [TryShutDown(con[e], "ShutDown") EXCEPT !.shut = TRUE])
    /\ UNCHANGED <<net, scenario, created, losses, timeouts, aborted>>

\* DecOpenFileRef's TryClose: TryShutDown, and the task that discards what
\* still arrives.
TryClose(e) ==
    /\ Running(e)
    /\ ~con[e].closed
    /\ MayClose(e, "Close")
    /\ Set(e, [TryShutDown(con[e], "Close") EXCEPT !.closed = TRUE, !.reset = "wait"])
    /\ UNCHANGED <<net, scenario, created, losses, timeouts, aborted>>

-----------------------------------------------------------------------------
(* Threads and timers of a controller. *)

\* SendBufferListener sends one segment.  It waits for the handshake once.
SendData(e) ==
    LET c == con[e]
        p == MakeDataPacket(NextSeqNumberToSend(c.send_window), <<0>>)
        r == SendPacket(c.send_window, p)
    IN  /\ Running(e)
        /\ c.started \/ ~InConnectingState(c)
        /\ c.send_buffer > 0
        /\ FreeSpace(c.send_window) > 0
        /\ Set(e, [c EXCEPT !.started = TRUE, !.send_buffer = @ - 1,
                            !.send_window = r.window,
                            !.timer = @ \/ NumPacketsToAck(c.send_window) = 0])
        /\ Send(e, IF r.ok THEN <<SegmentMessage(e, p)>> ELSE <<>>)
        /\ aborted' = ~r.sane
        /\ UNCHANGED <<scenario, created, losses, timeouts>>

\* Mutant: SendFIN does not wait for the send buffer.
RegisterFINEarly(e, call) ==
    LET c == con[e]
        w == [c.send_window EXCEPT !.capacity = U32(c.send_window.size + 1)]
        r == SendPacket(w, MakeFinPacket(NextSeqNumberToSend(w)))
    IN  /\ Running(e)
        /\ c.fin[call] = "wait"
        /\ Set(e, [c EXCEPT !.fin[call] = "registered", !.send_window = r.window,
                            !.fin_seq[call] = NextSeqNumberToSend(w)])
        /\ aborted' = ~(r.sane /\ r.ok)
        /\ UNCHANGED <<net, scenario, created, losses, timeouts>>

\* SendFIN under the locks of send buffer and send window.
RegisterFIN(e, call) ==
    LET c == con[e]
        w == [c.send_window EXCEPT !.capacity = U32(c.send_window.size + 1)]
        r == SendPacket(w, MakeFinPacket(NextSeqNumberToSend(w)))
    IN  /\ Running(e)
        /\ c.fin[call] = "wait"
        /\ c.send_buffer = 0
        /\ scenario.fin_during_ack \/ c.handler = "idle"
        /\ Set(e, [c EXCEPT !.fin[call] = "registered", !.send_window = r.window,
                            !.fin_seq[call] = NextSeqNumberToSend(w)])
        /\ aborted' = ~(r.sane /\ r.ok)
        /\ UNCHANGED <<net, scenario, created, losses, timeouts>>

\* Mutant: SYN_RCVD is as good as ESTABLISHED.
EnterClosingSynRcvd(e, call) ==
    LET c == con[e]
    IN  /\ Running(e)
        /\ c.fin[call] = "registered"
        /\ \/ /\ c.state \in {"SYN_RCVD", "ESTABLISHED"}
              /\ Set(e, [c EXCEPT !.state = "FIN_WAIT_1", !.fin[call] = "send"])
           \/ /\ c.state = "CLOSE_WAIT"
              /\ Set(e, [c EXCEPT !.state = "LAST_ACK", !.fin[call] = "send"])
           \/ /\ c.state \notin {"SYN_RCVD", "ESTABLISHED", "CLOSE_WAIT"}
              /\ Set(e, [c EXCEPT !.fin[call] = "refused"])
        /\ UNCHANGED <<net, scenario, created, losses, timeouts, aborted>>

\* SendFIN under the lock of the state.
EnterClosing(e, call) ==
    LET c == con[e]
    IN  /\ Running(e)
        /\ c.fin[call] = "registered"
        /\ \/ /\ c.state = "ESTABLISHED"
              /\ Set(e, [c EXCEPT !.state = "FIN_WAIT_1", !.fin[call] = "send"])
           \/ /\ c.state = "CLOSE_WAIT"
              /\ Set(e, [c EXCEPT !.state = "LAST_ACK", !.fin[call] = "send"])
           \/ /\ c.state \notin {"ESTABLISHED", "CLOSE_WAIT"}
              /\ Set(e, [c EXCEPT !.fin[call] = "refused"])
        /\ UNCHANGED <<net, scenario, created, losses, timeouts, aborted>>

TransmitFIN(e, call) ==
    LET c == con[e]
    IN  /\ Running(e)
        /\ c.fin[call] = "send"
        /\ Send(e, <<SegmentMessage(e, MakeFinPacket(c.fin_seq[call]))>>)
        /\ Set(e, [c EXCEPT !.fin[call] = "done", !.timer = TRUE, !.fin_timer = TRUE])
        /\ UNCHANGED <<scenario, created, losses, timeouts, aborted>>

\* SendRSTForClosedConnection finds data and discards it.
DiscardData(e) ==
    /\ Running(e)
    /\ con[e].reset = "wait"
    /\ con[e].recv_buffer > 0
    /\ Set(e, [con[e] EXCEPT !.recv_buffer = 0, !.reset = "state"])
    /\ UNCHANGED <<net, scenario, created, losses, timeouts, aborted>>

SendRST(e) ==
    /\ Running(e)
    /\ con[e].reset = "state"
    /\ Set(e, [con[e] EXCEPT !.state = "CLOSED", !.close_timer = TRUE, !.reset = "wait"])
    /\ Send(e, <<MakeRstPacket>>)
    /\ UNCHANGED <<scenario, created, losses, timeouts, aborted>>

TimeoutReTransmitter(e) ==
    /\ Running(e)
    /\ con[e].timer
    /\ NumPacketsToAck(con[e].send_window) > 0
    /\ Len(net["client"]) + Len(net["server"]) < NetworkCap
    /\ Send(e, ReSend(e, con[e].send_window))
    /\ UNCHANGED <<con, scenario, created, losses, timeouts, aborted>>

\* timer_ fires every half second, a thread needs less, and the other timers
\* wait between two and thirty seconds: no segment is under way, and this side
\* has none to send.
LongWait(e) ==
    scenario.patient_timers =>
        /\ net["client"] = <<>> /\ net["server"] = <<>>
        /\ ~(con[e].timer /\ NumPacketsToAck(con[e].send_window) > 0)
        /\ \A call \in Calls : con[e].fin[call] \notin {"registered", "send"}

\* syn_timer_ or fin_timer_ expires.
ConnectionTimeout(e) ==
    /\ Running(e)
    /\ LongWait(e)
    /\ timeouts < scenario.max_timeouts
    /\ con[e].syn_timer \/ con[e].fin_timer
    /\ Set(e, StartShutDown(con[e]))
    /\ timeouts' = timeouts + 1
    /\ UNCHANGED <<net, scenario, created, losses, aborted>>

\* close_timer_ expires, or the thread that waits in TIME_WAIT wakes up.
WaitIsOver(e) ==
    /\ Running(e)
    /\ LongWait(e)
    /\ con[e].close_timer \/ con[e].kill
    /\ Set(e, StartShutDown(con[e]))
    /\ UNCHANGED <<net, scenario, created, losses, timeouts, aborted>>

-----------------------------------------------------------------------------
(* Handlers of PacketReceiveBufferListener. *)

\* HandleSYN.  A SYN that is not the first has something in the send window
\* sent again; otherwise the SYN_ACK is registered and sent.
HandleSYN(e) ==
    LET c    == con[e]
        copy == c.syns > 0
        p    == IF copy THEN MakeSyncPacket(0) ELSE Head(net[e]).seg
        r    == ReceivePacket(c.recv_window, p)
        d    == [c EXCEPT !.recv_window = r.window, !.syns = IF copy THEN @ - 1 ELSE 0]
        s    == SendPacket(c.send_window, MakeSyncPacket(0))
        new  == c.send_window.size = 0 /\ s.ok
        out  == IF c.send_window.size > 0 THEN ReSend(e, c.send_window)
                ELSE IF s.ok THEN <<SegmentMessage(e, MakeSyncPacket(0))>> ELSE <<>>
    IN  /\ Handling(e, "SYN") \/ (Running(e) /\ c.handler = "idle" /\ copy)
        /\ Set(e, IF new THEN [d EXCEPT !.send_window = s.window, !.state = "SYN_RCVD",
                                        !.timer = TRUE, !.syn_timer = TRUE]
                  ELSE d)
        /\ IF copy THEN Send(e, out) ELSE TakeAndSend(e, out)
        /\ aborted' = ~(r.sane /\ r.window.recv_base = U32(p.seq + 1))
        /\ UNCHANGED <<scenario, created, losses, timeouts>>

\* HandleACKSYN under the lock of the state.
HandleACKSYN(e) ==
    LET c == con[e]
        m == Head(net[e])
        r == NewAckedPacket(c.send_window, MaxDupOrigin, m.ack.ack_num)
        w == [r.window EXCEPT !.capacity = m.ack.window_size]
    IN  /\ Handling(e, "SYN_ACK")
        /\ IF c.state = "SYN_SENT"
           THEN /\ Set(e, [c EXCEPT !.handler = "rest", !.state = "ESTABLISHED",
                                    !.syn_timer = FALSE, !.send_window = w,
                                    !.timer = @ /\ NumPacketsToAck(w) > 0])
                /\ aborted' = ~r.sane
           ELSE /\ Set(e, [c EXCEPT !.handler = "rest"])
                /\ UNCHANGED aborted
        /\ UNCHANGED <<net, scenario, created, losses, timeouts>>

\* The rest of HandleACKSYN, for every SYN_ACK.
AckSYN(e) ==
    LET c == [con[e] EXCEPT !.handler = "idle",
                            !.recv_window.recv_base = U32(Head(net[e]).seg.seq + 1)]
    IN  /\ HandlingRest(e, "SYN_ACK")
        /\ Set(e, c)
        /\ TakeAndSend(e, <<AckMessage(c)>>)
        /\ UNCHANGED <<scenario, created, losses, timeouts, aborted>>

\* StreamDataToReceiveBuffer.  A FIN ends the loop; the loop would not end at
\* a SYN.
Streamed(c, nodes) ==
    LET fins == {i \in 1 .. Len(nodes) : nodes[i].fin}
        n    == IF fins = {} THEN Len(nodes) ELSE Min(fins) - 1
    IN  [c EXCEPT !.recv_buffer = @ + n,
                  !.pipe_state = IF fins = {} THEN @ ELSE "EOF_NOT_CONSUMED"]

\* ReceivePacket, StreamDataToReceiveBuffer and the acknowledgement.
ReceiveAndAck(e) ==
    LET r == ReceivePacket(con[e].recv_window, Head(net[e]).seg)
        c == Streamed([con[e] EXCEPT !.recv_window = r.window, !.handler = "idle"], r.nodes)
    IN  /\ Set(e, c)
        /\ TakeAndSend(e, <<AckMessage(c)>>)
        /\ aborted' = ~(r.sane /\ \A i \in 1 .. Len(r.nodes) : ~IsSync(r.nodes[i]))
        /\ UNCHANGED <<scenario, created, losses, timeouts>>

HandleDataPacket(e) == Handling(e, "DATA") /\ ReceiveAndAck(e)


\* HandleFIN's transition, whether or not the FIN is in order.
AfterFIN(c) ==
    IF c.state = "ESTABLISHED" THEN [c EXCEPT !.state = "CLOSE_WAIT"]
    ELSE IF c.state = "FIN_WAIT_2" THEN [c EXCEPT !.state = "TIME_WAIT", !.kill = TRUE]
    ELSE IF c.state = "FIN_WAIT_1" THEN [c EXCEPT !.state = "CLOSING"]
    ELSE c

HandleFIN(e) ==
    /\ Handling(e, "FIN")
    /\ Set(e, [AfterFIN(con[e]) EXCEPT !.handler = "rest"])
    /\ UNCHANGED <<net, scenario, created, losses, timeouts, aborted>>

HandleFINRest(e) == HandlingRest(e, "FIN") /\ ReceiveAndAck(e)

\* HandleACK under the lock of the send window.
HandleACK(e) ==
    LET c == con[e]
        a == Head(net[e]).ack
        r == NewAckedPacket(c.send_window, MaxDupOrigin, a.ack_num)
        w == [r.window EXCEPT !.capacity = a.window_size]
    IN  /\ Handling(e, "ACK")
        /\ Set(e, [c EXCEPT !.send_window = w, !.timer = NumPacketsToAck(w) > 0,
                            !.send_window_empty = (NumPacketsToAck(w) = 0),
                            !.handler = "rest"])
        /\ Send(e, IF r.re_transmit THEN ReSend(e, w) ELSE <<>>)
        /\ aborted' = ~r.sane
        /\ UNCHANGED <<scenario, created, losses, timeouts>>

\* Mutant: any acknowledgement ends LAST_ACK.
AfterACKAny(c) ==
    IF c.state = "SYN_RCVD" THEN [c EXCEPT !.state = "ESTABLISHED", !.syn_timer = FALSE]
    ELSE IF c.state = "FIN_WAIT_1" /\ c.send_window_empty
    THEN [c EXCEPT !.state = "FIN_WAIT_2", !.fin_timer = FALSE]
    ELSE IF c.state = "LAST_ACK"
    THEN StartShutDown([c EXCEPT !.state = "CLOSED", !.fin_timer = FALSE])
    ELSE IF c.state = "CLOSING" THEN [c EXCEPT !.state = "TIME_WAIT", !.kill = TRUE]
    ELSE c

\* HandleACK's transition under the lock of the state, with the emptiness that
\* was read before the send window was unlocked.
AfterACK(c) ==
    IF c.state = "SYN_RCVD" THEN [c EXCEPT !.state = "ESTABLISHED", !.syn_timer = FALSE]
    ELSE IF c.state = "FIN_WAIT_1" /\ c.send_window_empty
    THEN [c EXCEPT !.state = "FIN_WAIT_2", !.fin_timer = FALSE]
    ELSE IF c.state = "LAST_ACK" /\ c.send_window_empty
    THEN StartShutDown([c EXCEPT !.state = "CLOSED", !.fin_timer = FALSE])
    ELSE IF c.state = "CLOSING" THEN [c EXCEPT !.state = "TIME_WAIT", !.kill = TRUE]
    ELSE c

HandleACKState(e) ==
    /\ HandlingRest(e, "ACK")
    /\ Set(e, [AfterACK(con[e]) EXCEPT !.handler = "idle", !.send_window_empty = FALSE])
    /\ TakeAndSend(e, <<>>)
    /\ UNCHANGED <<scenario, created, losses, timeouts, aborted>>

HandleRst(e) ==
    /\ Handling(e, "RST")
    /\ Set(e, StartShutDown(con[e]))
    /\ TakeAndSend(e, <<>>)
    /\ UNCHANGED <<scenario, created, losses, timeouts, aborted>>

-----------------------------------------------------------------------------
(* The hosts and the channel. *)

NoConnection(e) == ~aborted /\ con[e].obj \in {"none", "gone"} /\ net[e] # <<>>

\* DemultiplexPacketsToTcps finds no connection and HandleNewConnection makes
\* one, as the server listens.  It delivers a copy of the SYN, and then the
\* SYN itself.
HandleNewConnection ==
    /\ NoConnection("server")
    /\ Head(net["server"]).kind = "SYN"
    /\ created < MaxCreated
    /\ Set("server", [NewController(Head(net["server"]).seg.seq) EXCEPT !.syns = 2])
    /\ created' = created + 1
    /\ TakeAndSend("server", <<>>)
    /\ UNCHANGED <<scenario, losses, timeouts, aborted>>

\* Nobody listens, or no open file is left: SendBackRST, unless it is an RST.
SendBackRST(e) ==
    /\ NoConnection(e)
    /\ ~(e = "server" /\ Head(net[e]).kind = "SYN" /\ created < MaxCreated)
    /\ TakeAndSend(e, IF Head(net[e]).kind = "RST" THEN <<>> ELSE <<MakeRstPacket>>)
    /\ UNCHANGED <<con, scenario, created, losses, timeouts, aborted>>

\* A connection that is shutting down handles nothing any more.
Ignore(e) ==
    /\ ~aborted
    /\ con[e].obj = "shutdown"
    /\ net[e] # <<>>
    /\ TakeAndSend(e, <<>>)
    /\ UNCHANGED <<con, scenario, created, losses, timeouts, aborted>>

\* Only what the applications have seen of the connection remains.
DeleteTcpConnection(e) ==
    /\ ~aborted
    /\ con[e].obj = "shutdown"
    /\ Set(e, [NoController EXCEPT !.obj = "gone", !.written = con[e].written,
                                   !.readn = con[e].readn,
                                   !.pipe_state = con[e].pipe_state])
    /\ UNCHANGED <<net, scenario, created, losses, timeouts, aborted>>

Lose(e) ==
    /\ ~aborted
    /\ losses < scenario.max_losses
    /\ con[e].handler = "idle"
    /\ net[e] # <<>>
    /\ scenario.loses_rst \/ Head(net[e]).kind # "RST"
    /\ TakeAndSend(e, <<>>)
    /\ losses' = losses + 1
    /\ UNCHANGED <<con, scenario, created, timeouts, aborted>>

-----------------------------------------------------------------------------
Handler(e) ==
    \/ HandleSYN(e)
    \/ HandleACKSYN(e)
    \/ AckSYN(e)
    \/ HandleDataPacket(e)
    \/ HandleFIN(e)
    \/ HandleFINRest(e)
    \/ HandleACK(e)
    \/ HandleACKState(e)
    \/ HandleRst(e)

SendFIN(e, call) ==
    \/ RegisterFIN(e, call)
    \/ EnterClosing(e, call)
    \/ TransmitFIN(e, call)

Resetter(e) == DiscardData(e) \/ SendRST(e)

Reader(e) == ReadData(e) \/ ReadEOF(e)

HostStep(e) ==
    \/ SendBackRST(e)
    \/ Ignore(e)
    \/ e = "server" /\ HandleNewConnection

\* Everything but the system calls.
Protocol ==
    \E e \in Endpoints :
        \/ Handler(e)
        \/ SendData(e)
        \/ \E call \in Calls : SendFIN(e, call)
        \/ Resetter(e)
        \/ TimeoutReTransmitter(e)
        \/ ConnectionTimeout(e)
        \/ WaitIsOver(e)
        \/ HostStep(e)
        \/ DeleteTcpConnection(e)
        \/ Lose(e)

SystemCall(e) ==
    \/ WriteData(e)
    \/ Reader(e)
    \/ ShutDown(e)
    \/ TryClose(e)

Next == TryConnect \/ Protocol \/ \E e \in Endpoints : SystemCall(e)

Spec == Init /\ [][Next]_vars

\* Both applications wait for the connection before they close it; one that may
\* lose the ACK of the SYN_ACK waits for the end of the other's stream.
Orderly ==
    /\ scenario.patient_timers
    /\ ~scenario.loses_rst
    /\ \A e \in Endpoints : scenario.close_when[e] # "any"
    /\ scenario.max_losses > 0 => scenario.close_when["client"] = "eof"

\* In an orderly connection the listener, the tasks of the thread pool, the
\* timers and the host run on, and the application reads what arrives and
\* closes in the end.
FairSpec ==
    /\ Spec
    /\ \A e \in Endpoints :
          /\ WF_vars(Orderly /\ Handler(e))
          /\ WF_vars(Orderly /\ SendData(e))
          /\ \A call \in Calls : WF_vars(Orderly /\ SendFIN(e, call))
          /\ WF_vars(Orderly /\ Resetter(e))
          /\ WF_vars(Orderly /\ TimeoutReTransmitter(e))
          /\ WF_vars(Orderly /\ ConnectionTimeout(e))
          /\ WF_vars(Orderly /\ WaitIsOver(e))
          /\ WF_vars(Orderly /\ HostStep(e))
          /\ WF_vars(Orderly /\ DeleteTcpConnection(e))
          /\ WF_vars(Orderly /\ Reader(e))
          /\ WF_vars(Orderly /\ ShutDown(e))
          /\ WF_vars(Orderly /\ TryClose(e))

-----------------------------------------------------------------------------
(* Properties. *)

\* HandleSYN's SANITY_CHECK, those of the two windows and SendFIN's LogFATAL
\* hold, whatever is lost or sent again, at every stage of the connection.
NoAbort == ~aborted

\* A late SYN_ACK, which sets recv_base_ again, never moves it back.
RecvBaseForward ==
    [][\A e \in Endpoints :
          con[e].obj = "live" /\ con'[e].obj = "live" =>
              con'[e].recv_window.recv_base >= con[e].recv_window.recv_base]_vars

\* The server takes the handshake for complete only when the client has taken
\* its SYN_ACK: SYN_RCVD is left on an acknowledgement, any acknowledgement.
HandshakeAgreed ==
    LET s == con["server"]
        c == con["client"]
    IN  s.obj = "live" /\ ~InConnectingState(s) =>
            c.obj # "live" \/ (c.state # "SYN_SENT" /\ c.recv_window.recv_base > 0)

\* ReadData returns 0 only when everything the other application wrote has
\* been read.
EofComplete ==
    \A e \in Endpoints :
        con[e].pipe_state = "EOF_CONSUMED" =>
            con[e].readn = con[Peer(e)].written

\* The FIN of endpoint e is acknowledged.
FinAcked(e) ==
    \E call \in Calls : /\ con[e].fin_seq[call] > 0
                        /\ con[e].send_window.send_base > con[e].fin_seq[call]

LastAckAcked ==
    \A e \in Endpoints :
        con[e].state = "LAST_ACK" /\ con'[e].state = "CLOSED" /\ con'[e].obj = "shutdown"
            => FinAcked(e)

\* LAST_ACK is left for CLOSED only when the FIN is acknowledged, that is, when
\* the other side has everything, as long as SendFIN does not run between the
\* critical sections of HandleACK, which looks at state_ in the second one.
LastAckMeansAcked == [][scenario.fin_during_ack \/ LastAckAcked]_vars

\* The same wherever SendFIN runs: the comment in HandleACK takes the window's
\* being empty for the acknowledgement of the FIN.
AckAgreesWithState == [][LastAckAcked]_vars

\* An endpoint that has handed the end of the stream to its application has
\* left SYN_RCVD and ESTABLISHED: a Close leads to LAST_ACK and not to
\* FIN_WAIT_1.
EofMeansCloseWait ==
    \A e \in Endpoints :
        con[e].obj = "live" /\ con[e].pipe_state # "OPEN" =>
            con[e].state \notin {"SYN_RCVD", "ESTABLISHED"}

\* After SendFIN the connection is in a closing state, or was reset.
ShutDownEntersClosing ==
    \A e \in Endpoints, call \in Calls :
        con[e].obj = "live" /\ con[e].fin[call] \in {"refused", "done"} =>
            InClosingState(con[e]) \/ con[e].close_timer

\* There is one FIN for both of ShutDown and Close.
OneFin ==
    \A e \in Endpoints :
        Cardinality({call \in Calls : con[e].fin_seq[call] > 0}) <= 1

\* What HandleSYN sends again for a second SYN is the SYN_ACK.
SynAckCached ==
    [][\A e \in Endpoints :
          HandleSYN(e) /\ con[e].send_window.size > 0 =>
              IsSync(con[e].send_window.pkts_to_ack[1])]_vars

\* CLOSING is left for TIME_WAIT when the FIN is acknowledged.
ClosingMeansAcked ==
    [][\A e \in Endpoints :
          con[e].state = "CLOSING" /\ con'[e].state = "TIME_WAIT" => FinAcked(e)]_vars

=============================================================================
