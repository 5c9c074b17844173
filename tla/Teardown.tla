------------------------------ MODULE Teardown ------------------------------
(***************************************************************************)
(* How a TcpController ends (TcpController.cc): the tasks of its thread    *)
(* pool with the condition variables they wait on, the users blocked in    *)
(* ReadData and WriteData, the callers of CloseAndDelete, and the thread   *)
(* that runs TearDown and then deletes the object.                         *)
(*                                                                         *)
(* A wait is a test of its condition and then the block, the mutex held in *)
(* between.  shutdown_ is set, and TearDown notifies, without the mutex:   *)
(* both can happen in between.  Of the data only what the conditions read  *)
(* is kept: how full the buffers are, whether the handshake is over and    *)
(* whether the send window has space.  The end of file is left out.        *)
(***************************************************************************)
EXTENDS Integers, Sequences, FiniteSets

CONSTANT Scenarios   \* what happens to the connection

Users == {"ReadData", "WriteData"}

\* A packet is an acknowledgement, data, one whose handler calls CloseAndDelete
\* (an RST or the last ACK), or one after which TIME_WAIT begins.
AllKinds == {"ack", "data", "end", "time_wait"}

\* kinds: the packets that arrive; users: the calls that users make; closes: a
\* user closes the connection; timers: syn_timer_, fin_timer_ and close_timer_
\* expire; capacity: of the socket buffers, in packets; lost_wakeups: a
\* notification may fall between a test and its block; initialised: shutdown_ is
\* false in a new object.  The bounds: how many packets arrive, how many calls
\* the users make.
Scenario == [kinds : SUBSET AllKinds, users : SUBSET Users, closes : BOOLEAN,
             timers : BOOLEAN, capacity : Nat \ {0}, lost_wakeups : BOOLEAN,
             initialised : BOOLEAN, max_packets : Nat, max_calls : Nat]

ASSUME TeardownAssumption == Scenarios \subseteq Scenario

Listeners == {"PacketReceiveBufferListener", "PacketSendBufferListener",
              "SendBufferListener", "ReceiveBufferListener"}

Pool == Listeners \cup {"SendFIN", "SendRSTForClosedConnection"}

\* The condition variables of TearDown's notify_all, and those it leaves out.
Notified == {"state", "send_window", "send_buffer_read", "send_buffer_write",
             "send_buffer_empty", "recv_buffer_read"}
CVs == Notified \cup {"recv_buffer_write", "pkt_recv", "pkt_send"}

\* Who calls CloseAndDelete: the task that handles packets, the timers, and
\* the thread that sleeps through TIME_WAIT.
Closers == {"handler", "timer", "kill"}

\* The threads that CloseAndDelete may start.
TearDowns == 1 .. 3

VARIABLES
    task,          \* where the tasks and the users are
    shutdown,      \* shutdown_
    destroy_recv, destroy_send,    \* destroy_ of the two packet queues
    pkts, batch,   \* pkt_recv_buffer_, and what the listener took from it
    sending,       \* pkt_send_buffer_ is not empty
    established, window,           \* not InConnectingState; the window has space
    send, recv, overflow,          \* packets in the buffers and in overflow_pkts_
    timer,         \* one of the timers of CloseAndDelete runs
    closer,        \* where the callers of CloseAndDelete are
    down,          \* where the threads are that run TearDown
    attached,      \* the socket refers to the connection
    destroyed,     \* the object is gone
    closed,        \* TryClose was called
    scenario,
    arrived, calls \* what the bounds count

data == <<established, window, send, recv, overflow>>
queues == <<pkts, batch, sending>>
stops == <<destroy_recv, destroy_send>>
ending == <<down, attached, destroyed>>
bounds == <<scenario, arrived, calls>>
Capacity == scenario.capacity
vars == <<task, shutdown, stops, queues, data, timer, closer, ending, closed, bounds>>

Place == [at : CVs \cup {"absent", "loop", "handle", "rest", "done"},
          wait : {"test", "tested", "blocked"}]

DownStages == {"none", "stop_timers", "notify", "stop_recv", "await_recv", "stop_send",
               "await_send", "detach", "await_pool", "destructor", "delete", "over"}

TypeOK ==
    /\ task \in [Pool \cup Users -> Place]
    /\ {shutdown, destroy_recv, destroy_send, sending, established, window, timer,
        attached, destroyed, closed} \subseteq BOOLEAN
    /\ scenario \in Scenarios
    /\ pkts \in Seq(scenario.kinds) /\ batch \in Seq(scenario.kinds)
    /\ send \in 0 .. Capacity /\ recv \in 0 .. Capacity /\ overflow \in Nat
    /\ closer \in [Closers -> {"idle", "sleeping", "called", "loaded", "returned"}]
    /\ down \in [TearDowns -> DownStages]
    /\ arrived \in 0 .. scenario.max_packets /\ calls \in 0 .. scenario.max_calls

At(place) == [at |-> place, wait |-> "test"]

\* The constructor does not set shutdown_.
Init ==
    /\ task = [t \in Pool \cup Users |->
                   IF t = "SendBufferListener" THEN At("state")
                   ELSE IF t \in Listeners THEN At("loop") ELSE At("absent")]
    /\ scenario \in Scenarios
    /\ shutdown \in IF scenario.initialised THEN {FALSE} ELSE BOOLEAN
    /\ destroy_recv = FALSE /\ destroy_send = FALSE
    /\ pkts = <<>> /\ batch = <<>> /\ sending = FALSE
    /\ established = FALSE /\ window = TRUE
    /\ send = 0 /\ recv = 0 /\ overflow = 0
    /\ timer = FALSE
    /\ closer = [c \in Closers |-> "idle"]
    /\ down = [d \in TearDowns |-> "none"]
    /\ attached = TRUE /\ destroyed = FALSE /\ closed = FALSE
    /\ arrived = 0 /\ calls = 0

-----------------------------------------------------------------------------
(* Condition variables. *)

\* What a wait is for.
Awaited(cv) ==
    CASE cv = "state"             -> established
      [] cv = "send_window"       -> window
      [] cv = "send_buffer_read"  -> send > 0
      [] cv = "send_buffer_write" -> send < Capacity
      [] cv = "send_buffer_empty" -> send = 0
      [] cv = "recv_buffer_read"  -> recv > 0
      [] cv = "recv_buffer_write" -> recv < Capacity
      [] cv = "pkt_recv"          -> pkts # <<>>
      [] cv = "pkt_send"          -> sending

\* Mutant: the wait in ReadData does not look at shutdown_.
InterruptedNotRead(cv) ==
    \/ shutdown /\ cv \in Notified \ {"recv_buffer_read"}
    \/ destroy_recv /\ cv = "pkt_recv"
    \/ destroy_send /\ cv = "pkt_send"

\* What else ends it; nothing ends the one for recv_buffer_write.
Interrupted(cv) ==
    \/ shutdown /\ cv \in Notified
    \/ destroy_recv /\ cv = "pkt_recv"
    \/ destroy_send /\ cv = "pkt_send"

Ready(cv) == Awaited(cv) \/ Interrupted(cv)

Waiting(f, cvs) == {t \in DOMAIN f : f[t].at \in cvs /\ f[t].wait = "blocked"}

\* notify_all of these condition variables.
WakeAll(f, cvs) ==
    [t \in DOMAIN f |-> IF t \in Waiting(f, cvs) THEN At(f[t].at) ELSE f[t]]

\* notify_one.
WakeOne(f, cv) ==
    IF Waiting(f, {cv}) = {} THEN {f}
    ELSE {[f EXCEPT ![t] = At(cv)] : t \in Waiting(f, {cv})}

Move(t, place) == [task EXCEPT ![t] = At(place)]

\* The mutex of a wait.
Mutex(cv) ==
    CASE cv \in {"send_buffer_read", "send_buffer_write", "send_buffer_empty"} -> "send_buffer"
      [] cv \in {"recv_buffer_read", "recv_buffer_write"} -> "recv_buffer"
      [] OTHER -> cv

\* Nobody is between a test and its block with one of these mutexes.
Free(mutexes) == \A t \in DOMAIN task : task[t].wait = "tested" => Mutex(task[t].at) \notin mutexes

\* The condition of the wait that t is at holds.
Passes(t, cv) ==
    /\ ~destroyed
    /\ task[t] = At(cv)
    /\ Free({Mutex(cv)})
    /\ Ready(cv)

\* It does not hold.
TestFails(t) ==
    /\ ~destroyed
    /\ task[t].at \in CVs /\ task[t].wait = "test"
    /\ Free({Mutex(task[t].at)})
    /\ ~Ready(task[t].at)
    /\ task' = [task EXCEPT ![t].wait = IF scenario.lost_wakeups THEN "tested" ELSE "blocked"]
    /\ UNCHANGED <<shutdown, stops, queues, data, timer, closer, ending, closed, bounds>>

Block(t) ==
    /\ ~destroyed
    /\ task[t].wait = "tested"
    /\ task' = [task EXCEPT ![t].wait = "blocked"]
    /\ UNCHANGED <<shutdown, stops, queues, data, timer, closer, ending, closed, bounds>>

\* What each loop waits for first.
FirstWait(t) ==
    CASE t = "PacketReceiveBufferListener" -> "pkt_recv"
      [] t = "PacketSendBufferListener"    -> "pkt_send"
      [] t = "SendBufferListener"          -> "send_window"
      [] t = "ReceiveBufferListener"       -> "recv_buffer_write"
      [] t = "SendFIN"                     -> "send_buffer_empty"
      [] t = "SendRSTForClosedConnection"  -> "recv_buffer_read"

\* The test of shutdown_ before it.
Loop(t) ==
    /\ ~destroyed
    /\ task[t].at = "loop"
    /\ task' = Move(t, IF shutdown THEN "done" ELSE FirstWait(t))
    /\ UNCHANGED <<shutdown, stops, queues, data, timer, closer, ending, closed, bounds>>

-----------------------------------------------------------------------------
(* The tasks of the pool. *)

\* DeQueueAllTo in PacketReceiveBufferListener.
TakePackets ==
    LET t == "PacketReceiveBufferListener"
    IN  /\ Passes(t, "pkt_recv")
        /\ task' = Move(t, "handle")
        /\ IF destroy_recv THEN UNCHANGED <<pkts, batch>> ELSE batch' = pkts /\ pkts' = <<>>
        /\ UNCHANGED <<shutdown, stops, sending, data, timer, closer, ending, closed, bounds>>

\* HandleReceivedPackets: the next packet, unless CloseAndDelete has not yet
\* returned.
Handling(kinds) ==
    /\ ~destroyed
    /\ task["PacketReceiveBufferListener"].at = "handle"
    /\ closer["handler"] = "idle"
    /\ batch # <<>>
    /\ Head(batch) \in kinds
    /\ batch' = Tail(batch)
    /\ UNCHANGED pkts

HandleACK ==
    /\ Handling({"ack"})
    /\ Free({"send_window", "state"})
    /\ established' = TRUE /\ window' = TRUE
    /\ task' = WakeAll(task, {"state", "send_window"})
    /\ UNCHANGED <<shutdown, stops, sending, send, recv, overflow, timer, closer, ending,
                   closed, bounds>>

\* What PushOverflowedPacketsToSocketBuffer moves.
Pushed == IF overflow <= Capacity - recv THEN overflow ELSE Capacity - recv

\* HandleDataPacket: StreamDataToReceiveBuffer and the acknowledgement.
HandleDataPacket ==
    /\ Handling({"data"})
    /\ Free({"recv_buffer", "pkt_send"})
    /\ LET full == recv + Pushed = Capacity
       IN  /\ recv' = recv + Pushed + (IF full THEN 0 ELSE 1)
           /\ overflow' = overflow - Pushed + (IF full THEN 1 ELSE 0)
    /\ \E f \in WakeOne(task, "recv_buffer_read") : task' = WakeAll(f, {"pkt_send"})
    /\ sending' = TRUE
    /\ UNCHANGED <<shutdown, stops, established, window, send, timer, closer, ending, closed,
                   bounds>>

\* HandleRst, or HandleACK of the last ACK, calls CloseAndDelete.
HandleEnd ==
    /\ Handling({"end"})
    /\ closer' = [closer EXCEPT !["handler"] = "called"]
    /\ UNCHANGED <<task, shutdown, stops, sending, data, timer, ending, closed, bounds>>

\* Mutant: every FIN starts one.
EnterTimeWaitAgain ==
    /\ Handling({"time_wait"})
    /\ closer' = [closer EXCEPT !["kill"] = "sleeping"]
    /\ UNCHANGED <<task, shutdown, stops, sending, data, timer, ending, closed, bounds>>

\* HandleFIN in FIN_WAIT_2 or HandleACK in CLOSING starts the thread, once.
EnterTimeWait ==
    /\ Handling({"time_wait"})
    /\ closer' = [closer EXCEPT !["kill"] = IF @ = "idle" THEN "sleeping" ELSE @]
    /\ UNCHANGED <<task, shutdown, stops, sending, data, timer, ending, closed, bounds>>

AllHandled ==
    /\ ~destroyed
    /\ task["PacketReceiveBufferListener"].at = "handle"
    /\ closer["handler"] = "idle"
    /\ batch = <<>>
    /\ task' = Move("PacketReceiveBufferListener", "loop")
    /\ UNCHANGED <<shutdown, stops, queues, data, timer, closer, ending, closed, bounds>>

\* PacketSendBufferListener, with MultiplexPacketsFromTcp.
SendPackets ==
    LET t == "PacketSendBufferListener"
    IN  /\ Passes(t, "pkt_send")
        /\ task' = Move(t, "loop")
        /\ sending' = (sending /\ destroy_send)
        /\ UNCHANGED <<shutdown, stops, pkts, batch, data, timer, closer, ending, closed, bounds>>

\* The first two waits of SendBufferListener.
AwaitWindow ==
    \E cv \in {"state", "send_window"} :
        LET t == "SendBufferListener"
        IN  /\ Passes(t, cv)
            /\ task' = Move(t, IF shutdown THEN "done"
                               ELSE IF cv = "state" THEN "loop" ELSE "send_buffer_read")
            /\ UNCHANGED <<shutdown, stops, queues, data, timer, closer, ending, closed, bounds>>

\* Its third wait and, when the window still has space, the sending; the window
\* may be full then.
SendData ==
    LET t == "SendBufferListener"
    IN  /\ Passes(t, "send_buffer_read")
        /\ shutdown \/ Free({"send_window", "pkt_send"})
        /\ IF shutdown \/ ~window
           THEN /\ task' = Move(t, IF shutdown THEN "done" ELSE "loop")
                /\ UNCHANGED <<window, send, sending>>
           ELSE /\ window' \in BOOLEAN
                /\ send' \in IF window' THEN {0} ELSE 0 .. send - 1
                /\ sending' = TRUE
                /\ task' = WakeAll(Move(t, "loop"),
                                   {"pkt_send", "send_buffer_write"}
                                       \cup IF send' = 0 THEN {"send_buffer_empty"} ELSE {})
        /\ UNCHANGED <<shutdown, stops, pkts, batch, established, recv, overflow, timer, closer,
                       ending, closed, bounds>>

\* ReceiveBufferListener.  Its wait does not look at shutdown_.
PushOverflowedPackets ==
    LET t == "ReceiveBufferListener"
    IN  /\ Passes(t, "recv_buffer_write")
        /\ recv' = recv + Pushed /\ overflow' = overflow - Pushed
        /\ task' \in WakeOne(Move(t, "loop"), "recv_buffer_read")
        /\ UNCHANGED <<shutdown, stops, queues, established, window, send, timer, closer, ending,
                       closed, bounds>>

\* SendFIN after its wait, and the sending with fin_timer_.Restart.
RegisterFIN ==
    /\ Passes("SendFIN", "send_buffer_empty")
    /\ shutdown \/ Free({"send_window"})
    /\ task' = Move("SendFIN", IF shutdown THEN "done" ELSE "rest")
    /\ UNCHANGED <<shutdown, stops, queues, data, timer, closer, ending, closed, bounds>>

TransmitFIN ==
    /\ ~destroyed
    /\ task["SendFIN"].at = "rest"
    /\ Free({"state", "pkt_send"})
    /\ task' = WakeAll(Move("SendFIN", "done"), {"pkt_send"})
    /\ sending' = TRUE /\ timer' = TRUE
    /\ UNCHANGED <<shutdown, stops, pkts, batch, data, closer, ending, closed, bounds>>

\* SendRSTForClosedConnection clears the receive buffer, notifies nobody of it,
\* restarts close_timer_ and sends the RST.
DiscardData ==
    LET t == "SendRSTForClosedConnection"
    IN  /\ Passes(t, "recv_buffer_read")
        /\ task' = Move(t, IF shutdown THEN "done" ELSE "rest")
        /\ recv' = IF shutdown THEN recv ELSE 0
        /\ UNCHANGED <<shutdown, stops, queues, established, window, send, overflow, timer,
                       closer, ending, closed, bounds>>

SendRST ==
    LET t == "SendRSTForClosedConnection"
    IN  /\ ~destroyed
        /\ task[t].at = "rest"
        /\ Free({"state", "pkt_send"})
        /\ task' = WakeAll(Move(t, "loop"), {"pkt_send"})
        /\ sending' = TRUE /\ timer' = TRUE
        /\ UNCHANGED <<shutdown, stops, pkts, batch, data, closer, ending, closed, bounds>>

-----------------------------------------------------------------------------
(* Users, and packets from the host. *)

\* A user calls ReadData or WriteData through the pointer in the socket.
Call(u) ==
    /\ attached /\ ~closed
    /\ u \in scenario.users
    /\ calls < scenario.max_calls
    /\ task[u].at = "absent"
    /\ u = "WriteData" => Free({"state"})
    /\ calls' = calls + 1
    /\ task' = Move(u, IF u = "ReadData" THEN "recv_buffer_read" ELSE "send_buffer_write")
    /\ UNCHANGED <<shutdown, stops, queues, data, timer, closer, ending, closed,
                   scenario, arrived>>

\* Mutant: nobody hears of the space.
ReadDataSilent ==
    /\ Passes("ReadData", "recv_buffer_read")
    /\ recv' = IF shutdown THEN recv ELSE recv - 1
    /\ task' = Move("ReadData", "absent")
    /\ UNCHANGED <<shutdown, stops, queues, established, window, send, overflow, timer, closer,
                   ending, closed, bounds>>

ReadData ==
    /\ Passes("ReadData", "recv_buffer_read")
    /\ recv' = IF shutdown THEN recv ELSE recv - 1
    /\ task' = WakeAll(Move("ReadData", "absent"),
                       IF shutdown THEN {} ELSE {"recv_buffer_write"})
    /\ UNCHANGED <<shutdown, stops, queues, established, window, send, overflow, timer, closer,
                   ending, closed, bounds>>

WriteData ==
    /\ Passes("WriteData", "send_buffer_write")
    /\ send' = IF shutdown THEN send ELSE send + 1
    /\ task' = WakeAll(Move("WriteData", "absent"),
                       IF shutdown THEN {} ELSE {"send_buffer_read"})
    /\ UNCHANGED <<shutdown, stops, queues, established, window, recv, overflow, timer, closer,
                   ending, closed, bounds>>

\* TryShutDown adds the task SendFIN.  A second one, which a Close after a
\* ShutDown may add, waits and ends like the first and is left out.
TryShutDown ==
    /\ scenario.closes
    /\ attached
    /\ Free({"state"})
    /\ task["SendFIN"].at = "absent"
    /\ task' = Move("SendFIN", "loop")
    /\ UNCHANGED <<shutdown, stops, queues, data, timer, closer, ending, closed, bounds>>

\* TryClose, with TryShutDown and CloseConnection.
TryClose ==
    /\ scenario.closes
    /\ attached /\ ~closed
    /\ Free({"state"})
    /\ closed' = TRUE
    /\ task' = WakeAll([task EXCEPT !["SendFIN"] = IF @.at = "absent" THEN At("loop") ELSE @,
                                    !["SendRSTForClosedConnection"] = At("loop")],
                       {"recv_buffer_read"})
    /\ UNCHANGED <<shutdown, stops, queues, data, timer, closer, ending, bounds>>

ReceiveNewPacket ==
    \E kind \in scenario.kinds :
        /\ ~destroyed
        /\ arrived < scenario.max_packets
        /\ Free({"pkt_recv"})
        /\ arrived' = arrived + 1
        /\ pkts' = Append(pkts, kind)
        /\ task' = WakeAll(task, {"pkt_recv"})
        /\ UNCHANGED <<shutdown, stops, batch, sending, data, timer, closer, ending, closed,
                       scenario, calls>>

-----------------------------------------------------------------------------
(* The end. *)

\* TearDown takes a fraction of a second and the timers take seconds: one that
\* is started again after StopTimers does not expire any more.
MayExpire ==
    /\ ~destroyed
    /\ scenario.timers /\ timer
    /\ closer["timer"] = "idle"
    /\ \A d \in TearDowns : down[d] \in {"none", "stop_timers"}

Expire ==
    /\ MayExpire
    /\ timer' = FALSE
    /\ closer' = [closer EXCEPT !["timer"] = "called"]
    /\ UNCHANGED <<task, shutdown, stops, queues, data, ending, closed, bounds>>

\* The 3 seconds of TIME_WAIT are over.
EndTimeWait ==
    /\ ~destroyed
    /\ closer["kill"] = "sleeping"
    /\ closer' = [closer EXCEPT !["kill"] = "called"]
    /\ UNCHANGED <<task, shutdown, stops, queues, data, timer, ending, closed, bounds>>

Returned(c) == IF c = "kill" THEN "returned" ELSE "idle"

\* Mutant: CloseAndDelete does not test shutdown_.
LoadShutdownNot(c) ==
    /\ ~destroyed
    /\ closer[c] = "called"
    /\ closer' = [closer EXCEPT ![c] = "loaded"]
    /\ UNCHANGED <<task, shutdown, stops, queues, data, timer, ending, closed, bounds>>

\* CloseAndDelete reads shutdown_ ...
LoadShutdown(c) ==
    /\ ~destroyed
    /\ closer[c] = "called"
    /\ closer' = [closer EXCEPT ![c] = IF shutdown THEN Returned(c) ELSE "loaded"]
    /\ UNCHANGED <<task, shutdown, stops, queues, data, timer, ending, closed, bounds>>

\* ... sets it, and starts the thread that runs TearDown.
StoreShutdown(c) ==
    /\ ~destroyed
    /\ closer[c] = "loaded"
    /\ closer' = [closer EXCEPT ![c] = Returned(c)]
    /\ shutdown' = TRUE
    /\ \E d \in TearDowns :
           /\ down[d] = "none" /\ \A e \in 1 .. d - 1 : down[e] # "none"
           /\ down' = [down EXCEPT ![d] = "stop_timers"]
    /\ UNCHANGED <<task, stops, queues, data, timer, attached, destroyed, closed, bounds>>

Tearing(d, from, to) ==
    /\ ~destroyed
    /\ down[d] = from
    /\ down' = [down EXCEPT ![d] = to]
    /\ UNCHANGED <<shutdown, queues, data, closer, closed, bounds>>

StopTimers(d) ==
    /\ Tearing(d, "stop_timers", "notify")
    /\ timer' = FALSE
    /\ UNCHANGED <<task, stops, attached, destroyed>>

\* Mutant: state_cv_ is not notified.
NotifyAllNoState(d) ==
    /\ Tearing(d, "notify", "stop_recv")
    /\ task' = WakeAll(task, Notified \ {"state"})
    /\ UNCHANGED <<stops, timer, attached, destroyed>>

\* The calls of notify_all.
NotifyAll(d) ==
    /\ Tearing(d, "notify", "stop_recv")
    /\ task' = WakeAll(task, Notified)
    /\ UNCHANGED <<stops, timer, attached, destroyed>>

\* PacketQueue::Stop of both queues; it returns at once the second time.
StopReceiving(d) ==
    /\ Tearing(d, "stop_recv", IF destroy_recv THEN "stop_send" ELSE "await_recv")
    /\ destroy_recv' = TRUE
    /\ task' = WakeAll(task, {"pkt_recv"})
    /\ UNCHANGED <<destroy_send, timer, attached, destroyed>>

NoReader(t, cv) == task[t].at # cv

AwaitReceiver(d) ==
    /\ Tearing(d, "await_recv", "stop_send")
    /\ NoReader("PacketReceiveBufferListener", "pkt_recv")
    /\ UNCHANGED <<task, stops, timer, attached, destroyed>>

StopSending(d) ==
    /\ Tearing(d, "stop_send", IF destroy_send THEN "detach" ELSE "await_send")
    /\ destroy_send' = TRUE
    /\ task' = WakeAll(task, {"pkt_send"})
    /\ UNCHANGED <<destroy_recv, timer, attached, destroyed>>

AwaitSender(d) ==
    /\ Tearing(d, "await_send", "detach")
    /\ NoReader("PacketSendBufferListener", "pkt_send")
    /\ UNCHANGED <<task, stops, timer, attached, destroyed>>

DetachSocket(d) ==
    /\ Tearing(d, "detach", "await_pool")
    /\ attached' = FALSE
    /\ UNCHANGED <<task, stops, timer, destroyed>>

\* Mutant: the threads are told to stop and not joined.
PoolEndedNot == TRUE

\* AwaitTermination returns.
PoolEnded == \A t \in Pool : task[t].at \in {"absent", "done"}

AwaitTermination(d) ==
    /\ Tearing(d, "await_pool", "destructor")
    /\ PoolEnded
    /\ UNCHANGED <<task, stops, timer, attached, destroyed>>

\* DeleteTcpConnection: the destructor runs TearDown again, which stops the
\* timers and notifies once more.
Destructor(d) ==
    /\ Tearing(d, "destructor", "delete")
    /\ timer' = FALSE
    /\ task' = WakeAll(task, Notified)
    /\ UNCHANGED <<stops, attached, destroyed>>

\* The object goes.  TearDown has slept for 50 ms, so a user that was woken has
\* left, and so has a timer's callback that was in CloseAndDelete.
Delete(d) ==
    /\ Tearing(d, "delete", "over")
    /\ \A u \in Users : task[u].at = "absent" \/ task[u].wait # "test"
    /\ closer["timer"] \notin {"called", "loaded"}
    /\ destroyed' = TRUE
    /\ UNCHANGED <<task, stops, timer, attached>>

-----------------------------------------------------------------------------
PoolStep(t) == Loop(t) \/ TestFails(t) \/ Block(t)

Handler ==
    \/ TakePackets
    \/ HandleACK
    \/ HandleDataPacket
    \/ HandleEnd
    \/ EnterTimeWait
    \/ AllHandled

SendBufferListener == AwaitWindow \/ SendData

FinSender == RegisterFIN \/ TransmitFIN

RstSender == DiscardData \/ SendRST

\* One thread of the pool for each task.
TaskStep(t) ==
    \/ PoolStep(t)
    \/ t = "PacketReceiveBufferListener" /\ Handler
    \/ t = "PacketSendBufferListener" /\ SendPackets
    \/ t = "SendBufferListener" /\ SendBufferListener
    \/ t = "ReceiveBufferListener" /\ PushOverflowedPackets
    \/ t = "SendFIN" /\ FinSender
    \/ t = "SendRSTForClosedConnection" /\ RstSender

UserStep(u) ==
    \/ TestFails(u)
    \/ Block(u)
    \/ u = "ReadData" /\ ReadData
    \/ u = "WriteData" /\ WriteData

TearDown(d) ==
    \/ StopTimers(d)
    \/ NotifyAll(d)
    \/ StopReceiving(d)
    \/ AwaitReceiver(d)
    \/ StopSending(d)
    \/ AwaitSender(d)
    \/ DetachSocket(d)
    \/ AwaitTermination(d)
    \/ Destructor(d)
    \/ Delete(d)

CloseAndDelete(c) == LoadShutdown(c) \/ StoreShutdown(c)

\* The steps of the threads that are there.
Running ==
    \/ \E t \in Pool : TaskStep(t)
    \/ \E u \in Users : UserStep(u)
    \/ \E c \in Closers : CloseAndDelete(c)
    \/ \E d \in TearDowns : TearDown(d)

Next ==
    \/ Running
    \/ \E u \in Users : Call(u)
    \/ TryShutDown
    \/ TryClose
    \/ ReceiveNewPacket
    \/ Expire
    \/ EndTimeWait

Spec == Init /\ [][Next]_vars

\* One thing ends the connection: a packet, a timer, or the end of TIME_WAIT.
OneCause ==
    Cardinality(scenario.kinds \cap {"end", "time_wait"}) + (IF scenario.timers THEN 1 ELSE 0) <= 1

\* ... and the receive buffer does not get full, and no notification of TearDown
\* falls between a test and its block.
Calm ==
    /\ OneCause
    /\ scenario.max_packets < scenario.capacity
    /\ ~scenario.lost_wakeups

\* Where it is calm the program goes on running as long as some thread of it can
\* run; it need not be every thread's turn.  The timers, the network and the
\* users' decisions are not fair.
LiveSpec == Spec /\ WF_vars(Calm /\ Running)

-----------------------------------------------------------------------------
(* Properties. *)

\* The object goes only when no task of its pool is left that would go on using
\* it: TearDown joins them before DeleteTcpConnection.
JoinBeforeDelete == destroyed => \A t \in Pool : task[t].at \in {"absent", "done"}

\* Nothing uses the object when it is gone: no caller of CloseAndDelete, no
\* thread in TearDown, no thread that sleeps through TIME_WAIT.
GoneUnused ==
    destroyed => /\ \A c \in Closers : closer[c] \in {"idle", "returned"}
                 /\ \A d \in TearDowns : down[d] \in {"none", "over"}

\* Nothing does, whatever the order of the steps, when one thing ends the
\* connection: CloseAndDelete tests and sets shutdown_ in two steps, and the
\* thread of TIME_WAIT does not know of another end.
NoUseAfterDelete == OneCause => GoneUnused

\* A connection that is shut down is deleted: TearDown gets every task to end.
EventuallyDeleted == Calm /\ shutdown ~> destroyed

\* The users that wait for data or for space in a buffer get out when the
\* connection is shut down, and in the end nobody is inside.
UsersReturn == Calm /\ shutdown ~> \A u \in Users : task[u].at = "absent"

\* No task or user sleeps through what it waits for: every change that makes a
\* condition true comes with a notification, made where it cannot get lost.
EveryChangeNotified ==
    ~shutdown => \A t \in DOMAIN task : task[t].wait = "blocked" => ~Ready(task[t].at)

\* None does before the user closes the connection: what the task of TryClose
\* clears from the receive buffer it tells nobody.
NoMissedWakeup == ~closed => EveryChangeNotified

\* When TearDown waits for the pool, no task is asleep that nobody will wake.
NoSleeper ==
    (\E d \in TearDowns : down[d] = "await_pool") =>
        \A t \in Pool : task[t].wait # "blocked"

\* The tasks of the constructor end only when the connection is closed by
\* CloseAndDelete.
ListenersRun ==
    (\E t \in Listeners : task[t].at = "done") => \E d \in TearDowns : down[d] # "none"

\* A user that waits in ReadData gets out when the connection is closed, and
\* does not go on waiting.
CloseWakesReaders == closed => task["ReadData"].wait # "blocked"
=============================================================================
