----------------------------- MODULE HostTables -----------------------------
(***************************************************************************)
(* The tables of a host and of a process on it (Host.cc, Kernel.cc): file  *)
(* descriptors, open files, ports, listeners and connections, under the    *)
(* system calls of the process's threads, the arrival of SYNs and the end  *)
(* of connections.                                                         *)
(*                                                                         *)
(* A system call is one action per critical section; what a thread holds   *)
(* in between (a descriptor, an id, a Socket*, a TcpController* ) is in    *)
(* thr[t].  A Socket lives in its open file and ids are not used twice, so *)
(* a Socket* is the id of its file, and it dangles when the file is gone.  *)
(* A connection is its phase, its socket and release_port_: the protocol   *)
(* is the subject of TcpConnection, the join of its threads of Teardown.   *)
(***************************************************************************)
EXTENDS NumPool, Sequences

CONSTANTS
    Threads,       \* the threads of the process
    Remotes,       \* the other ends (address and port) of connections
    MaxFd,         \* kMaxFd; kMinFd is 3
    MaxOpenFileId, \* kMaxOpenFileId; kMinOpenFileId is 0
    MaxPort,       \* kMaxPort; kMinPort is 0
    BindPorts,     \* the ports the process binds sockets to
    Programs       \* the programs it may be running

Fds == NewPool(3, MaxFd)
OpenFileIds == NewPool(0, MaxOpenFileId)
Ports == NewPool(0, MaxPort)
AllOps == {"Socket", "Bind", "Listen", "Accept", "Connect", "Read", "Write", "ShutDown", "Close"}

\* A program makes the calls in ops from its threads.  A careful one accepts
\* from listeners while every thread can get a descriptor, binds no connected
\* socket, connects a socket once, reads and writes sockets that were connected,
\* and uses a socket from one thread at a time, but for Accept.  The bounds: how
\* many calls it makes and how many connections other hosts open.
Program == [ops : SUBSET AllOps, threads : SUBSET Threads, careful : BOOLEAN,
            max_calls : Nat, max_arrivals : Nat]

ASSUME TablesAssumption ==
    /\ MaxFd \in Nat /\ MaxOpenFileId \in Nat /\ MaxPort \in Nat
    /\ BindPorts \subseteq Ports
    /\ Programs \subseteq Program

VARIABLES
    fd_pool, fd_table,             \* the process
    open_file_id_pool, open_files_table, port_pool, listeners, connections,
    thr,                           \* thr[t]: where thread t is
    leaving,                       \* leaving[t]: what ReleaseResource has to close,
                                   \* and -1 when the program has returned
    program, calls, arrivals,
    crashed,                       \* a null pointer was used
    dangling                       \* a Socket was used after its file was erased

process == <<fd_pool, fd_table>>
bounds == <<program, calls, arrivals>>
vars == <<fd_pool, fd_table, open_file_id_pool, open_files_table, port_pool, listeners,
          connections, thr, leaving, bounds, crashed, dangling>>

-----------------------------------------------------------------------------
(* The objects. *)

\* A TcpControllerKey: the other end and the local port.
Key == Remotes \X (Ports \cup {-1})

NoKey == <<>>

\* A KernelOpenFile with its Socket; local_port is 0 in a new one.
OpenFile == [refs : Int, local_port : Ports \cup {-1}, shut : BOOLEAN,
             tcp_con : Key \cup {NoKey}]

NewOpenFile == [refs |-> 1, local_port |-> 0, shut |-> FALSE, tcp_con |-> NoKey]

isBound(file) == file.local_port > 0

\* A TcpController: live, CloseAndDelete begun, detached, first TearDown over;
\* or for ever in the destructor, with threads that were not told to stop.
Connection == [phase : {"live", "shutdown", "detached", "torn_down", "stuck"},
               socket : OpenFileIds, release_port : BOOLEAN, closed : BOOLEAN]

NewConnection(id) ==
    [phase |-> "live", socket |-> id, release_port |-> FALSE, closed |-> FALSE]

Stages == {"none", "found", "got", "wait", "new", "table", "erase", "release", "stuck"}

Idle == [op |-> "none", stage |-> "none", fd |-> -1, id |-> -1, new |-> -1,
         port |-> 0, tcp_con |-> NoKey]

Thread == [op : AllOps \cup {"none"}, stage : Stages, fd : Fds \cup {-1},
           id : OpenFileIds \cup {-1}, new : OpenFileIds \cup {-1}, port : Ports \cup {-1},
           tcp_con : Key \cup {NoKey}]

\* f with x |-> y, unless x is there: emplace.
Emplace(f, x, y) == [z \in DOMAIN f \cup {x} |-> IF z \in DOMAIN f THEN f[z] ELSE y]

Erase(f, x) == [z \in DOMAIN f \ {x} |-> f[z]]

TypeOK ==
    /\ fd_pool \subseteq Fds
    /\ DOMAIN fd_table \subseteq Fds
    /\ \A fd \in DOMAIN fd_table : fd_table[fd] \in OpenFileIds \cup {-1}
    /\ open_file_id_pool \subseteq OpenFileIds
    /\ DOMAIN open_files_table \subseteq OpenFileIds
    /\ \A id \in DOMAIN open_files_table : open_files_table[id] \in OpenFile
    /\ port_pool \subseteq Ports \cup {-1}
    /\ DOMAIN listeners \subseteq Ports
    /\ \A p \in DOMAIN listeners : listeners[p] \in Seq(OpenFileIds)
    /\ DOMAIN connections \subseteq Key
    /\ \A k \in DOMAIN connections : connections[k] \in Connection
    /\ thr \in [Threads -> Thread]
    /\ leaving \in [Threads -> SUBSET (Fds \cup {-1})]
    /\ program \in Programs
    /\ calls \in 0 .. program.max_calls /\ arrivals \in 0 .. program.max_arrivals
    /\ {crashed, dangling} \subseteq BOOLEAN

Init ==
    /\ fd_pool = Fds
    /\ fd_table = <<>>
    /\ open_file_id_pool = OpenFileIds
    /\ open_files_table = <<>>
    /\ port_pool = Ports
    /\ listeners = <<>>
    /\ connections = <<>>
    /\ thr = [t \in Threads |-> Idle]
    /\ leaving = [t \in Threads |-> {}]
    /\ program \in Programs
    /\ calls = 0 /\ arrivals = 0
    /\ crashed = FALSE /\ dangling = FALSE

-----------------------------------------------------------------------------
(* System calls of the process. *)

At(t, op, stage) == ~crashed /\ thr[t].op = op /\ thr[t].stage = stage

Go(t, r) == thr' = [thr EXCEPT ![t] = r]

Return(t) == Go(t, Idle)

File(t) == open_files_table[thr[t].id]

SetFile(id, file) == open_files_table' = [open_files_table EXCEPT ![id] = file]

\* The program runs, and a thread of it may make a call.
MayCall(t) ==
    /\ ~crashed
    /\ t \in program.threads
    /\ thr[t] = Idle
    /\ \A u \in Threads : -1 \notin leaving[u]
    /\ calls < program.max_calls

\* How a careful program uses its sockets.
Sensible(op, id) ==
    /\ \A u \in Threads : thr[u].id = id => op = "Accept" /\ thr[u].op = "Accept"
    /\ op = "Accept" =>
           /\ id \in DOMAIN open_files_table
           /\ isBound(open_files_table[id])
           /\ open_files_table[id].local_port \in DOMAIN listeners
           /\ Cardinality(program.threads) <= Cardinality(fd_pool)
    /\ op \in {"Read", "Write", "ShutDown"} /\ id \in DOMAIN open_files_table =>
           isBound(open_files_table[id]) \/ open_files_table[id].tcp_con # NoKey
    /\ op \in {"Bind", "Connect"} =>
           \A k \in DOMAIN connections : connections[k].socket # id

\* FindFdMappedFileId, the first step of every call but Socket.
FindFdMappedFileId(t) ==
    \E op \in program.ops \ {"Socket"}, fd \in DOMAIN fd_table :
        /\ MayCall(t)
        /\ fd_table[fd] >= 0
        /\ program.careful => Sensible(op, fd_table[fd])
        /\ Go(t, [Idle EXCEPT !.op = op, !.stage = "found", !.fd = fd, !.id = fd_table[fd]])
        /\ calls' = calls + 1
        /\ UNCHANGED <<process, open_file_id_pool, open_files_table, port_pool, listeners,
                       connections, leaving, program, arrivals, crashed, dangling>>

Socket(t) ==
    LET r == Allocate(fd_pool)
    IN  /\ MayCall(t)
        /\ "Socket" \in program.ops
        /\ Go(t, IF r.num < 0 THEN Idle
                 ELSE [Idle EXCEPT !.op = "Socket", !.stage = "new", !.fd = r.num])
        /\ fd_pool' = r.pool
        /\ calls' = calls + 1
        /\ UNCHANGED <<fd_table, open_file_id_pool, open_files_table, port_pool, listeners,
                       connections, leaving, program, arrivals, crashed, dangling>>

\* Mutant: the id stays in the pool.
CreateNewSocketKeep(t) ==
    LET r == Allocate(open_file_id_pool)
    IN  /\ At(t, "Socket", "new")
        /\ IF r.num < 0
           THEN /\ Return(t)
                /\ UNCHANGED open_files_table
           ELSE /\ Go(t, [thr[t] EXCEPT !.stage = "table", !.new = r.num])
                /\ open_files_table' = Emplace(open_files_table, r.num, NewOpenFile)
        /\ UNCHANGED <<process, open_file_id_pool, port_pool, listeners, connections, leaving,
                       bounds, crashed, dangling>>

\* CreateNewSocket: nobody knows the id before its file is in the table.
CreateNewSocket(t) ==
    LET r == Allocate(open_file_id_pool)
    IN  /\ At(t, "Socket", "new")
        /\ open_file_id_pool' = r.pool
        /\ IF r.num < 0
           THEN /\ Return(t)
                /\ UNCHANGED open_files_table
           ELSE /\ Go(t, [thr[t] EXCEPT !.stage = "table", !.new = r.num])
                /\ open_files_table' = Emplace(open_files_table, r.num, NewOpenFile)
        /\ UNCHANGED <<process, port_pool, listeners, connections, leaving, bounds,
                       crashed, dangling>>

\* The last step of Socket and Accept.
EmplaceFd(t) ==
    /\ At(t, "Socket", "table") \/ At(t, "Accept", "table")
    /\ fd_table' = Emplace(fd_table, thr[t].fd, thr[t].new)
    /\ Return(t)
    /\ UNCHANGED <<fd_pool, open_file_id_pool, open_files_table, port_pool, listeners,
                   connections, leaving, bounds, crashed, dangling>>

\* GetSocket.  SocketConnect does not test for a null pointer.
GetSocket(t) ==
    /\ ~crashed
    /\ thr[t].stage = "found" /\ thr[t].op # "Close"
    /\ IF thr[t].id \in DOMAIN open_files_table
       THEN Go(t, [thr[t] EXCEPT !.stage = "got"]) /\ UNCHANGED crashed
       ELSE Return(t) /\ crashed' = (thr[t].op = "Connect")
    /\ UNCHANGED <<process, open_file_id_pool, open_files_table, port_pool, listeners,
                   connections, leaving, bounds, dangling>>

HoldsSocket(t) ==
    \/ thr[t].stage = "got"
    \/ thr[t].stage = "table" /\ thr[t].op \in {"Bind", "Connect"}

\* The pointer GetSocket returned is used after the file is gone.  What the
\* call does then is undefined, and not modelled any further.
UseErasedSocket(t) ==
    /\ ~crashed
    /\ HoldsSocket(t)
    /\ thr[t].id \notin DOMAIN open_files_table
    /\ dangling' = TRUE
    /\ Return(t)
    /\ UNCHANGED <<process, open_file_id_pool, open_files_table, port_pool, listeners,
                   connections, leaving, bounds, crashed>>

HasSocket(t, op, stage) == At(t, op, stage) /\ thr[t].id \in DOMAIN open_files_table

\* SocketBind up to Take.
TakePort(t) ==
    \E port \in BindPorts :
        LET r == Take(port_pool, port)
        IN  /\ HasSocket(t, "Bind", "got")
            /\ IF isBound(File(t)) \/ ~r.ok
               THEN Return(t) /\ UNCHANGED port_pool
               ELSE /\ Go(t, [thr[t] EXCEPT !.stage = "table", !.port = port])
                    /\ port_pool' = r.pool
            /\ UNCHANGED <<process, open_file_id_pool, open_files_table, listeners,
                           connections, leaving, bounds, crashed, dangling>>

Bind(t) ==
    /\ HasSocket(t, "Bind", "table")
    /\ SetFile(thr[t].id, [File(t) EXCEPT !.local_port = thr[t].port])
    /\ Return(t)
    /\ UNCHANGED <<process, open_file_id_pool, port_pool, listeners, connections,
                   leaving, bounds, crashed, dangling>>

\* GetSocketLocalBound in SocketListen.
GetSocketLocalBound(t) ==
    /\ HasSocket(t, "Listen", "got")
    /\ Go(t, IF isBound(File(t))
             THEN [thr[t] EXCEPT !.stage = "table", !.port = File(t).local_port]
             ELSE Idle)
    /\ UNCHANGED <<process, open_file_id_pool, open_files_table, port_pool, listeners,
                   connections, leaving, bounds, crashed, dangling>>

\* The rest of SocketListen.  A listener that is there stays.
SocketListen(t) ==
    /\ At(t, "Listen", "table")
    /\ listeners' = Emplace(listeners, thr[t].port, <<>>)
    /\ Return(t)
    /\ UNCHANGED <<process, open_file_id_pool, open_files_table, port_pool,
                   connections, leaving, bounds, crashed, dangling>>

\* SocketAccept finds its listener.  It returns false, which is 0, for a socket
\* that is not bound and -1 for one that does not listen.
SocketAccept(t) ==
    LET port == File(t).local_port
    IN  /\ HasSocket(t, "Accept", "got")
        /\ Go(t, IF ~isBound(File(t)) THEN [thr[t] EXCEPT !.stage = "new", !.new = 0]
                 ELSE IF port \notin DOMAIN listeners THEN [thr[t] EXCEPT !.stage = "new"]
                 ELSE [thr[t] EXCEPT !.stage = "wait", !.port = port])
        /\ UNCHANGED <<process, open_file_id_pool, open_files_table, port_pool, listeners,
                       connections, leaving, bounds, crashed, dangling>>


\* The wait on the listener's condition variable is over.
PopConnection(t) ==
    /\ At(t, "Accept", "wait")
    /\ listeners[thr[t].port] # <<>>
    /\ Go(t, [thr[t] EXCEPT !.stage = "new", !.new = Head(listeners[thr[t].port])])
    /\ listeners' = [listeners EXCEPT ![thr[t].port] = Tail(@)]
    /\ UNCHANGED <<process, open_file_id_pool, open_files_table, port_pool,
                   connections, leaving, bounds, crashed, dangling>>

\* Accept's descriptor.  Without one DeleteSocketAndConnection erases the file
\* of the descriptor Accept was called with, and the connection of that socket
\* if it has one: its destructor detaches the erased socket, and waits for ever
\* as shutdown_ is not set.
AcceptFd(t) ==
    LET r   == Allocate(fd_pool)
        id  == thr[t].id
        key == IF id \in DOMAIN open_files_table THEN File(t).tcp_con ELSE NoKey
        del == r.num < 0 /\ key \in DOMAIN connections /\ key[2] > 0
    IN  /\ At(t, "Accept", "new")
        /\ fd_pool' = r.pool
        /\ Go(t, IF del THEN [thr[t] EXCEPT !.stage = "stuck"] ELSE IF r.num < 0 THEN Idle
                 ELSE [thr[t] EXCEPT !.stage = "table", !.fd = r.num])
        /\ open_files_table' = IF r.num < 0 THEN Erase(open_files_table, id) ELSE open_files_table
        /\ connections' = IF del THEN [connections EXCEPT ![key].phase = "stuck"] ELSE connections
        /\ dangling' = (dangling \/ del)
        /\ UNCHANGED <<fd_table, open_file_id_pool, listeners, port_pool, leaving, bounds, crashed>>

\* SocketConnect binds the socket to a port of its choice.
BindRandom(t) ==
    \E r \in AllocateRandom(port_pool) :
        /\ HasSocket(t, "Connect", "got")
        /\ IF isBound(File(t))
           THEN /\ Go(t, [thr[t] EXCEPT !.stage = "table", !.port = File(t).local_port])
                /\ UNCHANGED <<port_pool, open_files_table>>
           ELSE /\ Go(t, [thr[t] EXCEPT !.stage = "table", !.port = r.num])
                /\ port_pool' = r.pool
                /\ SetFile(thr[t].id, [File(t) EXCEPT !.local_port = r.num])
        /\ UNCHANGED <<process, open_file_id_pool, listeners, connections, leaving,
                       bounds, crashed, dangling>>

\* The rest of SocketConnect.  When the key is there already the socket gets
\* the old connection, TryConnect fails as that is not CLOSED, and the clean-up
\* releases the port.
SocketConnect(t) ==
    \E remote \in Remotes :
        LET key == <<remote, thr[t].port>>
        IN  /\ HasSocket(t, "Connect", "table")
            /\ connections' = Emplace(connections, key, NewConnection(thr[t].id))
            /\ SetFile(thr[t].id, [File(t) EXCEPT !.tcp_con = key])
            /\ port_pool' = IF key \in DOMAIN connections THEN Release(port_pool, thr[t].port)
                            ELSE port_pool
            /\ Return(t)
            /\ UNCHANGED <<process, open_file_id_pool, listeners, leaving, bounds,
                           crashed, dangling>>

\* ReadData, WriteData and ShutDownSocket fetch the connection.  WriteData
\* tests for a null pointer.
GetConnection(t) ==
    LET f    == File(t)
        op   == thr[t].op
        stop == (op \in {"Write", "ShutDown"} /\ f.shut) \/ (op = "Write" /\ f.tcp_con = NoKey)
    IN  /\ \E o \in {"Read", "Write", "ShutDown"} : HasSocket(t, o, "got")
        /\ SetFile(thr[t].id, [f EXCEPT !.shut = @ \/ op = "ShutDown"])
        /\ IF stop \/ f.tcp_con = NoKey
           THEN Return(t) /\ crashed' = ~stop
           ELSE /\ Go(t, [thr[t] EXCEPT !.stage = "wait", !.tcp_con = f.tcp_con])
                /\ UNCHANGED crashed
        /\ UNCHANGED <<process, open_file_id_pool, port_pool, listeners, connections,
                       leaving, bounds, dangling>>

\* The call of the connection returns.
ReturnFromConnection(t) ==
    /\ \E op \in {"Read", "Write", "ShutDown"} : At(t, op, "wait")
    /\ Return(t)
    /\ UNCHANGED <<process, open_file_id_pool, open_files_table, port_pool, listeners,
                   connections, leaving, bounds, crashed, dangling>>

\* DecOpenFileRef.  The last reference closes the connection, which is to
\* release the port, or releases the port.
DecOpenFileRef(t) ==
    LET id   == thr[t].id
        f    == File(t)
        last == id \in DOMAIN open_files_table /\ f.refs <= 1
    IN  /\ At(t, "Close", "found")
        /\ open_files_table' =
               IF last THEN Erase(open_files_table, id)
               ELSE IF id \in DOMAIN open_files_table
               THEN [open_files_table EXCEPT ![id].refs = @ - 1] ELSE open_files_table
        /\ connections' =
               IF last /\ f.tcp_con \in DOMAIN connections
               THEN [connections EXCEPT ![f.tcp_con].closed = TRUE,
                                        ![f.tcp_con].release_port = @ \/ isBound(f)]
               ELSE connections
        /\ port_pool' = IF last /\ f.tcp_con = NoKey /\ isBound(f)
                        THEN Release(port_pool, f.local_port) ELSE port_pool
        /\ Go(t, [thr[t] EXCEPT !.stage = "erase"])
        /\ UNCHANGED <<process, open_file_id_pool, listeners, leaving, bounds, crashed, dangling>>

EraseFd(t) ==
    /\ At(t, "Close", "erase")
    /\ fd_table' = Erase(fd_table, thr[t].fd)
    /\ Go(t, IF thr[t].fd \in DOMAIN fd_table THEN [thr[t] EXCEPT !.stage = "release"] ELSE Idle)
    /\ UNCHANGED <<fd_pool, open_file_id_pool, open_files_table, port_pool, listeners,
                   connections, leaving, bounds, crashed, dangling>>

\* Mutant: the descriptor is not released.
ReleaseFdNot(t) ==
    /\ At(t, "Close", "release")
    /\ Return(t)
    /\ UNCHANGED <<process, open_file_id_pool, open_files_table, port_pool, listeners,
                   connections, leaving, bounds, crashed, dangling>>

ReleaseFd(t) ==
    /\ At(t, "Close", "release")
    /\ fd_pool' = Release(fd_pool, thr[t].fd)
    /\ Return(t)
    /\ UNCHANGED <<fd_table, open_file_id_pool, open_files_table, port_pool, listeners,
                   connections, leaving, bounds, crashed, dangling>>


\* Run: the program has returned.
ReleaseResource(t) ==
    /\ ~crashed
    /\ t \in program.threads
    /\ \A u \in Threads : thr[u] = Idle /\ leaving[u] = {}
    /\ leaving' = [leaving EXCEPT ![t] = DOMAIN fd_table \cup {-1}]
    /\ UNCHANGED <<process, open_file_id_pool, open_files_table, port_pool, listeners,
                   connections, thr, bounds, crashed, dangling>>

\* ReleaseResource closes the next descriptor.
CloseNext(t) ==
    LET fd == Min(leaving[t] \ {-1})
    IN  /\ ~crashed
        /\ thr[t] = Idle
        /\ leaving[t] \ {-1} # {}
        /\ leaving' = [leaving EXCEPT ![t] = @ \ {fd}]
        /\ Go(t, IF fd \in DOMAIN fd_table /\ fd_table[fd] >= 0
                 THEN [Idle EXCEPT !.op = "Close", !.stage = "found", !.fd = fd,
                                   !.id = fd_table[fd]]
                 ELSE Idle)
        /\ UNCHANGED <<process, open_file_id_pool, open_files_table, port_pool, listeners,
                       connections, bounds, crashed, dangling>>

-----------------------------------------------------------------------------
(* The threads of the host and of the connections. *)

\* connections_mutex_ is free: the destructor that waits for ever holds it.
ConnectionsFree == \A key \in DOMAIN connections : connections[key].phase # "stuck"

\* HandleNewConnection for a SYN with this key.  The demultiplexing thread
\* creates file and connection and queues the id; nobody else knows it before.
HandleNewConnection(key) ==
    LET r == Allocate(open_file_id_pool)
    IN  /\ ~crashed
        /\ ConnectionsFree
        /\ arrivals < program.max_arrivals
        /\ key[2] \in DOMAIN listeners
        /\ key \notin DOMAIN connections
        /\ r.num >= 0
        /\ open_file_id_pool' = r.pool
        /\ open_files_table' =
               Emplace(open_files_table, r.num, [NewOpenFile EXCEPT !.tcp_con = key])
        /\ connections' = Emplace(connections, key, NewConnection(r.num))
        /\ listeners' = [listeners EXCEPT ![key[2]] = Append(@, r.num)]
        /\ arrivals' = arrivals + 1
        /\ UNCHANGED <<process, port_pool, thr, leaving, program, calls, crashed, dangling>>

Phase(key, phase) ==
    ~crashed /\ key \in DOMAIN connections /\ connections[key].phase = phase

\* An RST, a timer or the last acknowledgement ends the connection.
CloseAndDelete(key) ==
    /\ Phase(key, "live")
    /\ connections' = [connections EXCEPT ![key].phase = "shutdown"]
    /\ UNCHANGED <<process, open_file_id_pool, open_files_table, port_pool, listeners,
                   thr, leaving, bounds, crashed, dangling>>


\* Mutant: the socket is looked up with operator[], which makes a new entry.
DetachedInserts(key) ==
    LET id == connections[key].socket
    IN  [Emplace(open_files_table, id, NewOpenFile) EXCEPT ![id].tcp_con = NoKey]

\* What DetachSocket does to the table of open files.
Detached(key) ==
    LET id == connections[key].socket
    IN  IF id \in DOMAIN open_files_table
        THEN [open_files_table EXCEPT ![id].tcp_con = NoKey] ELSE open_files_table

UsesErased(key) == connections[key].socket \notin DOMAIN open_files_table

DetachSocket(key) ==
    /\ Phase(key, "shutdown")
    /\ connections' = [connections EXCEPT ![key].phase = "detached"]
    /\ open_files_table' = Detached(key)
    /\ dangling' = (dangling \/ UsesErased(key))
    /\ UNCHANGED <<process, open_file_id_pool, port_pool, listeners, thr, leaving,
                   bounds, crashed>>

PortsAfter(key) ==
    IF connections[key].release_port THEN Release(port_pool, key[2]) ELSE port_pool

\* The end of TearDown, when the threads are joined.
TearDown(key) ==
    /\ Phase(key, "detached")
    /\ connections' = [connections EXCEPT ![key].phase = "torn_down"]
    /\ port_pool' = PortsAfter(key)
    /\ UNCHANGED <<process, open_file_id_pool, open_files_table, listeners, thr, leaving,
                   bounds, crashed, dangling>>

\* DeleteTcpConnection, with the TearDown of the destructor.
DeleteTcpConnection(key) ==
    /\ Phase(key, "torn_down")
    /\ ConnectionsFree
    /\ connections' = Erase(connections, key)
    /\ open_files_table' = Detached(key)
    /\ dangling' = (dangling \/ UsesErased(key))
    /\ port_pool' = PortsAfter(key)
    /\ UNCHANGED <<process, open_file_id_pool, listeners, thr, leaving, bounds, crashed>>

-----------------------------------------------------------------------------
ThreadStep(t) ==
    \/ FindFdMappedFileId(t)
    \/ Socket(t)
    \/ CreateNewSocket(t)
    \/ EmplaceFd(t)
    \/ GetSocket(t)
    \/ UseErasedSocket(t)
    \/ TakePort(t)
    \/ Bind(t)
    \/ GetSocketLocalBound(t)
    \/ SocketListen(t)
    \/ SocketAccept(t)
    \/ PopConnection(t)
    \/ AcceptFd(t)
    \/ BindRandom(t)
    \/ SocketConnect(t)
    \/ GetConnection(t)
    \/ ReturnFromConnection(t)
    \/ DecOpenFileRef(t)
    \/ EraseFd(t)
    \/ ReleaseFd(t)
    \/ ReleaseResource(t)
    \/ CloseNext(t)

ConnectionStep(key) ==
    \/ HandleNewConnection(key)
    \/ CloseAndDelete(key)
    \/ DetachSocket(key)
    \/ TearDown(key)
    \/ DeleteTcpConnection(key)

Next == (\E t \in Threads : ThreadStep(t)) \/ (\E key \in Key : ConnectionStep(key))

Spec == Init /\ [][Next]_vars

-----------------------------------------------------------------------------
(* Properties. *)

\* The threads that are to put the new id into the table of descriptors.
Carriers(id) ==
    {t \in Threads : thr[t].op \in {"Socket", "Accept"} /\ thr[t].stage \in {"new", "table"}
                     /\ thr[t].new = id}

FdsOf(id) == {fd \in DOMAIN fd_table : fd_table[fd] = id}

QueuePlaces(id) ==
    {x \in (DOMAIN listeners) \X (1 .. MaxOpenFileId + 1) :
        x[2] <= Len(listeners[x[1]]) /\ listeners[x[1]][x[2]] = id}

\* An open file is in one place: a descriptor, the queue of a listener, or the
\* hands of a thread in Socket or Accept.
OneOwner ==
    \A id \in DOMAIN open_files_table :
        Cardinality(FdsOf(id)) + Cardinality(QueuePlaces(id)) + Cardinality(Carriers(id)) = 1


\* No id is given out twice: an id that can be given out has no open file and
\* is in no queue, and an id is queued once, so that one Accept returns it.
IdsUnique ==
    /\ open_file_id_pool \cap DOMAIN open_files_table = {}
    /\ \A p \in DOMAIN listeners : \A i \in 1 .. Len(listeners[p]) :
           listeners[p][i] \notin open_file_id_pool
    /\ \A p, q \in DOMAIN listeners :
           \A i \in 1 .. Len(listeners[p]) : \A j \in 1 .. Len(listeners[q]) :
               listeners[p][i] = listeners[q][j] => p = q /\ i = j

\* An open file that is erased never comes back under its id: a Socket* or an
\* id that a thread still holds never refers to another socket.
NeverReopened ==
    [][\A id \in OpenFileIds :
          id \notin open_file_id_pool /\ id \notin DOMAIN open_files_table =>
              id \notin DOMAIN open_files_table']_vars

\* The descriptors a thread has taken from the pool and not yet put into the
\* table, or has erased from the table and not yet put back.
HeldFds ==
    {thr[t].fd : t \in {u \in Threads :
        \/ thr[u].op \in {"Socket", "Accept"} /\ thr[u].fd \in Fds
               /\ (thr[u].op = "Socket" \/ thr[u].stage = "table")
        \/ thr[u].stage = "release"}}

\* A descriptor is in the pool, in the table or on its way between them, until
\* the ids run out: Socket then returns without releasing its descriptor.
FdsConserved ==
    open_file_id_pool # {} =>
        /\ fd_pool \cap DOMAIN fd_table = {}
        /\ (fd_pool \cup DOMAIN fd_table) \cap HeldFds = {}
        /\ fd_pool \cup DOMAIN fd_table \cup HeldFds = Fds

\* A port that a socket is bound to, or that a closed connection is still to
\* release, is not in the pool, and no other socket is bound to it.
OneSocketPerPort ==
    /\ \A id \in DOMAIN open_files_table :
           LET f == open_files_table[id]
           IN  isBound(f) =>
                   /\ f.local_port \notin port_pool
                   /\ \A other \in DOMAIN open_files_table \ {id} :
                          open_files_table[other].local_port # f.local_port
    /\ \A key \in DOMAIN connections :
           connections[key].release_port /\ connections[key].phase # "torn_down" =>
               key[2] \notin port_pool

\* A careful program's ports have one socket each, if it does not both connect
\* and close: the TearDown of a closed connection releases its port twice.
PortsExclusive ==
    program.careful /\ ~({"Connect", "Close"} \subseteq program.ops) => OneSocketPerPort



\* After the last reference is gone and the connection is closed, no thread of
\* the process is inside one of its calls.
NoUserAfterClose ==
    \A t \in Threads :
        thr[t].stage = "wait" /\ thr[t].tcp_con \in DOMAIN connections =>
            ~connections[thr[t].tcp_con].closed

\* An id that no open file has can be given out again.
IdsConserved ==
    \A id \in OpenFileIds : id \in open_file_id_pool \/ id \in DOMAIN open_files_table

\* A new connection is made for a port that an open socket is bound to.
ListenerIsOpen ==
    [][\A key \in Key :
          HandleNewConnection(key) =>
              \E id \in DOMAIN open_files_table : open_files_table[id].local_port = key[2]]_vars

\* No system call uses the connection of a socket that has none.
NoNullConnection == ~crashed

\* No Socket is used after its open file was erased.
NoErasedSocket == ~dangling
=============================================================================
