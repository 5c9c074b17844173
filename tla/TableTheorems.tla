--------------------------- MODULE TableTheorems ----------------------------
(***************************************************************************)
(* The ids of open files are given out once, whatever the threads of the   *)
(* process do: for any number of threads, calls, descriptors, ids, ports   *)
(* and connections.                                                        *)
(***************************************************************************)
EXTENDS HostTables, TLAPS, WellFoundedInduction

-----------------------------------------------------------------------------
(* The pool and the maps. *)

\* The first element of a std::set of numbers is in it.
LEMMA MinIsElement ==
  ASSUME NEW S, S \subseteq Nat, S # {}
  PROVE  Min(S) \in S
<1>1. IsWellFoundedOn(OpToRel(<, Nat), Nat)
  BY NatLessThanWellFounded
<1>2. PICK x \in S : \A y \in S : ~ (<<y, x>> \in OpToRel(<, Nat))
  BY <1>1, WFMin
<1>3. \A y \in S : ~ (y < x)
  BY <1>2, Zenon DEF OpToRel
<1>4. \E z \in S : \A y \in S : z <= y
  BY <1>3
<1> QED
  BY <1>4, Zenon DEF Min

\* NumPool::Allocate returns a number of the pool, which then is no longer in
\* it, and changes nothing when it returns -1.
LEMMA AllocateTakes ==
  ASSUME NEW pool, pool \subseteq Nat
  PROVE  /\ Allocate(pool).pool \subseteq pool
         /\ Allocate(pool).num >= 0 =>
                /\ Allocate(pool).num \in pool
                /\ Allocate(pool).num \notin Allocate(pool).pool
         /\ ~(Allocate(pool).num >= 0) => Allocate(pool).num < 0
<1>1. CASE pool = {}
  BY <1>1 DEF Allocate
<1>2. CASE pool # {}
  <2>1. Min(pool) \in pool
    BY <1>2, MinIsElement
  <2>2. Allocate(pool) = [num |-> Min(pool), pool |-> pool \ {Min(pool)}]
    BY <1>2 DEF Allocate
  <2>3. Allocate(pool).num = Min(pool) /\ Allocate(pool).pool = pool \ {Min(pool)}
    BY <2>2
  <2>4. Min(pool) >= 0
    <3>1. \A x \in pool : x >= 0
      OBVIOUS
    <3> QED
      BY <2>1, <3>1, Zenon
  <2> QED
    BY <2>1, <2>3, <2>4
<1> QED
  BY <1>1, <1>2

-----------------------------------------------------------------------------
(* The inductive invariant. *)

\* IdsUnique with the types that Allocate and Append need.
IdInv ==
    /\ open_file_id_pool \subseteq OpenFileIds
    /\ \A p \in DOMAIN listeners : listeners[p] \in Seq(OpenFileIds)
    /\ IdsUnique

\* What NeverReopened says of one step.
NoReturn ==
    \A id \in OpenFileIds :
        id \notin open_file_id_pool /\ id \notin DOMAIN open_files_table =>
            id \notin DOMAIN open_files_table'

\* Open file ids are naturals.
LEMMA IdsAreNats == OpenFileIds \subseteq Nat
  BY TablesAssumption DEF OpenFileIds, NewPool

\* A step that creates no open file and leaves pool and listeners alone.
LEMMA QuietStep ==
  ASSUME IdInv, open_file_id_pool' = open_file_id_pool, listeners' = listeners,
         DOMAIN open_files_table' \subseteq DOMAIN open_files_table
  PROVE  IdInv' /\ NoReturn
<1>1. IdsUnique'
  BY DEF IdInv, IdsUnique
<1> QED
  BY <1>1 DEF IdInv, NoReturn

\* CreateNewSocket in Socket.
LEMMA CreateStep ==
  ASSUME IdInv, NEW t \in Threads, CreateNewSocket(t)
  PROVE  IdInv' /\ NoReturn
<1> DEFINE r == Allocate(open_file_id_pool)
<1>1. open_file_id_pool \subseteq Nat
  BY IdsAreNats DEF IdInv
<1>2. /\ r.pool \subseteq open_file_id_pool
      /\ r.num >= 0 => r.num \in open_file_id_pool /\ r.num \notin r.pool
      /\ ~(r.num >= 0) => r.num < 0
  BY <1>1, AllocateTakes
<1>3. /\ open_file_id_pool' = r.pool
      /\ listeners' = listeners
      /\ r.num < 0 => open_files_table' = open_files_table
      /\ ~(r.num < 0) => open_files_table' = Emplace(open_files_table, r.num, NewOpenFile)
  BY Zenon DEF CreateNewSocket
<1>4. \/ DOMAIN open_files_table' = DOMAIN open_files_table
      \/ /\ r.num \in open_file_id_pool /\ r.num \notin r.pool
         /\ DOMAIN open_files_table' = DOMAIN open_files_table \cup {r.num}
  <2>1. CASE r.num < 0
    BY <2>1, <1>3
  <2>2. CASE ~(r.num < 0)
    <3>1. r.num >= 0
      BY <2>2, <1>2
    <3>2. open_files_table' = Emplace(open_files_table, r.num, NewOpenFile)
      BY <2>2, <1>3, Zenon
    <3>3. DOMAIN open_files_table' = DOMAIN open_files_table \cup {r.num}
      BY <3>2 DEF Emplace
    <3> QED
      BY <3>1, <3>3, <1>2
  <2> QED
    BY <2>1, <2>2
<1> HIDE DEF r
<1>5. IdsUnique'
  BY <1>2, <1>3, <1>4 DEF IdInv, IdsUnique
<1>6. NoReturn
  BY <1>4 DEF NoReturn
<1> QED
  BY <1>2, <1>3, <1>5, <1>6 DEF IdInv

\* SocketListen may add a listener, with an empty queue.
LEMMA ListenStep ==
  ASSUME IdInv, NEW t \in Threads, SocketListen(t)
  PROVE  IdInv' /\ NoReturn
<1> DEFINE port == thr[t].port
<1>1. /\ open_file_id_pool' = open_file_id_pool
      /\ open_files_table' = open_files_table
      /\ listeners' = Emplace(listeners, port, <<>>)
  BY DEF SocketListen
<1>2. /\ DOMAIN listeners' = DOMAIN listeners \cup {port}
      /\ \A p \in DOMAIN listeners : listeners'[p] = listeners[p]
      /\ port \notin DOMAIN listeners => listeners'[port] = <<>>
  BY <1>1 DEF Emplace
<1> HIDE DEF port
<1>3. \A p \in DOMAIN listeners' :
          (p \in DOMAIN listeners /\ listeners'[p] = listeners[p]) \/ listeners'[p] = <<>>
  BY <1>2
<1>4. \A p \in DOMAIN listeners' : listeners'[p] \in Seq(OpenFileIds)
  <2>1. <<>> \in Seq(OpenFileIds)
    OBVIOUS
  <2> QED
    BY <1>3, <2>1, Zenon DEF IdInv
<1>5. \A p \in DOMAIN listeners' : \A i \in 1 .. Len(listeners'[p]) :
          p \in DOMAIN listeners /\ listeners'[p] = listeners[p]
  BY <1>3
<1>6. IdsUnique'
  BY <1>1, <1>5 DEF IdInv, IdsUnique
<1> QED
  BY <1>1, <1>4, <1>6 DEF IdInv, NoReturn

\* Accept takes the id at the head of a queue.
LEMMA PopStep ==
  ASSUME IdInv, NEW t \in Threads, PopConnection(t)
  PROVE  IdInv' /\ NoReturn
<1> DEFINE port == thr[t].port
<1>1. /\ open_file_id_pool' = open_file_id_pool
      /\ open_files_table' = open_files_table
      /\ listeners[port] # <<>>
      /\ listeners' = [listeners EXCEPT ![port] = Tail(listeners[port])]
  BY DEF PopConnection
<1> HIDE DEF port
<1>2. DOMAIN listeners' = DOMAIN listeners
  BY <1>1
<1>3. ASSUME NEW p \in DOMAIN listeners
      PROVE  /\ listeners'[p] \in Seq(OpenFileIds)
             /\ \E k \in {0, 1} :
                    /\ Len(listeners'[p]) = Len(listeners[p]) - k
                    /\ \A i \in 1 .. Len(listeners'[p]) : listeners'[p][i] = listeners[p][i + k]
  <2>1. listeners[p] \in Seq(OpenFileIds)
    BY DEF IdInv
  <2>2. CASE p = port
    <3>1. listeners'[p] = Tail(listeners[p]) /\ listeners[p] # <<>>
      BY <2>2, <1>1
    <3> QED
      BY <2>1, <3>1
  <2>3. CASE p # port
    <3>1. listeners'[p] = listeners[p]
      BY <2>3, <1>1
    <3> QED
      BY <2>1, <3>1
  <2> QED
    BY <2>2, <2>3
<1>4. \A p \in DOMAIN listeners : Len(listeners[p]) \in Nat
  BY DEF IdInv
<1>5. ASSUME NEW p \in DOMAIN listeners, NEW i \in 1 .. Len(listeners'[p])
      PROVE  listeners'[p][i] \notin open_file_id_pool
  <2>1. PICK k \in {0, 1} : /\ Len(listeners'[p]) = Len(listeners[p]) - k
                            /\ listeners'[p][i] = listeners[p][i + k]
    BY <1>3
  <2>2. i + k \in 1 .. Len(listeners[p])
    BY <2>1, <1>4
  <2> QED
    BY <2>1, <2>2 DEF IdInv, IdsUnique
<1>6. ASSUME NEW p \in DOMAIN listeners, NEW q \in DOMAIN listeners,
             NEW i \in 1 .. Len(listeners'[p]), NEW j \in 1 .. Len(listeners'[q]),
             listeners'[p][i] = listeners'[q][j]
      PROVE  p = q /\ i = j
  <2>1. PICK k \in {0, 1} : /\ Len(listeners'[p]) = Len(listeners[p]) - k
                            /\ listeners'[p][i] = listeners[p][i + k]
    BY <1>3
  <2>2. PICK m \in {0, 1} : /\ Len(listeners'[q]) = Len(listeners[q]) - m
                            /\ listeners'[q][j] = listeners[q][j + m]
    BY <1>3
  <2>3. i + k \in 1 .. Len(listeners[p]) /\ j + m \in 1 .. Len(listeners[q])
    BY <2>1, <2>2, <1>4
  <2>4. listeners[p][i + k] = listeners[q][j + m]
    BY <1>6, <2>1, <2>2
  <2>5. p = q /\ i + k = j + m
    <3>1. \A a \in 1 .. Len(listeners[p]) : \A b \in 1 .. Len(listeners[q]) :
              listeners[p][a] = listeners[q][b] => p = q /\ a = b
      BY Zenon DEF IdInv, IdsUnique
    <3> QED
      BY <2>3, <2>4, <3>1
  <2>6. k = m
    BY <2>1, <2>2, <2>5, <1>4
  <2> QED
    BY <2>5, <2>6
<1>7. IdsUnique'
  BY <1>1, <1>2, <1>5, <1>6 DEF IdInv, IdsUnique
<1> QED
  BY <1>1, <1>2, <1>3, <1>7 DEF IdInv, NoReturn

\* HandleNewConnection takes an id and appends it to a queue.
LEMMA NewConnectionStep ==
  ASSUME IdInv, NEW key \in Key, HandleNewConnection(key)
  PROVE  IdInv' /\ NoReturn
<1> DEFINE r == Allocate(open_file_id_pool)
           n == r.num
           port == key[2]
<1>1. open_file_id_pool \subseteq Nat
  BY IdsAreNats DEF IdInv
<1>2. /\ n >= 0
      /\ port \in DOMAIN listeners
      /\ open_file_id_pool' = r.pool
      /\ listeners' = [listeners EXCEPT ![port] = Append(listeners[port], n)]
      /\ open_files_table' = Emplace(open_files_table, n, [NewOpenFile EXCEPT !.tcp_con = key])
  BY DEF HandleNewConnection
<1>3. open_file_id_pool' \subseteq open_file_id_pool /\ n \in open_file_id_pool
      /\ n \notin open_file_id_pool'
  BY <1>1, <1>2, AllocateTakes
<1>4. DOMAIN open_files_table' = DOMAIN open_files_table \cup {n}
  BY <1>2 DEF Emplace
<1>5. n \in OpenFileIds
  BY <1>3 DEF IdInv
<1> HIDE DEF n, port
<1>6. DOMAIN listeners' = DOMAIN listeners
  BY <1>2
<1>7. ASSUME NEW p \in DOMAIN listeners
      PROVE  /\ listeners'[p] \in Seq(OpenFileIds)
             /\ \A i \in 1 .. Len(listeners'[p]) :
                    \/ i \in 1 .. Len(listeners[p]) /\ listeners'[p][i] = listeners[p][i]
                    \/ p = port /\ i = Len(listeners[p]) + 1 /\ listeners'[p][i] = n
  <2>1. listeners[p] \in Seq(OpenFileIds)
    BY DEF IdInv
  <2>2. CASE p = port
    <3>1. listeners'[p] = Append(listeners[p], n)
      BY <2>2, <1>2
    <3> QED
      BY <2>1, <2>2, <3>1, <1>5
  <2>3. CASE p # port
    <3>1. listeners'[p] = listeners[p]
      BY <2>3, <1>2
    <3> QED
      BY <2>1, <3>1
  <2> QED
    BY <2>2, <2>3
<1>8. \A p \in DOMAIN listeners : \A i \in 1 .. Len(listeners[p]) :
          listeners[p][i] \notin open_file_id_pool
  BY Zenon DEF IdInv, IdsUnique
<1>9. ASSUME NEW p \in DOMAIN listeners, NEW i \in 1 .. Len(listeners'[p])
      PROVE  listeners'[p][i] \notin open_file_id_pool'
  BY <1>3, <1>7, <1>8
<1>10. ASSUME NEW p \in DOMAIN listeners, NEW q \in DOMAIN listeners,
              NEW i \in 1 .. Len(listeners'[p]), NEW j \in 1 .. Len(listeners'[q]),
              listeners'[p][i] = listeners'[q][j]
       PROVE  p = q /\ i = j
  <2>1. \A a \in 1 .. Len(listeners[p]) : \A b \in 1 .. Len(listeners[q]) :
            listeners[p][a] = listeners[q][b] => p = q /\ a = b
    BY Zenon DEF IdInv, IdsUnique
  <2>2. \/ i \in 1 .. Len(listeners[p]) /\ listeners'[p][i] = listeners[p][i]
        \/ p = port /\ i = Len(listeners[p]) + 1 /\ listeners'[p][i] = n
    BY <1>7
  <2>3. \/ j \in 1 .. Len(listeners[q]) /\ listeners'[q][j] = listeners[q][j]
        \/ q = port /\ j = Len(listeners[q]) + 1 /\ listeners'[q][j] = n
    BY <1>7
  <2>4. /\ \A a \in 1 .. Len(listeners[p]) : listeners[p][a] # n
        /\ \A b \in 1 .. Len(listeners[q]) : listeners[q][b] # n
    BY <1>3, <1>8, Zenon
  <2> QED
    BY <1>10, <2>1, <2>2, <2>3, <2>4, Zenon
<1>11. open_file_id_pool' \cap DOMAIN open_files_table' = {}
  BY <1>3, <1>4 DEF IdInv, IdsUnique
<1>12. IdsUnique'
  BY <1>6, <1>9, <1>10, <1>11 DEF IdsUnique
<1>13. NoReturn
  BY <1>3, <1>4 DEF NoReturn
<1> QED
  BY <1>3, <1>6, <1>7, <1>12, <1>13 DEF IdInv

-----------------------------------------------------------------------------
(* The theorems. *)

\* Every step of a thread of the process keeps the ids apart.
LEMMA ThreadStepKeeps ==
  ASSUME IdInv, NEW t \in Threads, ThreadStep(t)
  PROVE  IdInv' /\ NoReturn
<1>1. CASE CreateNewSocket(t)
  BY <1>1, CreateStep
<1>2. CASE SocketListen(t)
  BY <1>2, ListenStep
<1>3. CASE PopConnection(t)
  BY <1>3, PopStep
<1>4. CASE \/ FindFdMappedFileId(t) \/ Socket(t) \/ EmplaceFd(t) \/ GetSocket(t)
           \/ UseErasedSocket(t) \/ TakePort(t) \/ GetSocketLocalBound(t) \/ SocketAccept(t)
           \/ ReturnFromConnection(t) \/ EraseFd(t) \/ ReleaseFd(t) \/ ReleaseResource(t)
           \/ CloseNext(t)
  <2>1. /\ open_file_id_pool' = open_file_id_pool
        /\ listeners' = listeners
        /\ open_files_table' = open_files_table
    BY <1>4, Zenon DEF FindFdMappedFileId, Socket, EmplaceFd, GetSocket, UseErasedSocket,
       TakePort, GetSocketLocalBound, SocketAccept, ReturnFromConnection, EraseFd, ReleaseFd,
       ReleaseResource, CloseNext
  <2> QED
    BY <2>1, QuietStep
<1>5. CASE Bind(t) \/ BindRandom(t) \/ SocketConnect(t) \/ GetConnection(t)
  <2>1. /\ open_file_id_pool' = open_file_id_pool
        /\ listeners' = listeners
        /\ \/ open_files_table' = open_files_table
           \/ \E id, f : open_files_table' = [open_files_table EXCEPT ![id] = f]
    BY <1>5, Zenon DEF Bind, BindRandom, SocketConnect, GetConnection, SetFile
  <2>2. DOMAIN open_files_table' = DOMAIN open_files_table
    BY <2>1
  <2> QED
    BY <2>1, <2>2, QuietStep
<1>6. CASE AcceptFd(t) \/ DecOpenFileRef(t)
  <2>1. /\ open_file_id_pool' = open_file_id_pool
        /\ listeners' = listeners
        /\ \/ open_files_table' = open_files_table
           \/ open_files_table' = Erase(open_files_table, thr[t].id)
           \/ open_files_table' =
                  [open_files_table EXCEPT ![thr[t].id].refs = open_files_table[thr[t].id].refs - 1]
    BY <1>6, Zenon DEF AcceptFd, DecOpenFileRef
  <2>2. DOMAIN open_files_table' \subseteq DOMAIN open_files_table
    BY <2>1 DEF Erase
  <2> QED
    BY <2>1, <2>2, QuietStep
<1> QED
  BY <1>1, <1>2, <1>3, <1>4, <1>5, <1>6 DEF ThreadStep

\* Every step of the host and of a connection keeps the ids apart.
LEMMA ConnectionStepKeeps ==
  ASSUME IdInv, NEW key \in Key, ConnectionStep(key)
  PROVE  IdInv' /\ NoReturn
<1>1. CASE HandleNewConnection(key)
  BY <1>1, NewConnectionStep
<1>2. CASE CloseAndDelete(key) \/ TearDown(key)
  BY <1>2, QuietStep DEF CloseAndDelete, TearDown
<1>3. CASE DetachSocket(key) \/ DeleteTcpConnection(key)
  <2>1. /\ open_file_id_pool' = open_file_id_pool
        /\ listeners' = listeners
        /\ open_files_table' = Detached(key)
    BY <1>3 DEF DetachSocket, DeleteTcpConnection
  <2>2. DOMAIN Detached(key) = DOMAIN open_files_table
    BY DEF Detached
  <2> QED
    BY <2>1, <2>2, QuietStep
<1> QED
  BY <1>1, <1>2, <1>3 DEF ConnectionStep

\* IdInv is inductive, and every step is one that NeverReopened allows.
LEMMA StepKeeps ==
  ASSUME IdInv, [Next]_vars
  PROVE  IdInv' /\ NoReturn
<1>1. CASE Next
  BY <1>1, ThreadStepKeeps, ConnectionStepKeeps DEF Next
<1>2. CASE UNCHANGED vars
  BY <1>2, QuietStep DEF vars
<1> QED
  BY <1>1, <1>2

\* The tables start empty.
LEMMA InitKeeps == Init => IdInv
  BY DEF Init, IdInv, IdsUnique

\* Whatever the threads of a process and of its connections do, no id of an
\* open file is given out twice: for any number of threads, calls, ids and
\* connections.
THEOREM IdsAreUnique == Spec => []IdsUnique
<1>1. IdInv => IdsUnique
  BY DEF IdInv
<1> QED
  BY InitKeeps, StepKeeps, <1>1, PTL DEF Spec

\* An open file that was erased never comes back under its id, so an id or a
\* Socket* that a thread kept never refers to another socket.
THEOREM ErasedForGood == Spec => NeverReopened
<1>1. ASSUME IdInv, [Next]_vars
      PROVE  [\A id \in OpenFileIds :
                id \notin open_file_id_pool /\ id \notin DOMAIN open_files_table =>
                    id \notin DOMAIN open_files_table']_vars
  BY <1>1, StepKeeps DEF NoReturn
<1> QED
  BY InitKeeps, StepKeeps, <1>1, PTL DEF Spec, NeverReopened
=============================================================================
