---------------------------- MODULE MCHostTables ----------------------------
(***************************************************************************)
(* HostTables for TLC: the programs.                                       *)
(***************************************************************************)
EXTENDS HostTables

CONSTANTS t1, t2, r1, r2

TwoThreads == {t1, t2}
TwoRemotes == {r1, r2}
PortsOneTwo == {1, 2}

\* A server that also ends; two threads accept; a client; a client that closes;
\* two threads that do anything with the same descriptors.
Server == [ops |-> {"Socket", "Bind", "Listen", "Accept", "Close"}, threads |-> {t1},
           careful |-> TRUE, max_calls |-> 6, max_arrivals |-> 2]
Acceptors == [Server EXCEPT !.ops = @ \ {"Close"}, !.threads = TwoThreads, !.max_calls = 5]
Client == [ops |-> {"Socket", "Connect", "Read", "Write", "ShutDown"}, threads |-> {t1},
           careful |-> TRUE, max_calls |-> 4, max_arrivals |-> 0]
ClosingClient == [Client EXCEPT !.ops = {"Socket", "Connect", "Read", "Close"}]
Careless == [ops |-> AllOps, threads |-> TwoThreads, careful |-> FALSE,
             max_calls |-> 4, max_arrivals |-> 1]

AllPrograms == {Server, Acceptors, Client, ClosingClient, Careless}

-----------------------------------------------------------------------------
(* Programs in which a property fails. *)

OnlyServer == {Server}
OnlyClosingClient == {[ClosingClient EXCEPT !.max_calls = 6]}
OnlyCareless == {Careless}
=============================================================================
