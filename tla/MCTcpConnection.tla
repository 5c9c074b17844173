-------------------------- MODULE MCTcpConnection ---------------------------
(***************************************************************************)
(* TcpConnection for TLC: ways to use a connection.                        *)
(***************************************************************************)
EXTENDS TcpConnection

Both(x) == [e \in Endpoints |-> x]

\* Each side closes once it is connected: also both at the same time.
CloseEstablished ==
    [data |-> Both(0), close_when |-> Both("established"), close_calls |-> Both({"Close"}),
     fin_during_ack |-> FALSE, patient_timers |-> TRUE, loses_rst |-> FALSE,
     max_losses |-> 0, max_timeouts |-> 2]

\* The client writes; the server closes first, the client shuts down at the end
\* of the stream.
ServerFirst ==
    [CloseEstablished EXCEPT !.data = [client |-> 1, server |-> 0],
                             !.close_when = [client |-> "eof", server |-> "established"],
                             !.close_calls = [client |-> {"ShutDown"}, server |-> {"Close"}]]

\* The same without data, but with a lost segment.
LosingServerFirst == [ServerFirst EXCEPT !.data = Both(0), !.max_losses = 1]

\* With both, and an RST may be what is lost.
LosingData == [ServerFirst EXCEPT !.loses_rst = TRUE, !.max_losses = 1]

\* The client writes and shuts down, the server closes at the end of the stream.
ClientFirst ==
    [LosingData EXCEPT !.close_when = [client |-> "established", server |-> "eof"]]

\* Each side closes whenever it likes, even before the handshake is over.
CloseAnyTime ==
    [CloseEstablished EXCEPT !.close_when = Both("any"), !.fin_during_ack = TRUE,
                             !.patient_timers = FALSE, !.loses_rst = TRUE,
                             !.max_losses = 1, !.max_timeouts = 1]

AllScenarios ==
    {CloseEstablished, ServerFirst, LosingServerFirst, LosingData, ClientFirst, CloseAnyTime}

-----------------------------------------------------------------------------
(* Scenarios in which a property fails. *)

StaleAck == {[CloseEstablished EXCEPT !.fin_during_ack = TRUE]}
BothClose == {[CloseEstablished EXCEPT !.max_losses = 1]}
ShutDownAndClose == {[CloseEstablished EXCEPT !.close_calls = Both(Calls)]}
AnyTime == {CloseAnyTime}
=============================================================================
