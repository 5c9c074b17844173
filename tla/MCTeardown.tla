----------------------------- MODULE MCTeardown -----------------------------
(***************************************************************************)
(* Teardown for TLC: ways in which a connection comes to its end.          *)
(***************************************************************************)
EXTENDS Teardown

\* A packet ends the connection, while one user is inside or both are.
EndedByPacket ==
    [kinds |-> {"data", "end"}, users |-> Users, closes |-> FALSE, timers |-> FALSE,
     capacity |-> 3, lost_wakeups |-> FALSE, initialised |-> TRUE,
     max_packets |-> 2, max_calls |-> 1]
EndedWithUsers == [EndedByPacket EXCEPT !.max_packets = 1, !.max_calls = 2]

\* A timer ends one that its user closes, with data in the receive buffer.
EndedByTimer ==
    [EndedByPacket EXCEPT !.kinds = {"data"}, !.users = {}, !.closes = TRUE,
                          !.timers = TRUE, !.capacity = 2, !.max_packets = 1]

\* TIME_WAIT, which a repeated FIN does not enter again, ends one.
EndedByTimeWait == [EndedByPacket EXCEPT !.kinds = {"time_wait"}, !.users = {}]

\* A packet ends one whose buffers may be full, at the level of tests and blocks.
EndedWhenFull ==
    [EndedByPacket EXCEPT !.kinds = {"ack", "data", "end"}, !.capacity = 1,
                          !.lost_wakeups = TRUE]

AllEnds == {EndedByPacket, EndedWithUsers, EndedByTimer, EndedByTimeWait, EndedWhenFull}

-----------------------------------------------------------------------------
(* Scenarios in which a property fails. *)

LostWakeup == {[EndedByTimeWait EXCEPT !.lost_wakeups = TRUE]}
FullBuffer == {[EndedByPacket EXCEPT !.capacity = 1]}
TwoCauses == {[EndedByTimer EXCEPT !.kinds = {"end"}]}
ResetInTimeWait == {[EndedByTimeWait EXCEPT !.kinds = @ \cup {"end"}]}
ClosedWhenFull == {[EndedByTimer EXCEPT !.capacity = 1, !.max_packets = 2]}
Uninitialised == {[EndedByPacket EXCEPT !.initialised = FALSE]}
ClosedWithReader == {[EndedByPacket EXCEPT !.closes = TRUE]}
=============================================================================
