---------------------------- MODULE MCPacketPath ----------------------------
(***************************************************************************)
(* PacketPath for TLC: what the receiving host has and what happens to it. *)
(***************************************************************************)
EXTENDS PacketPath

\* Both connections are there.
BothOpen == [open |-> Keys, listened |-> {}, kinds |-> {"other"}, deletes |-> FALSE,
             closes |-> FALSE, max_losses |-> 2, max_files |-> 0]

\* They are, and the channel is destroyed.
Closing == [BothOpen EXCEPT !.closes = TRUE]

\* The other connection does not exist.
OneOrphan == [BothOpen EXCEPT !.open = {"a"}, !.kinds = {"SYN", "other"}, !.max_losses = 1]

\* Connections are made, by SYNs and by SocketConnect, and deleted.
Changing == [open |-> {"a"}, listened |-> {"b"}, kinds |-> AllKinds, deletes |-> TRUE,
             closes |-> FALSE, max_losses |-> 1, max_files |-> 2]

AllTraffic == {BothOpen, Closing, OneOrphan, Changing}

-----------------------------------------------------------------------------
(* The scenario in which Accounted fails. *)

OnlyOrphan == {OneOrphan}
=============================================================================
