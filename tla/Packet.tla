------------------------------- MODULE Packet -------------------------------
(***************************************************************************)
(* Segments and 32-bit sequence numbers (Packet.h, TcpHeader.h).           *)
(*                                                                         *)
(* A segment keeps what the two windows and the handlers look at: its      *)
(* sequence number, its payload size, whether it is a FIN, and the bytes   *)
(* it carries.  A FIN counts one sequence number (set_payload_size(1)) and *)
(* carries no byte; a window probe has payload size 0.  Bytes are natural  *)
(* numbers: byte n is the n-th byte the application wrote.                 *)
(***************************************************************************)
EXTENDS Integers, Sequences

CONSTANTS
    Mod,           \* 2^32 in the program: the modulus of a uint32
    WindowMod      \* 2^16 in the program: the modulus of TcpHeader's window_size

ASSUME ModAssumption == Mod \in Nat /\ Mod > 1

ASSUME WindowModAssumption == WindowMod \in Nat \ {0} /\ WindowMod <= Mod

\* A uint32 result: every sum and difference of the code is taken modulo Mod.
U32(n) == n % Mod

UInt32 == 0 .. Mod - 1

\* The conversion of a buffer's free space to the uint16 of the header.
U16(n) == n % WindowMod

UInt16 == 0 .. WindowMod - 1

Segment == [seq : UInt32, len : UInt32, fin : BOOLEAN, data : Seq(Nat)]

\* The sequence number that follows a segment.
End(p) == U32(p.seq + p.len)

\* A data segment with the given bytes (InjectPayloadFromBuffer).
MakeDataPacket(seq, bytes) ==
    [seq |-> seq, len |-> U32(Len(bytes)), fin |-> FALSE, data |-> bytes]

MakeFinPacket(seq) == [seq |-> seq, len |-> 1, fin |-> TRUE, data |-> <<>>]

\* A cumulative acknowledgement and the receive buffer's free space.
Ack == [ack_num : UInt32, window_size : UInt16]

\* Mutants: the window announced is one too small; the number acknowledged is
\* one too large.
MakeAckPacketSmall(num, free) == [ack_num |-> num, window_size |-> U16(free - 1)]
MakeAckPacketNext(num, free) == [ack_num |-> U32(num + 1), window_size |-> U16(free)]

MakeAckPacket(num, free) == [ack_num |-> num, window_size |-> U16(free)]
=============================================================================
