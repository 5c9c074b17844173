----------------------------- MODULE ByteStream -----------------------------
(***************************************************************************)
(* What one direction of a connection promises to the two applications:    *)
(* a reliable byte stream.  The writer adds bytes until it shuts down, the *)
(* reader takes them in order, and sees the end of the stream after the    *)
(* last byte.  Byte n is the n-th byte written.                            *)
(***************************************************************************)
EXTENDS Integers, Sequences

VARIABLES
    sent,       \* number of bytes written
    received,   \* the bytes read
    closed,     \* the writer has shut down
    eof         \* the reader has seen the end of the stream

streamVars == <<sent, received, closed, eof>>

StreamInit ==
    /\ sent = 0
    /\ received = <<>>
    /\ closed = FALSE
    /\ eof = FALSE

Write ==
    /\ ~closed
    /\ sent' \in Nat /\ sent' > sent
    /\ UNCHANGED <<received, closed, eof>>

Close ==
    /\ ~closed
    /\ closed' = TRUE
    /\ UNCHANGED <<sent, received, eof>>

\* The reader gets the next bytes, at most all that were written.
Read ==
    /\ Len(received') > Len(received)
    /\ Len(received') <= sent
    /\ received' = received \o [i \in 1 .. Len(received') - Len(received) |->
                                   Len(received) + i]
    /\ UNCHANGED <<sent, closed, eof>>

Eof ==
    /\ closed
    /\ ~eof
    /\ Len(received) = sent
    /\ eof' = TRUE
    /\ UNCHANGED <<sent, received, closed>>

StreamNext == Write \/ Close \/ Read \/ Eof

StreamSpec == StreamInit /\ [][StreamNext]_streamVars
=============================================================================
