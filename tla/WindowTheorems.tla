--------------------------- MODULE WindowTheorems ---------------------------
(***************************************************************************)
(* What the operators of SendWindow and RecvWindow return.                 *)
(***************************************************************************)
EXTENDS SendWindow, RecvWindow, TLAPS, WellFoundedInduction, SequenceTheorems

-----------------------------------------------------------------------------
(* Arithmetic. *)

\* Every uint32 result of the code is a uint32.
LEMMA U32Type == ASSUME NEW n \in Int PROVE U32(n) \in UInt32
  BY ModAssumption DEF U32, UInt32

\* A window announced in the 16 bits of the header is a window.
LEMMA UInt16IsUInt32 == UInt16 \subseteq UInt32
  BY ModAssumption, WindowModAssumption DEF UInt16, UInt32

\* Truncating a size to the 16 bits of the header.
LEMMA U16Type == ASSUME NEW n \in Int PROVE U16(n) \in UInt16
  BY WindowModAssumption DEF U16, UInt16

\* Arithmetic that stays below the modulus does not wrap.
LEMMA U32Identity == ASSUME NEW n \in UInt32 PROVE U32(n) = n
  BY ModAssumption DEF U32, UInt32

\* A loop that stops at the first index with some property is Min of the set
\* of those indices: it is one of them, and no smaller one is.
LEMMA MinOfNats ==
  ASSUME NEW S, S \subseteq Nat, S # {}
  PROVE  Min(S) \in S /\ \A y \in S : Min(S) <= y
<1>1. \E x \in S : \A y \in S : x <= y
  <2>1. IsWellFoundedOn(OpToRel(<, Nat), Nat)
    BY NatLessThanWellFounded
  <2>2. PICK x \in S : \A y \in S : ~ (<<y, x>> \in OpToRel(<, Nat))
    BY <2>1, WFMin
  <2>3. \A y \in S : ~ (y < x)
    BY <2>2, Zenon DEF OpToRel
  <2> QED
    BY <2>3
<1> QED BY Zenon, <1>1 DEF Min

\* std::min of two sizes is one of them and exceeds neither.
LEMMA MinOfTwo ==
  ASSUME NEW a \in Nat, NEW b \in Nat
  PROVE  Min({a, b}) = IF a <= b THEN a ELSE b
  BY MinOfNats

\* max_duplicated_acks stays positive and below its bound.
LEMMA GrowMaxDupType ==
  ASSUME NEW max \in 1 .. MaxDupCap
  PROVE  GrowMaxDup(max) \in 1 .. MaxDupCap
<1>1. (max * 3) \div 2 \in Nat /\ (max * 3) \div 2 >= 1
  OBVIOUS
<1> QED BY <1>1, MinOfTwo, MaxDupAssumption DEF GrowMaxDup

-----------------------------------------------------------------------------
(* Types of the results. *)

\* A uint32 is a natural number.
LEMMA UInt32Nat == \A n \in UInt32 : n \in Nat
  BY ModAssumption DEF UInt32

\* The fields of a segment, and where it ends, have their types.
LEMMA SegmentFields ==
  ASSUME NEW p \in Segment
  PROVE  /\ p.seq \in UInt32 /\ p.seq \in Nat
         /\ p.len \in UInt32 /\ p.len \in Nat
         /\ p.fin \in BOOLEAN
         /\ p.data \in Seq(Nat)
         /\ End(p) \in UInt32 /\ End(p) \in Nat
<1>1. p.seq \in UInt32 /\ p.len \in UInt32 /\ p.fin \in BOOLEAN /\ p.data \in Seq(Nat)
  BY DEF Segment
<1>2. p.seq \in Nat /\ p.len \in Nat
  BY <1>1, UInt32Nat
<1>3. End(p) \in UInt32
  BY <1>2, U32Type DEF End
<1> QED BY <1>1, <1>2, <1>3, UInt32Nat

\* The fields of a send window, its free space and its next sequence number have
\* their types.
LEMMA SendWindowFields ==
  ASSUME NEW w \in SendWindowType
  PROVE  /\ w.send_base \in UInt32 /\ w.send_base \in Nat
         /\ w.capacity \in UInt32 /\ w.capacity \in Nat
         /\ w.size \in UInt32 /\ w.size \in Nat
         /\ w.pkts_to_ack \in Seq(Segment)
         /\ w.duplicated_acks \in 0 .. MaxDupCap
         /\ FreeSpace(w) \in Nat
         /\ NextSeqNumberToSend(w) \in UInt32
<1>1. /\ w.send_base \in UInt32 /\ w.capacity \in UInt32 /\ w.size \in UInt32
      /\ w.pkts_to_ack \in Seq(Segment)
      /\ w.duplicated_acks \in 0 .. MaxDupCap
  BY DEF SendWindowType
<1>2. w.send_base \in Nat /\ w.capacity \in Nat /\ w.size \in Nat
  BY <1>1, UInt32Nat
<1>3. FreeSpace(w) \in Nat
  BY <1>2 DEF FreeSpace
<1>4. NextSeqNumberToSend(w) \in UInt32
  BY <1>2, U32Type DEF NextSeqNumberToSend
<1> QED BY <1>1, <1>2, <1>3, <1>4

\* MakeDataPacket makes a segment.
LEMMA MakeDataPacketType ==
  ASSUME NEW seq \in UInt32, NEW bytes \in Seq(Nat)
  PROVE  MakeDataPacket(seq, bytes) \in Segment
  BY U32Type, LenProperties DEF MakeDataPacket, Segment

\* MakeFinPacket makes a segment.
LEMMA MakeFinPacketType ==
  ASSUME NEW seq \in UInt32
  PROVE  MakeFinPacket(seq) \in Segment
  BY ModAssumption DEF MakeFinPacket, Segment, UInt32

\* SendWindow::SendPacket leaves a well-typed window.
LEMMA SendPacketType ==
  ASSUME NEW w \in SendWindowType, NEW p \in Segment
  PROVE  /\ SendPacket(w, p).window \in SendWindowType
         /\ SendPacket(w, p).ok \in BOOLEAN
         /\ SendPacket(w, p).sane \in BOOLEAN
<1>1. WithPacket(w, p) \in SendWindowType
  <2>1. /\ U32(w.size + p.len) \in UInt32
        /\ Append(w.pkts_to_ack, p) \in Seq(Segment)
    BY U32Type, SegmentFields, SendWindowFields, AppendProperties
  <2> QED BY Zenon, <2>1 DEF SendWindowType, WithPacket
<1> QED BY <1>1 DEF SendPacket, SendPacketRefused, SendPacketSane

\* The pop loop of NewAckedPacket removes the segments up to the first one it
\* keeps, and at most all of them.
LEMMA NumAckedBounds ==
  ASSUME NEW w \in SendWindowType, NEW ack \in UInt32
  PROVE  /\ NumAcked(w, ack) \in 0 .. Len(w.pkts_to_ack)
         /\ \A i \in 1 .. NumAcked(w, ack) : IsAcked(w, w.pkts_to_ack[i], ack)
         /\ NumAcked(w, ack) < Len(w.pkts_to_ack) =>
              ~IsAcked(w, w.pkts_to_ack[NumAcked(w, ack) + 1], ack)
<1> DEFINE n == Len(w.pkts_to_ack)
           S == {i \in 1 .. n + 1 :
                    i <= n => ~IsAcked(w, w.pkts_to_ack[i], ack)}
<1>1. n \in Nat
  BY SendWindowFields, LenProperties
<1>2. S \subseteq Nat /\ n + 1 \in S
  BY <1>1
<1>3. Min(S) \in S /\ \A y \in S : Min(S) <= y
  BY Zenon, <1>2, MinOfNats
<1>4. NumAcked(w, ack) = Min(S) - 1
  BY DEF NumAcked
<1> HIDE DEF n
<1>5. Min(S) \in 1 .. n + 1
  BY <1>1, <1>3
<1>6. \A i \in 1 .. Min(S) - 1 : i \notin S
  BY <1>1, <1>3, <1>5
<1>7. \A i \in 1 .. Min(S) - 1 : IsAcked(w, w.pkts_to_ack[i], ack)
  BY <1>1, <1>5, <1>6
<1>8. Min(S) <= n => ~IsAcked(w, w.pkts_to_ack[Min(S)], ack)
  BY <1>3
<1>9. Min(S) - 1 + 1 = Min(S) /\ Min(S) - 1 \in 0 .. n
  BY <1>1, <1>5
<1> HIDE DEF S
<1> QED BY <1>1, <1>4, <1>5, <1>7, <1>8, <1>9 DEF n

\* Popping the acknowledged segments leaves a well-typed window.
LEMMA AckedType ==
  ASSUME NEW w \in SendWindowType, NEW ack \in UInt32
  PROVE  Acked(w, ack) \in SendWindowType
<1> DEFINE k == NumAcked(w, ack)
           pkts == w.pkts_to_ack
<1>1. pkts \in Seq(Segment) /\ Len(pkts) \in Nat /\ k \in 0 .. Len(pkts)
  BY SendWindowFields, LenProperties, NumAckedBounds
<1> HIDE DEF k, pkts
<1>2. SubSeq(pkts, k + 1, Len(pkts)) \in Seq(Segment)
  <2>1. \A i \in k + 1 .. Len(pkts) : pkts[i] \in Segment
    BY <1>1, ElementOfSeq
  <2> QED BY <1>1, <2>1, SubSeqProperties
<1>3. AckedBytes(w, k) \in Nat
  <2>1. CASE k = 0
    BY <2>1 DEF AckedBytes
  <2>2. CASE k # 0
    <3>1. pkts[k] \in Segment /\ pkts[1] \in Segment
      BY <1>1, <2>2, ElementOfSeq
    <3>2. End(pkts[k]) - pkts[1].seq \in Int
      BY <3>1, SegmentFields
    <3> QED BY <3>2, <2>2, U32Type, UInt32Nat DEF AckedBytes, pkts
  <2> QED BY <2>1, <2>2
<1>4. U32(w.size - AckedBytes(w, k)) \in UInt32
  BY <1>3, U32Type, SendWindowFields
<1> DEFINE size == U32(w.size - AckedBytes(w, k))
           rest == SubSeq(pkts, k + 1, Len(pkts))
<1>5. Acked(w, ack) = [w EXCEPT !.send_base = ack, !.size = size,
                                !.pkts_to_ack = rest, !.duplicated_acks = 0]
  BY DEF Acked, SendWindowType, k, pkts
<1>6. 0 \in 0 .. MaxDupCap
  BY MaxDupAssumption
<1> HIDE DEF size, rest
<1> QED BY Zenon, <1>2, <1>4, <1>5, <1>6 DEF SendWindowType, size, rest

\* SendWindow::NewAckedPacket leaves a well-typed window, and the global
\* max_duplicated_acks in its range.
LEMMA NewAckedPacketType ==
  ASSUME NEW w \in SendWindowType, NEW max \in 1 .. MaxDupCap, NEW ack \in UInt32
  PROVE  /\ NewAckedPacket(w, max, ack).window \in SendWindowType
         /\ NewAckedPacket(w, max, ack).max \in 1 .. MaxDupCap
         /\ NewAckedPacket(w, max, ack).re_transmit \in BOOLEAN
         /\ NewAckedPacket(w, max, ack).sane \in BOOLEAN
<1>1. CASE AckAdvances(w, ack)
  <2>1. Acked(w, ack) \in SendWindowType
    BY AckedType
  <2> QED BY <1>1, <2>1, MaxDupAssumption DEF NewAckedPacket, AckSane
<1>2. CASE ~AckAdvances(w, ack) /\ ack = w.send_base
  <2> DEFINE fast == w.duplicated_acks + 1 >= max
             d == IF fast THEN 0 ELSE w.duplicated_acks + 1
  <2>1. d \in 0 .. MaxDupCap
    BY SendWindowFields, MaxDupAssumption
  <2> HIDE DEF d
  <2>2. [w EXCEPT !.duplicated_acks = d] \in SendWindowType
    BY <2>1 DEF SendWindowType
  <2> QED BY <1>2, <2>2, GrowMaxDupType DEF NewAckedPacket, d
<1>3. CASE ~AckAdvances(w, ack) /\ ack # w.send_base
  BY <1>3 DEF NewAckedPacket
<1> QED BY <1>1, <1>2, <1>3

\* GetBasePakcketToReSend gives at most one segment to send.
LEMMA BasePacketType ==
  ASSUME NEW w \in SendWindowType
  PROVE  BasePacketToReSend(w) \in Seq(Segment)
<1>1. CASE w.pkts_to_ack = <<>>
  BY <1>1 DEF BasePacketToReSend
<1>2. CASE w.pkts_to_ack # <<>>
  <2>1. w.pkts_to_ack[1] \in Segment
    BY <1>2, SendWindowFields, ElementOfSeq, EmptySeq
  <2> QED BY <1>2, <2>1 DEF BasePacketToReSend
<1> QED BY <1>1, <1>2

-----------------------------------------------------------------------------
(* The receive window. *)

\* The insertion loop of ReceivePacket passes exactly the nodes that start
\* before the new segment.
LEMMA InsertPosBounds ==
  ASSUME NEW list \in Seq(Segment), NEW p \in Segment
  PROVE  /\ InsertPos(list, p) \in 1 .. Len(list) + 1
         /\ \A i \in 1 .. InsertPos(list, p) - 1 : list[i].seq < p.seq
         /\ InsertPos(list, p) <= Len(list) => p.seq <= list[InsertPos(list, p)].seq
<1> DEFINE n == Len(list)
           S == {i \in 1 .. n + 1 : i <= n => p.seq <= list[i].seq}
<1>1. n \in Nat /\ \A i \in 1 .. n : list[i].seq \in Nat
  BY LenProperties, ElementOfSeq, SegmentFields
<1>2. p.seq \in Nat
  BY SegmentFields
<1>3. S \subseteq Nat /\ n + 1 \in S
  BY <1>1
<1>4. Min(S) \in S /\ \A y \in S : Min(S) <= y
  BY Zenon, <1>3, MinOfNats
<1>5. InsertPos(list, p) = Min(S)
  BY DEF InsertPos
<1> HIDE DEF n
<1>6. Min(S) \in 1 .. n + 1 /\ (Min(S) <= n => p.seq <= list[Min(S)].seq)
  BY <1>1, <1>4
<1>7. \A i \in 1 .. Min(S) - 1 : i \in 1 .. n /\ i \notin S
  BY <1>1, <1>4, <1>6
<1>8. \A i \in 1 .. Min(S) - 1 : list[i].seq < p.seq
  BY <1>1, <1>2, <1>7
<1> HIDE DEF S
<1> QED BY <1>5, <1>6, <1>8 DEF n

\* The list after the insertion: the nodes before the new one, the new one, the
\* nodes after it.
LEMMA InsertedProperties ==
  ASSUME NEW list \in Seq(Segment), NEW p \in Segment
  PROVE  /\ Inserted(list, p) \in Seq(Segment)
         /\ Len(Inserted(list, p)) = Len(list) + 1
         /\ \A i \in 1 .. Len(list) + 1 :
              Inserted(list, p)[i] = IF i < InsertPos(list, p) THEN list[i]
                                     ELSE IF i = InsertPos(list, p) THEN p
                                     ELSE list[i - 1]
<1> DEFINE n == Len(list)
           pos == InsertPos(list, p)
           a == SubSeq(list, 1, pos - 1)
           c == SubSeq(list, pos, n)
<1>1. n \in Nat /\ (\A i \in 1 .. n : list[i] \in Segment) /\ pos \in 1 .. n + 1
  BY LenProperties, ElementOfSeq, InsertPosBounds
<1> HIDE DEF n, pos
<1>2. /\ a \in Seq(Segment)
      /\ Len(a) = pos - 1
      /\ \A i \in 1 .. pos - 1 : a[i] = list[i]
  BY <1>1, SubSeqProperties
<1>3. /\ c \in Seq(Segment)
      /\ Len(c) = n - pos + 1
      /\ \A i \in 1 .. n - pos + 1 : c[i] = list[pos + i - 1]
  BY <1>1, SubSeqProperties
<1> HIDE DEF a, c
<1>4. <<p>> \in Seq(Segment) /\ Len(<<p>>) = 1 /\ <<p>>[1] = p
  OBVIOUS
<1> DEFINE b == a \o <<p>>
<1>5. /\ b \in Seq(Segment)
      /\ Len(b) = pos
      /\ \A i \in 1 .. pos : b[i] = IF i < pos THEN list[i] ELSE p
  BY <1>1, <1>2, <1>4, ConcatProperties
<1>6. Inserted(list, p) = b \o c
  BY DEF Inserted, a, c, pos, n
<1> HIDE DEF b
<1>7. /\ b \o c \in Seq(Segment)
      /\ Len(b \o c) = Len(b) + Len(c)
      /\ \A i \in 1 .. Len(b) + Len(c) :
             (b \o c)[i] = IF i <= Len(b) THEN b[i] ELSE c[i - Len(b)]
  BY Zenon, <1>3, <1>5, ConcatProperties
<1>8. Len(b) + Len(c) = n + 1
  BY <1>1, <1>3, <1>5
<1>9. \A i \in 1 .. n + 1 : (b \o c)[i] =
         IF i < pos THEN list[i] ELSE IF i = pos THEN p ELSE list[i - 1]
  <2> TAKE i \in 1 .. n + 1
  <2>1. CASE i <= pos
    BY <1>1, <1>5, <1>7, <1>8, <2>1
  <2>2. CASE i > pos
    <3>1. (b \o c)[i] = c[i - pos]
      BY <1>1, <1>5, <1>7, <1>8, <2>2
    <3>2. i - pos \in 1 .. n - pos + 1 /\ pos + (i - pos) - 1 = i - 1
      BY <1>1, <2>2
    <3>3. c[i - pos] = list[i - 1]
      <4> DEFINE m == i - pos
      <4>1. m \in 1 .. n - pos + 1 /\ pos + m - 1 = i - 1
        BY <3>2
      <4>2. c[m] = list[pos + m - 1]
        BY <1>3, <4>1
      <4> QED BY <4>1, <4>2
    <3> QED BY <1>1, <2>2, <3>1, <3>3
  <2>3. i <= pos \/ i > pos
    BY <1>1
  <2> QED BY <2>1, <2>2, <2>3, Zenon
<1> QED BY <1>6, <1>7, <1>8, <1>9 DEF n, pos

\* The second loop of ReceivePacket stops at the last node of a run of
\* adjacent segments.
LEMMA RunEndBounds ==
  ASSUME NEW list \in Seq(Segment), NEW first \in 1 .. Len(list)
  PROVE  /\ RunEnd(list, first) \in first .. Len(list)
         /\ \A i \in first .. RunEnd(list, first) - 1 : End(list[i]) = list[i + 1].seq
         /\ RunEnd(list, first) < Len(list) =>
              End(list[RunEnd(list, first)]) # list[RunEnd(list, first) + 1].seq
<1> DEFINE n == Len(list)
           S == {i \in first .. n : i < n => End(list[i]) # list[i + 1].seq}
<1>1. n \in Nat /\ first \in Nat /\ first <= n /\ first >= 1
  BY LenProperties
<1>2. S \subseteq Nat /\ n \in S
  BY <1>1
<1>3. Min(S) \in S /\ \A y \in S : Min(S) <= y
  BY Zenon, <1>2, MinOfNats
<1>4. RunEnd(list, first) = Min(S)
  BY DEF RunEnd
<1> HIDE DEF n
<1>5. /\ Min(S) \in first .. n
      /\ Min(S) < n => End(list[Min(S)]) # list[Min(S) + 1].seq
  BY <1>1, <1>3
<1>6. \A i \in first .. Min(S) - 1 : i \in first .. n /\ i < n /\ i \notin S
  BY <1>1, <1>3, <1>5
<1>7. \A i \in first .. Min(S) - 1 : End(list[i]) = list[i + 1].seq
  BY <1>6
<1> HIDE DEF S
<1> QED BY <1>4, <1>5, <1>7 DEF n

\* The fields of a receive window have their types.
LEMMA RecvWindowFields ==
  ASSUME NEW w \in RecvWindowType
  PROVE  w.recv_base \in UInt32 /\ w.recv_base \in Nat /\ w.list \in Seq(Segment)
  BY UInt32Nat DEF RecvWindowType

\* RecvWindow::ReceivePacket leaves a well-typed window and returns segments.
LEMMA ReceivePacketType ==
  ASSUME NEW w \in RecvWindowType, NEW p \in Segment
  PROVE  /\ ReceivePacket(w, p).window \in RecvWindowType
         /\ ReceivePacket(w, p).nodes \in Seq(Segment)
         /\ ReceivePacket(w, p).sane \in BOOLEAN
<1> DEFINE pos == InsertPos(w.list, p)
           ins == Inserted(w.list, p)
           last == RunEnd(ins, pos)
<1>1. w.recv_base \in UInt32 /\ w.list \in Seq(Segment)
  BY RecvWindowFields
<1>2. ins \in Seq(Segment) /\ Len(ins) \in Nat /\ pos \in 1 .. Len(ins)
  BY Zenon, <1>1, InsertedProperties, InsertPosBounds, LenProperties
<1>3. last \in pos .. Len(ins)
  BY <1>2, RunEndBounds
<1>4. \A i \in 1 .. Len(ins) : ins[i] \in Segment
  BY <1>2, ElementOfSeq
<1> HIDE DEF pos, ins, last
<1>5. /\ SubSeq(ins, last + 1, Len(ins)) \in Seq(Segment)
      /\ SubSeq(ins, pos, last) \in Seq(Segment)
  <2>1. /\ \A i \in last + 1 .. Len(ins) : ins[i] \in Segment
        /\ \A i \in pos .. last : ins[i] \in Segment
    BY <1>2, <1>3, <1>4
  <2> QED BY <1>2, <1>3, <2>1, SubSeqProperties
<1>6. End(ins[last]) \in UInt32
  BY <1>2, <1>3, <1>4, SegmentFields
<1>7. CASE p.seq < w.recv_base
  BY <1>7, EmptySeq DEF ReceivePacket, AlreadyAcked
<1>8. CASE ~(p.seq < w.recv_base) /\ p.seq = w.recv_base
  <2>1. ReceivePacket(w, p) =
          [sane   |-> InsertSane(w.list, p) /\ pos = 1,
           window |-> [recv_base |-> End(ins[last]),
                       list      |-> SubSeq(ins, last + 1, Len(ins))],
           nodes  |-> SubSeq(ins, pos, last)]
    BY <1>8, Zenon DEF ReceivePacket, AlreadyAcked, pos, ins, last
  <2> QED BY <2>1, <1>5, <1>6 DEF RecvWindowType, InsertSane
<1>9. CASE ~(p.seq < w.recv_base) /\ p.seq # w.recv_base
  <2>1. ReceivePacket(w, p) =
          [sane   |-> InsertSane(w.list, p),
           window |-> [w EXCEPT !.list = ins],
           nodes  |-> <<>>]
    BY <1>9, Zenon DEF ReceivePacket, AlreadyAcked, ins
  <2> QED BY <2>1, <1>2, EmptySeq DEF RecvWindowType, InsertSane
<1> QED BY <1>7, <1>8, <1>9
=============================================================================
