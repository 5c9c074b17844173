--------------------------- MODULE ChainTheorems ----------------------------
(***************************************************************************)
(* How the operations of the two windows act on a chain of segments.       *)
(***************************************************************************)
EXTENDS TransferInvariant, WindowTheorems

\* Below the modulus the end of a segment is the plain sum.
LEMMA PlainEnd ==
  ASSUME NEW p \in Segment, p.seq + p.len < Mod
  PROVE  End(p) = p.seq + p.len
<1>1. p.seq + p.len \in UInt32
  BY SegmentFields, ModAssumption DEF UInt32
<1> QED BY <1>1, U32Identity DEF End

\* Below the modulus the next sequence number is the plain sum.
LEMMA PlainNext ==
  ASSUME NEW w \in SendWindowType, NextSum(w) < Mod
  PROVE  NextSeqNumberToSend(w) = NextSum(w) /\ NextSum(w) \in UInt32 /\ NextSum(w) \in Nat
<1>1. NextSum(w) \in UInt32 /\ NextSum(w) \in Nat
  BY SendWindowFields, ModAssumption DEF UInt32, NextSum
<1> QED BY <1>1, U32Identity DEF NextSeqNumberToSend, NextSum

\* The segments of a chain are segments, and their ends do not wrap.
LEMMA ChainElements ==
  ASSUME NEW w \in SendWindowType, WindowChain(w), NextSum(w) < Mod,
         NEW i \in 1 .. Len(w.pkts_to_ack)
  PROVE  /\ w.pkts_to_ack[i] \in Segment
         /\ End(w.pkts_to_ack[i]) = w.pkts_to_ack[i].seq + w.pkts_to_ack[i].len
<1>1. w.pkts_to_ack[i] \in Segment
  BY SendWindowFields, ElementOfSeq
<1>2. w.pkts_to_ack[i].seq + w.pkts_to_ack[i].len <= NextSum(w)
  BY DEF WindowChain
<1>3. NextSum(w) \in Nat
  BY PlainNext
<1>4. w.pkts_to_ack[i].seq + w.pkts_to_ack[i].len < Mod
  BY <1>1, <1>2, <1>3, SegmentFields, ModAssumption
<1> QED BY <1>1, <1>4, PlainEnd

\* SendWindow::SendPacket of the segment that comes next: its sanity check holds,
\* it refuses the segment only for lack of room, and the chain grows by it.
LEMMA SendKeepsChain ==
  ASSUME NEW w \in SendWindowType, WindowChain(w),
         NEW p \in Segment, p.len > 0, p.seq = NextSum(w), NextSum(w) + p.len < Mod
  PROVE  /\ SendPacketSane(w, p)
         /\ p.len <= FreeSpace(w) => ~SendPacketRefused(w, p)
         /\ WithPacket(w, p) \in SendWindowType
         /\ WithPacket(w, p).send_base = w.send_base
         /\ WithPacket(w, p).capacity = w.capacity
         /\ WithPacket(w, p).size = w.size + p.len
         /\ NextSum(WithPacket(w, p)) = NextSum(w) + p.len
         /\ WindowChain(WithPacket(w, p))
         /\ \A n : Boundary(w, n) => Boundary(WithPacket(w, p), n)
         /\ \A s : InWindow(w, s) => InWindow(WithPacket(w, p), s)
         /\ InWindow(WithPacket(w, p), p)
<1> DEFINE q == w.pkts_to_ack
           n == Len(q)
           v == WithPacket(w, p)
           next == NextSum(w)
<1>1. /\ w.send_base \in Nat /\ w.size \in Nat /\ w.capacity \in Nat
      /\ q \in Seq(Segment) /\ n \in Nat /\ FreeSpace(w) \in Nat
      /\ p.seq \in Nat /\ p.len \in Nat
      /\ next = w.send_base + w.size /\ next \in Nat
      /\ p.seq = next
  BY SendWindowFields, SegmentFields, LenProperties DEF NextSum
<1>2. \A i \in 1 .. n : /\ q[i] \in Segment
                        /\ q[i].seq \in Nat /\ q[i].len \in Nat
                        /\ End(q[i]) = q[i].seq + q[i].len
  <2>1. next < Mod
    BY <1>1, ModAssumption
  <2> QED BY <2>1, ChainElements, SegmentFields
<1>3. NextSeqNumberToSend(w) = next
  BY <1>1, PlainNext, ModAssumption
<1>4. q # <<>> => n \in 1 .. n /\ LastToAck(w) = q[n]
  BY <1>1, EmptySeq DEF LastToAck
<1>5. q = <<>> => next = w.send_base
  BY <1>1 DEF WindowChain
<1>6. q # <<>> => End(LastToAck(w)) = next
  BY <1>2, <1>4 DEF WindowChain
<1>7. SendPacketSane(w, p)
  BY <1>3, <1>6 DEF SendPacketSane
<1>8. p.len <= FreeSpace(w) => ~SendPacketRefused(w, p)
  BY <1>1, <1>5, <1>6 DEF SendPacketRefused
<1>9. w.size + p.len \in UInt32 /\ U32(w.size + p.len) = w.size + p.len
  <2>1. w.size + p.len \in UInt32
    BY <1>1, ModAssumption DEF UInt32
  <2> QED BY <2>1, U32Identity
<1>10. /\ Append(q, p) \in Seq(Segment)
       /\ Len(Append(q, p)) = n + 1
       /\ \A i \in 1 .. n : Append(q, p)[i] = q[i]
       /\ Append(q, p)[n + 1] = p
  BY <1>1, AppendProperties
<1>11. /\ v \in SendWindowType
       /\ v.send_base = w.send_base /\ v.capacity = w.capacity
       /\ v.size = w.size + p.len
       /\ v.pkts_to_ack = Append(q, p)
  <2> DEFINE sz == w.size + p.len
             r == Append(q, p)
  <2>1. v = [w EXCEPT !.pkts_to_ack = r, !.size = sz]
    BY Zenon, <1>9 DEF WithPacket
  <2>2. sz \in UInt32 /\ r \in Seq(Segment)
    BY <1>9, <1>10
  <2> HIDE DEF sz, r, v
  <2>3. /\ v \in SendWindowType
        /\ v.send_base = w.send_base /\ v.capacity = w.capacity
        /\ v.size = sz /\ v.pkts_to_ack = r
    BY Zenon, <2>1, <2>2 DEF SendWindowType
  <2> QED BY <2>3 DEF sz, r
<1> HIDE DEF v
<1>12. NextSum(v) = next + p.len
  BY <1>1, <1>11 DEF NextSum
<1> DEFINE r == v.pkts_to_ack
<1>13. /\ r # <<>> /\ Len(r) = n + 1
       /\ \A i \in 1 .. n : r[i] = q[i]
       /\ r[n + 1] = p
  <2> HIDE DEF n
  <2>1. r = Append(q, p)
    BY <1>11
  <2> HIDE DEF r, q
  <2> QED BY SMTT(30), <1>1, <1>10, <2>1, EmptySeq
<1> HIDE DEF r, q, next
<1>14. WindowChain(v)
  <2>0. /\ \A i \in 1 .. n : /\ q[i].len > 0
                             /\ w.send_base <= q[i].seq
                             /\ q[i].seq + q[i].len <= next
        /\ \A i, j \in 1 .. n : i < j => q[i].seq + q[i].len <= q[j].seq
        /\ \A i \in 1 .. n - 1 : q[i].seq + q[i].len = q[i + 1].seq
        /\ n > 0 => /\ q[1].seq = w.send_base
                    /\ q[n].seq + q[n].len = next
    BY <1>1, EmptySeq DEF WindowChain, q, next
  <2> HIDE DEF n
  <2>a. /\ n \in Nat /\ next \in Nat /\ p.len \in Nat /\ w.send_base \in Nat
        /\ p.seq = next /\ w.send_base <= next
    BY <1>1
  <2>b. \A i \in 1 .. n : r[i] = q[i] /\ q[i].seq \in Nat /\ q[i].len \in Nat
    BY <1>2, <1>13
  <2>1. \A i \in 1 .. n + 1 : /\ r[i].len > 0
                              /\ v.send_base <= r[i].seq
                              /\ r[i].seq + r[i].len <= NextSum(v)
    <3> TAKE i \in 1 .. n + 1
    <3>1. CASE i \in 1 .. n
      <4>1. r[i] = q[i] /\ q[i].seq \in Nat /\ q[i].len \in Nat
        BY <2>b, <3>1
      <4>2. q[i].len > 0 /\ w.send_base <= q[i].seq /\ q[i].seq + q[i].len <= next
        BY <2>0, <3>1
      <4>3. v.send_base = w.send_base /\ NextSum(v) = next + p.len
        BY <1>11, <1>12
      <4> QED BY <2>a, <4>1, <4>2, <4>3
    <3>2. CASE i = n + 1
      BY <1>11, <1>12, <1>13, <2>a, <3>2
    <3> QED BY <2>a, <3>1, <3>2
  <2>2. \A i, j \in 1 .. n + 1 : i < j => r[i].seq + r[i].len <= r[j].seq
    <3> SUFFICES ASSUME NEW i \in 1 .. n + 1, NEW j \in 1 .. n + 1, i < j
                 PROVE  r[i].seq + r[i].len <= r[j].seq
      OBVIOUS
    <3>1. i \in 1 .. n /\ (j \in 1 .. n \/ j = n + 1)
      BY <2>a
    <3>2. r[i] = q[i] /\ q[i].seq + q[i].len <= next
      BY <2>0, <2>b, <3>1
    <3>3. CASE j \in 1 .. n
      <4>1. r[j] = q[j] /\ q[i].seq + q[i].len <= q[j].seq
        BY <2>0, <2>b, <3>1, <3>3
      <4> QED BY <3>2, <4>1
    <3>4. CASE j = n + 1
      BY <1>13, <2>a, <3>2, <3>4
    <3> QED BY <3>1, <3>3, <3>4
  <2>3. \A i \in 1 .. n : r[i].seq + r[i].len = r[i + 1].seq
    <3> TAKE i \in 1 .. n
    <3>1. r[i] = q[i] /\ (i \in 1 .. n - 1 \/ i = n)
      BY <2>a, <2>b
    <3>2. CASE i \in 1 .. n - 1
      <4>1. i + 1 \in 1 .. n
        BY <2>a, <3>2
      <4>2. r[i + 1] = q[i + 1] /\ q[i].seq + q[i].len = q[i + 1].seq
        BY <2>0, <2>b, <3>2, <4>1
      <4> QED BY <3>1, <4>2
    <3>3. CASE i = n
      <4>1. n > 0 /\ q[n].seq + q[n].len = next
        BY <2>a, <2>0, <3>3
      <4> QED BY <1>13, <2>a, <3>1, <3>3, <4>1
    <3> QED BY <3>1, <3>2, <3>3
  <2>4. r[1].seq = v.send_base /\ r[n + 1].seq + r[n + 1].len = NextSum(v)
    <3>1. n = 0 => next = w.send_base
      BY <1>1, <1>5, EmptySeq DEF q, n
    <3> QED BY <1>11, <1>12, <1>13, <2>a, <2>b, <2>0, <3>1
  <2> QED BY <1>1, <1>13, <2>1, <2>2, <2>3, <2>4 DEF WindowChain, r
<1>15. \A m : Boundary(w, m) => Boundary(v, m)
  <2> SUFFICES ASSUME NEW m, Boundary(w, m) PROVE Boundary(v, m)
    OBVIOUS
  <2>1. CASE m = next
    <3>1. n + 1 \in 1 .. n + 1 /\ m = r[n + 1].seq
      BY <1>1, <1>13, <2>1 DEF next
    <3> QED BY <1>13, <3>1 DEF Boundary, r
  <2>2. CASE m # next
    <3>1. PICK i \in 1 .. n : m = q[i].seq
      BY <2>2 DEF Boundary, next, q
    <3>2. i \in 1 .. n + 1 /\ m = r[i].seq
      BY <1>1, <1>13, <3>1
    <3> QED BY <1>13, <3>2 DEF Boundary, r
  <2> QED BY <2>1, <2>2
<1>16. \A s : InWindow(w, s) => InWindow(v, s)
  <2> SUFFICES ASSUME NEW s, InWindow(w, s) PROVE InWindow(v, s)
    OBVIOUS
  <2>1. PICK i \in 1 .. n : s = q[i]
    BY DEF InWindow, q
  <2>2. i \in 1 .. n + 1 /\ s = r[i]
    BY <1>1, <1>13, <2>1
  <2> QED BY <1>13, <2>2 DEF InWindow, r
<1>17. InWindow(v, p)
  BY <1>1, <1>13 DEF InWindow, r
<1> QED BY <1>7, <1>8, <1>11, <1>12, <1>14, <1>15, <1>16, <1>17 DEF next, v

\* SendWindow::NewAckedPacket of an acknowledgement of a boundary above
\* send_base_: both its sanity checks hold, it pops exactly the segments that end
\* at or below the acknowledgement, and the rest is the chain from there on.
LEMMA AckKeepsChain ==
  ASSUME NEW w \in SendWindowType, WindowChain(w), NextSum(w) < Mod,
         NEW ack \in UInt32, Boundary(w, ack), w.send_base < ack
  PROVE  /\ AckAdvances(w, ack)
         /\ AckSane(w, ack)
         /\ Acked(w, ack).send_base = ack
         /\ NextSum(Acked(w, ack)) = NextSum(w)
         /\ WindowChain(Acked(w, ack))
         /\ \A n \in Nat : Boundary(w, n) /\ ack <= n => Boundary(Acked(w, ack), n)
         /\ \A s : InWindow(w, s) => \/ InWindow(Acked(w, ack), s)
                                     \/ s.seq + s.len <= ack
<1> DEFINE q == w.pkts_to_ack
           n == Len(q)
           k == NumAcked(w, ack)
           next == NextSum(w)
           base == w.send_base
           v == Acked(w, ack)
           r == v.pkts_to_ack
<1>1. /\ base \in Nat /\ w.size \in Nat /\ w.size \in UInt32 /\ next = base + w.size
      /\ next \in Nat /\ next \in UInt32
      /\ q \in Seq(Segment) /\ n \in Nat /\ ack \in Nat /\ Mod \in Nat
  BY SendWindowFields, LenProperties, UInt32Nat, PlainNext, ModAssumption DEF NextSum
<1>2. \A i \in 1 .. n : /\ q[i] \in Segment
                        /\ q[i].seq \in Nat /\ q[i].len \in Nat
                        /\ End(q[i]) = q[i].seq + q[i].len
  BY ChainElements, SegmentFields
<1>3. /\ \A i \in 1 .. n : /\ q[i].len > 0
                           /\ base <= q[i].seq
                           /\ q[i].seq + q[i].len <= next
      /\ \A i, j \in 1 .. n : i < j => q[i].seq + q[i].len <= q[j].seq
      /\ \A i \in 1 .. n - 1 : q[i].seq + q[i].len = q[i + 1].seq
  BY DEF WindowChain
<1>4. /\ n = 0 => next = base
      /\ n > 0 => q[1].seq = base /\ q[n].seq + q[n].len = next
  BY <1>1, EmptySeq DEF WindowChain
<1>5. ~AckOverflow(w, ack) /\ AckAdvances(w, ack)
  BY <1>1 DEF AckOverflow, AckAdvances
<1>6. /\ k \in 0 .. n
      /\ \A i \in 1 .. k : q[i].seq < ack
      /\ k < n => ~(q[k + 1].seq < ack)
  BY <1>5, NumAckedBounds DEF IsAcked
<1>7. ack = next \/ \E j \in 1 .. n : ack = q[j].seq
  BY DEF Boundary
<1> HIDE DEF q, n, k, next, base
<1>8. base < ack
  BY DEF base
<1>9. k \in 1 .. n /\ n > 0
  <2>1. n > 0
    <3>1. CASE n = 0
      BY <1>1, <1>4, <1>7, <1>8, <3>1
    <3> QED BY <1>1, <3>1
  <2>2. k # 0
    <3> SUFFICES ASSUME k = 0 PROVE FALSE
      OBVIOUS
    <3>1. ~(q[1].seq < ack)
      BY <1>6, <2>1
    <3> QED BY <1>4, <1>8, <2>1, <3>1
  <2> QED BY <1>1, <1>6, <2>1, <2>2
<1>10. k \in Nat /\ q[k].seq \in Nat /\ q[k].len \in Nat /\ (k < n => k + 1 \in 1 .. n)
  BY <1>1, <1>2, <1>9
<1>11. /\ ack = IF k < n THEN q[k + 1].seq ELSE next
       /\ q[k].seq + q[k].len = ack
  <2>1. CASE ack = next
    <3>1. ~(k < n)
      <4> SUFFICES ASSUME k < n PROVE FALSE
        OBVIOUS
      <4>1. k + 1 \in 1 .. n /\ ~(q[k + 1].seq < ack)
        BY <1>6, <1>10
      <4>2. /\ q[k + 1].seq \in Nat /\ q[k + 1].len \in Nat /\ q[k + 1].len > 0
            /\ q[k + 1].seq + q[k + 1].len <= next
        BY <1>2, <1>3, <4>1
      <4> QED BY <1>1, <2>1, <4>1, <4>2
    <3>2. k = n
      BY <1>1, <1>9, <3>1
    <3> QED BY <1>4, <1>9, <2>1, <3>1, <3>2
  <2>2. CASE \E j \in 1 .. n : ack = q[j].seq
    <3>1. PICK j \in 1 .. n : ack = q[j].seq
      BY <2>2
    <3>2. k < j
      <4> SUFFICES ASSUME ~(k < j) PROVE FALSE
        OBVIOUS
      <4>1. j \in 1 .. k
        BY <1>1, <1>10
      <4>2. q[j].seq < ack
        BY <1>6, <4>1
      <4> QED BY <1>1, <3>1, <4>2
    <3>3. k < n /\ k + 1 \in 1 .. n /\ k \in 1 .. n - 1
      BY <1>1, <1>9, <1>10, <3>2
    <3>4. j = k + 1
      <4> SUFFICES ASSUME j # k + 1 PROVE FALSE
        OBVIOUS
      <4>1. k + 1 < j
        BY <1>10, <3>2
      <4>2. /\ q[k + 1].seq + q[k + 1].len <= q[j].seq
            /\ q[k + 1].seq \in Nat /\ q[k + 1].len \in Nat /\ q[k + 1].len > 0
        BY <1>2, <1>3, <3>3, <4>1
      <4>3. ~(q[k + 1].seq < ack)
        BY <1>6, <3>3
      <4> QED BY SMTT(30), <1>1, <3>1, <4>2, <4>3
    <3>5. q[k].seq + q[k].len = q[k + 1].seq
      BY <1>3, <3>3
    <3> QED BY <3>1, <3>3, <3>4, <3>5
  <2> QED BY <1>7, <2>1, <2>2
<1>12. \A i \in 1 .. k : q[i].seq + q[i].len <= ack
  <2> TAKE i \in 1 .. k
  <2>1. i \in 1 .. n /\ (i = k \/ i < k)
    BY <1>1, <1>9
  <2>2. q[i].seq \in Nat /\ q[i].len \in Nat
    BY <1>2, <2>1
  <2>3. CASE i = k
    BY <1>1, <1>11, <2>2, <2>3
  <2>4. CASE i < k
    <3>1. q[i].seq + q[i].len <= q[k].seq
      BY <1>3, <1>9, <2>1, <2>4
    <3>2. q[k].seq + q[k].len = ack
      BY <1>11
    <3>3. q[i].seq + q[i].len <= q[k].seq + q[k].len
      BY <1>10, <2>2, <3>1
    <3> QED BY <3>2, <3>3
  <2> QED BY <2>1, <2>3, <2>4
<1>13. AckSane(w, ack)
  <2>1. \A i \in 1 .. k : End(q[i]) <= ack
    <3> TAKE i \in 1 .. k
    <3>1. i \in 1 .. n
      BY <1>1, <1>9
    <3> QED BY <1>2, <1>12, <3>1
  <2>2. ack = ExpectedNextAck(w, k)
    <3>1. n = Len(w.pkts_to_ack) /\ q = w.pkts_to_ack
      BY DEF n, q
    <3>2. CASE k < n
      BY <1>11, <3>1, <3>2 DEF ExpectedNextAck
    <3>3. CASE ~(k < n)
      <4>1. k = n /\ q # <<>>
        BY <1>1, <1>9, <3>1, <3>3, EmptySeq
      <4>2. ExpectedNextAck(w, k) = End(q[n])
        BY <3>1, <3>3, <4>1 DEF ExpectedNextAck, LastToAck
      <4>3. End(q[n]) = q[n].seq + q[n].len
        BY <1>1, <1>2, <1>9
      <4> QED BY <1>11, <4>1, <4>2, <4>3
    <3> QED BY <3>2, <3>3
  <2> QED BY <2>1, <2>2 DEF AckSane, k, q
<1>14. /\ ack <= next /\ next - ack \in UInt32
       /\ U32(w.size - AckedBytes(w, k)) = next - ack
  <2>1. ack <= next
    BY <1>1, <1>3, <1>9, <1>11
  <2>2. End(q[k]) = ack /\ q[1].seq = base
    BY <1>1, <1>2, <1>4, <1>9, <1>11
  <2>3. ack - base \in UInt32 /\ next - ack \in UInt32
    BY <1>1, <1>8, <2>1 DEF UInt32
  <2>4. AckedBytes(w, k) = U32(ack - base)
    BY <1>1, <1>9, <2>2 DEF AckedBytes, q
  <2>5. AckedBytes(w, k) = ack - base
    BY <2>3, <2>4, U32Identity
  <2>6. w.size - AckedBytes(w, k) = next - ack
    BY <1>1, <2>5
  <2> QED BY <2>1, <2>3, <2>6, U32Identity
<1>15. /\ v.send_base = ack /\ v.size = next - ack /\ r = SubSeq(q, k + 1, n)
  <2> DEFINE sz == U32(w.size - AckedBytes(w, k))
             rest == SubSeq(q, k + 1, n)
  <2>1. v = [w EXCEPT !.send_base = ack, !.size = sz, !.pkts_to_ack = rest,
                      !.duplicated_acks = 0]
    BY DEF Acked, SendWindowType, k, q, n
  <2> HIDE DEF sz, rest, v
  <2>2. v.send_base = ack /\ v.size = sz /\ v.pkts_to_ack = rest
    BY <2>1 DEF SendWindowType
  <2> QED BY <1>14, <2>2 DEF sz, rest
<1> HIDE DEF v, r
<1>16. /\ r \in Seq(Segment) /\ Len(r) = n - k
       /\ \A i \in 1 .. n - k : r[i] = q[k + i] /\ k + i \in 1 .. n
  <2>1. \A i \in k + 1 .. n : q[i] \in Segment
    BY <1>1, <1>2, <1>10
  <2>2. /\ r \in Seq(Segment) /\ Len(r) = n - k
        /\ \A i \in 1 .. n - k : r[i] = q[k + 1 + i - 1]
    BY <1>1, <1>9, <1>10, <1>15, <2>1, SubSeqProperties
  <2>3. \A i \in 1 .. n - k : k + 1 + i - 1 = k + i /\ k + i \in 1 .. n
    BY SMTT(30), <1>1, <1>9, <1>10
  <2> QED BY <2>2, <2>3
<1>17. NextSum(v) = next
  BY <1>1, <1>15 DEF NextSum
<1>18. n - k \in Nat /\ (r = <<>> => n = k) /\ (r # <<>> => n > k)
  BY <1>1, <1>9, <1>10, <1>16, EmptySeq
<1>19. WindowChain(v)
  <2>1. \A i \in 1 .. n - k : /\ r[i].len > 0
                              /\ v.send_base <= r[i].seq
                              /\ r[i].seq + r[i].len <= NextSum(v)
    <3> TAKE i \in 1 .. n - k
    <3>1. /\ k + i \in 1 .. n /\ r[i] = q[k + i] /\ q[k + i].len > 0
          /\ q[k + i].seq + q[k + i].len <= next
      BY <1>3, <1>16
    <3>2. q[k].seq + q[k].len <= q[k + i].seq
      BY <1>3, <1>9, <1>10, <3>1
    <3> QED BY Zenon, <1>11, <1>15, <1>17, <3>1, <3>2
  <2>2. \A i, j \in 1 .. n - k : i < j => r[i].seq + r[i].len <= r[j].seq
    <3> SUFFICES ASSUME NEW i \in 1 .. n - k, NEW j \in 1 .. n - k, i < j
                 PROVE  r[i].seq + r[i].len <= r[j].seq
      OBVIOUS
    <3>1. /\ k + i \in 1 .. n /\ k + j \in 1 .. n /\ k + i < k + j
          /\ r[i] = q[k + i] /\ r[j] = q[k + j]
      BY <1>10, <1>16
    <3> QED BY <1>3, <3>1
  <2>3. \A i \in 1 .. n - k - 1 : r[i].seq + r[i].len = r[i + 1].seq
    <3> TAKE i \in 1 .. n - k - 1
    <3>1. i \in 1 .. n - k /\ i + 1 \in 1 .. n - k
      BY <1>18
    <3>2. k + i \in 1 .. n - 1 /\ k + (i + 1) = (k + i) + 1
      BY <1>1, <1>9, <1>18
    <3>3. r[i] = q[k + i] /\ r[i + 1] = q[(k + i) + 1]
      BY <1>16, <3>1, <3>2
    <3> QED BY <1>3, <3>2, <3>3
  <2>4. n > k => r[1].seq = v.send_base /\ r[n - k].seq + r[n - k].len = NextSum(v)
    <3> SUFFICES ASSUME n > k
                 PROVE  r[1].seq = v.send_base /\ r[n - k].seq + r[n - k].len = NextSum(v)
      OBVIOUS
    <3>1. 1 \in 1 .. n - k /\ n - k \in 1 .. n - k /\ k + (n - k) = n /\ k < n
      BY SMTT(30), <1>1, <1>10
    <3>2. r[1] = q[k + 1] /\ r[n - k] = q[n]
      BY <1>16, <3>1
    <3> QED BY SMTT(30), <1>4, <1>9, <1>11, <1>15, <1>17, <3>1, <3>2
  <2>5. n = k => v.size = 0
    BY <1>1, <1>4, <1>9, <1>11, <1>15
  <2> QED BY <1>16, <1>18, <2>1, <2>2, <2>3, <2>4, <2>5 DEF WindowChain, r
<1>20. \A m \in Nat : Boundary(w, m) /\ ack <= m => Boundary(v, m)
  <2> SUFFICES ASSUME NEW m \in Nat, Boundary(w, m), ack <= m PROVE Boundary(v, m)
    OBVIOUS
  <2>1. CASE m = next
    BY <1>17, <2>1 DEF Boundary
  <2>2. CASE m # next
    <3>1. PICK i \in 1 .. n : m = q[i].seq
      BY <2>2 DEF Boundary, next, q, n
    <3>2. k < i
      <4> SUFFICES ASSUME ~(k < i) PROVE FALSE
        OBVIOUS
      <4>1. i \in 1 .. k
        BY <1>1, <1>10
      <4> QED BY <1>1, <1>6, <3>1, <4>1
    <3>3. i - k \in 1 .. n - k /\ k + (i - k) = i
      BY <1>1, <1>10, <3>2
    <3>4. m = r[i - k].seq
      BY <1>16, <3>1, <3>3
    <3> QED BY <1>16, <3>3, <3>4 DEF Boundary, r
  <2> QED BY <2>1, <2>2
<1>21. \A s : InWindow(w, s) => InWindow(v, s) \/ s.seq + s.len <= ack
  <2> SUFFICES ASSUME NEW s, InWindow(w, s)
               PROVE  InWindow(v, s) \/ s.seq + s.len <= ack
    OBVIOUS
  <2>1. PICK i \in 1 .. n : s = q[i]
    BY DEF InWindow, q, n
  <2>2. CASE i <= k
    <3>1. i \in 1 .. k
      BY <1>1, <1>10, <2>2
    <3> QED BY <1>12, <2>1, <3>1
  <2>3. CASE ~(i <= k)
    <3>1. i - k \in 1 .. n - k /\ k + (i - k) = i
      BY <1>1, <1>10, <2>3
    <3>2. s = r[i - k]
      BY <1>16, <2>1, <3>1
    <3> QED BY <1>16, <3>1, <3>2 DEF InWindow, r
  <2> QED BY <2>2, <2>3
<1> QED BY <1>5, <1>13, <1>15, <1>17, <1>19, <1>20, <1>21 DEF v, next

-----------------------------------------------------------------------------
(* The receive window. *)

\* A segment of the window lies between its two edges, starts and ends at a
\* boundary, and its end does not wrap.
LEMMA InWindowBounds ==
  ASSUME NEW w \in SendWindowType, WindowChain(w), NextSum(w) < Mod,
         NEW p, InWindow(w, p)
  PROVE  /\ p \in Segment /\ p.seq \in Nat /\ p.len \in Nat /\ p.len > 0
         /\ w.send_base <= p.seq /\ p.seq + p.len <= NextSum(w)
         /\ End(p) = p.seq + p.len
         /\ Boundary(w, p.seq) /\ Boundary(w, p.seq + p.len)
<1> DEFINE q == w.pkts_to_ack
           n == Len(q)
<1>1. PICK i \in 1 .. n : p = q[i]
  BY DEF InWindow
<1>2. p \in Segment /\ End(p) = p.seq + p.len
  BY <1>1, ChainElements
<1>3. p.len > 0 /\ w.send_base <= p.seq /\ p.seq + p.len <= NextSum(w)
  BY <1>1 DEF WindowChain
<1>4. Boundary(w, p.seq)
  BY <1>1 DEF Boundary
<1>5. Boundary(w, p.seq + p.len)
  <2>1. n \in Nat
    BY SendWindowFields, LenProperties
  <2>2. CASE i < n
    <3>1. i \in 1 .. n - 1 /\ i + 1 \in 1 .. n
      BY <2>1, <2>2
    <3>2. p.seq + p.len = q[i + 1].seq
      BY <1>1, <3>1 DEF WindowChain
    <3> QED BY <3>1, <3>2 DEF Boundary
  <2>3. CASE i = n
    <3>1. q # <<>>
      BY <2>1, <2>3, EmptySeq
    <3>2. p.seq + p.len = NextSum(w)
      BY <1>1, <2>3, <3>1 DEF WindowChain
    <3> QED BY <3>2 DEF Boundary
  <2> QED BY <2>1, <2>2, <2>3
<1> QED BY <1>2, <1>3, <1>4, <1>5, SegmentFields

\* Of two segments of the window the one that starts first ends before the other
\* starts.
LEMMA InWindowOrder ==
  ASSUME NEW w \in SendWindowType, WindowChain(w), NextSum(w) < Mod,
         NEW a, InWindow(w, a), NEW b, InWindow(w, b), a.seq < b.seq
  PROVE  a.seq + a.len <= b.seq
<1> DEFINE q == w.pkts_to_ack
           n == Len(q)
<1>1. PICK i \in 1 .. n : a = q[i]
  BY DEF InWindow
<1>2. PICK j \in 1 .. n : b = q[j]
  BY DEF InWindow
<1>3. n \in Nat /\ a.seq \in Nat /\ a.len \in Nat /\ b.seq \in Nat /\ b.len \in Nat
  BY SendWindowFields, LenProperties, InWindowBounds
<1>4. i < j
  <2> SUFFICES ASSUME ~(i < j) PROVE FALSE
    OBVIOUS
  <2>1. i = j \/ j < i
    BY <1>3
  <2>2. CASE i = j
    BY <1>1, <1>2, <1>3, <2>2
  <2>3. CASE j < i
    <3>1. b.seq + b.len <= a.seq
      BY <1>1, <1>2, <2>3 DEF WindowChain
    <3> QED BY <1>3, <3>1
  <2> QED BY <2>1, <2>2, <2>3
<1> QED BY <1>1, <1>2, <1>4 DEF WindowChain

=============================================================================
