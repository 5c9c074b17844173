--------------------------- MODULE StoreTheorems ----------------------------
(***************************************************************************)
(* The receive window keeps what it stores in order (RecvWindow.cc), when  *)
(* every segment it is given is one of the send window.                    *)
(***************************************************************************)
EXTENDS ChainTheorems

\* The insertion loop of RecvWindow::ReceivePacket puts a new segment of the
\* window where it belongs; its sanity checks hold.
LEMMA InsertKeepsOrder ==
  ASSUME NEW w \in SendWindowType, WindowChain(w), NextSum(w) < Mod,
         NEW rw \in RecvWindowType, StoredIn(w, rw),
         NEW p, InWindow(w, p),
         \A j \in 1 .. Len(rw.list) : rw.list[j].seq # p.seq
  PROVE  /\ InsertSane(rw.list, p)
         /\ \A i \in 1 .. Len(rw.list) + 1 :
               LET s == Inserted(rw.list, p)[i]
               IN  /\ InWindow(w, s)
                   /\ s = p \/ \E j \in 1 .. Len(rw.list) : s = rw.list[j]
         /\ \A i, j \in 1 .. Len(rw.list) + 1 :
               i < j => Inserted(rw.list, p)[i].seq < Inserted(rw.list, p)[j].seq
<1> DEFINE list == rw.list
           n == Len(list)
           pos == InsertPos(list, p)
           ins == Inserted(list, p)
<1>1. /\ list \in Seq(Segment) /\ n \in Nat
      /\ p \in Segment /\ p.seq \in Nat /\ p.len \in Nat /\ End(p) = p.seq + p.len
  BY RecvWindowFields, LenProperties, InWindowBounds
<1>2. \A i \in 1 .. n : /\ InWindow(w, list[i])
                        /\ list[i].seq \in Nat /\ list[i].len \in Nat
                        /\ End(list[i]) = list[i].seq + list[i].len
                        /\ list[i].seq # p.seq
  BY InWindowBounds DEF StoredIn
<1>3. \A i, j \in 1 .. n : i < j => list[i].seq < list[j].seq
  BY DEF StoredIn
<1>4. /\ pos \in 1 .. n + 1
      /\ \A i \in 1 .. pos - 1 : list[i].seq < p.seq
      /\ pos <= n => p.seq <= list[pos].seq
  BY Zenon, <1>1, InsertPosBounds
<1>5. /\ \A i \in 1 .. n + 1 : ins[i] = IF i < pos THEN list[i]
                                        ELSE IF i = pos THEN p ELSE list[i - 1]
  BY Zenon, <1>1, InsertedProperties
<1> HIDE DEF list, n, pos, ins
<1>6. InsertSane(list, p)
  <2>1. \A i \in 1 .. pos - 1 : p.seq >= End(list[i])
    <3> TAKE i \in 1 .. pos - 1
    <3>1. i \in 1 .. n /\ list[i].seq < p.seq
      BY <1>1, <1>4
    <3>2. list[i].seq + list[i].len <= p.seq
      BY <1>2, <3>1, InWindowOrder
    <3> QED BY <1>1, <1>2, <3>1, <3>2
  <2>2. pos <= n => End(p) <= list[pos].seq
    <3> SUFFICES ASSUME pos <= n PROVE End(p) <= list[pos].seq
      OBVIOUS
    <3>1. pos \in 1 .. n /\ p.seq < list[pos].seq
      BY <1>1, <1>2, <1>4
    <3>2. p.seq + p.len <= list[pos].seq
      BY <1>2, <3>1, InWindowOrder
    <3> QED BY <1>1, <3>2
  <2> QED BY <2>1, <2>2 DEF InsertSane, pos, n
<1>7. \A i \in 1 .. n + 1 :
        \/ i \in 1 .. n /\ i < pos /\ ins[i] = list[i] /\ ins[i].seq < p.seq
        \/ i = pos /\ ins[i] = p
        \/ i - 1 \in 1 .. n /\ i > pos /\ ins[i] = list[i - 1] /\ p.seq < ins[i].seq
  <2> TAKE i \in 1 .. n + 1
  <2>1. CASE i < pos
    BY <1>1, <1>4, <1>5, <2>1
  <2>2. CASE i = pos
    BY <1>1, <1>4, <1>5, <2>2
  <2>3. CASE i > pos
    <3>1. i - 1 \in 1 .. n /\ pos <= i - 1 /\ pos <= n /\ pos \in 1 .. n
      BY <1>1, <1>4, <2>3
    <3>2. ins[i] = list[i - 1]
      BY <1>4, <1>5, <2>3
    <3>3. p.seq < list[pos].seq
      BY <1>1, <1>2, <1>4, <3>1
    <3>4. list[pos].seq <= list[i - 1].seq
      BY <1>2, <1>3, <3>1
    <3>5. p.seq < list[i - 1].seq
      BY <1>1, <1>2, <3>1, <3>3, <3>4
    <3> QED BY <2>3, <3>1, <3>2, <3>5
  <2> QED BY <1>4, <2>1, <2>2, <2>3
<1>8. \A i \in 1 .. n + 1 : /\ InWindow(w, ins[i])
                            /\ ins[i] = p \/ \E j \in 1 .. n : ins[i] = list[j]
  <2> TAKE i \in 1 .. n + 1
  <2>1. ins[i] = p \/ \E j \in 1 .. n : ins[i] = list[j]
    BY <1>7
  <2> QED BY <1>2, <2>1
<1>9. \A i, j \in 1 .. n + 1 : i < j => ins[i].seq < ins[j].seq
  <2> SUFFICES ASSUME NEW i \in 1 .. n + 1, NEW j \in 1 .. n + 1, i < j
               PROVE  ins[i].seq < ins[j].seq
    OBVIOUS
  <2>1. ins[i].seq \in Nat /\ ins[j].seq \in Nat
    BY <1>8, InWindowBounds
  <2>2. CASE i < pos /\ j < pos
    <3>1. i \in 1 .. n /\ j \in 1 .. n /\ ins[i] = list[i] /\ ins[j] = list[j]
      BY <1>4, <1>7, <2>2
    <3> QED BY <1>3, <3>1
  <2>3. CASE i < pos /\ j >= pos
    <3>1. ins[i].seq < p.seq
      BY <1>4, <1>7, <2>3
    <3>2. ins[j] = p \/ p.seq < ins[j].seq
      BY <1>4, <1>7, <2>3
    <3> QED BY <1>1, <2>1, <3>1, <3>2
  <2>4. CASE i = pos
    <3>1. ins[i] = p
      BY <1>4, <1>7, <2>4
    <3>2. p.seq < ins[j].seq
      BY <1>4, <1>7, <2>4
    <3> QED BY <3>1, <3>2
  <2>5. CASE i > pos
    <3>1. /\ i - 1 \in 1 .. n /\ j - 1 \in 1 .. n
          /\ ins[i] = list[i - 1] /\ ins[j] = list[j - 1]
      BY <1>4, <1>7, <2>5
    <3>2. i - 1 < j - 1
      BY <1>4
    <3> QED BY <1>3, <3>1, <3>2
  <2> QED BY <1>4, <2>2, <2>3, <2>4, <2>5
<1> QED BY <1>6, <1>8, <1>9 DEF list, n, ins

\* RecvWindow::ReceivePacket of a segment of the send window at or ahead of
\* recv_base_ that is not stored yet: its sanity checks hold, recv_base_ moves
\* forward to a boundary, and what stays stored is in order and ahead of it.
LEMMA ReceiveKeepsOrder ==
  ASSUME NEW w \in SendWindowType, WindowChain(w), NextSum(w) < Mod,
         NEW rw \in RecvWindowType, StoredIn(w, rw), Boundary(w, rw.recv_base),
         NEW p, InWindow(w, p), rw.recv_base <= p.seq,
         \A j \in 1 .. Len(rw.list) : rw.list[j].seq # p.seq
  PROVE  LET r == ReceivePacket(rw, p)
         IN  /\ r.sane
             /\ StoredIn(w, r.window)
             /\ Boundary(w, r.window.recv_base)
             /\ rw.recv_base <= r.window.recv_base
             /\ r.window.recv_base <= NextSum(w)
             /\ \A i \in 1 .. Len(r.window.list) :
                   \/ r.window.list[i] = p
                   \/ \E j \in 1 .. Len(rw.list) : r.window.list[i] = rw.list[j]
<1> DEFINE list == rw.list
           n == Len(list)
           base == rw.recv_base
           pos == InsertPos(list, p)
           ins == Inserted(list, p)
           last == RunEnd(ins, pos)
           r == ReceivePacket(rw, p)
<1>1. /\ list \in Seq(Segment) /\ n \in Nat /\ base \in Nat /\ NextSum(w) \in Nat
      /\ p \in Segment /\ p.seq \in Nat /\ p.len \in Nat /\ End(p) = p.seq + p.len
      /\ p.len > 0 /\ p.seq + p.len <= NextSum(w) /\ base <= p.seq
  BY RecvWindowFields, LenProperties, InWindowBounds, PlainNext
<1>2. /\ InsertSane(list, p)
      /\ \A i \in 1 .. n + 1 : /\ InWindow(w, ins[i])
                               /\ ins[i] = p \/ \E j \in 1 .. n : ins[i] = list[j]
      /\ \A i, j \in 1 .. n + 1 : i < j => ins[i].seq < ins[j].seq
  BY InsertKeepsOrder
<1>3. pos \in 1 .. n + 1 /\ \A i \in 1 .. pos - 1 : list[i].seq < p.seq
  BY <1>1, InsertPosBounds
<1>4. ins \in Seq(Segment) /\ Len(ins) = n + 1 /\ ins[pos] = p
  <2>1. /\ ins \in Seq(Segment) /\ Len(ins) = n + 1
        /\ \A i \in 1 .. n + 1 : ins[i] = IF i < pos THEN list[i]
                                          ELSE IF i = pos THEN p ELSE list[i - 1]
    BY Zenon, <1>1, InsertedProperties
  <2> HIDE DEF pos, ins, list, n
  <2> QED BY <1>1, <1>3, <2>1
<1>5. /\ last \in pos .. n + 1
      /\ last < n + 1 => End(ins[last]) # ins[last + 1].seq
  BY <1>3, <1>4, RunEndBounds
<1>6. \A i \in 1 .. n : base < list[i].seq /\ list[i].seq \in Nat
  BY InWindowBounds DEF StoredIn
<1>7. \A i \in 1 .. n + 1 :
        /\ ins[i].seq \in Nat /\ ins[i].len \in Nat /\ ins[i].len > 0
        /\ End(ins[i]) = ins[i].seq + ins[i].len
        /\ ins[i].seq + ins[i].len <= NextSum(w)
        /\ Boundary(w, ins[i].seq + ins[i].len)
  BY <1>2, InWindowBounds
<1>8. CASE base < p.seq
  <2>1. r = [sane |-> InsertSane(list, p), window |-> [rw EXCEPT !.list = ins],
             nodes |-> <<>>]
    <3>1. ~(p.seq < rw.recv_base) /\ ~(p.seq = rw.recv_base)
      BY <1>1, <1>8
    <3> QED BY <3>1, Zenon DEF ReceivePacket, AlreadyAcked
  <2> HIDE DEF ins, list, n, r, pos, last
  <2>2. r.sane /\ r.window.list = ins /\ r.window.recv_base = base
    BY <1>2, <2>1 DEF RecvWindowType
  <2>3. \A i \in 1 .. n + 1 : base < ins[i].seq
    <3> TAKE i \in 1 .. n + 1
    <3>1. ins[i] = p \/ \E j \in 1 .. n : ins[i] = list[j]
      BY <1>2
    <3> QED BY <1>6, <1>8, <3>1
  <2>4. StoredIn(w, r.window)
    BY <1>2, <1>4, <2>2, <2>3 DEF StoredIn
  <2>5. Boundary(w, base) /\ base <= base /\ base <= NextSum(w)
    BY <1>1
  <2>6. \A i \in 1 .. Len(r.window.list) :
           \/ r.window.list[i] = p
           \/ \E j \in 1 .. Len(rw.list) : r.window.list[i] = rw.list[j]
    BY <1>2, <1>4, <2>2 DEF list, n
  <2> QED BY <2>2, <2>4, <2>5, <2>6 DEF r
<1>9. CASE base = p.seq
  <2>1. pos = 1
    <3> SUFFICES ASSUME pos # 1 PROVE FALSE
      OBVIOUS
    <3>1. 1 \in 1 .. pos - 1 /\ 1 \in 1 .. n
      BY <1>1, <1>3
    <3>2. list[1].seq < p.seq /\ base < list[1].seq /\ list[1].seq \in Nat
      BY <1>3, <1>6, <3>1
    <3> QED BY <1>1, <1>9, <3>2
  <2>2. r = [sane   |-> InsertSane(list, p) /\ pos = 1,
             window |-> [recv_base |-> End(ins[last]),
                         list      |-> SubSeq(ins, last + 1, Len(ins))],
             nodes  |-> SubSeq(ins, pos, last)]
    <3>1. ~(p.seq < rw.recv_base) /\ p.seq = rw.recv_base
      BY <1>1, <1>9
    <3> QED BY <3>1, Zenon DEF ReceivePacket, AlreadyAcked
  <2> DEFINE end == End(ins[last])
             rest == SubSeq(ins, last + 1, Len(ins))
  <2> HIDE DEF ins, list, n, r, pos, last
  <2>3. r.sane /\ r.window.recv_base = end /\ r.window.list = rest
    BY <1>2, <2>1, <2>2
  <2>4. last \in 1 .. n + 1 /\ 1 \in 1 .. n + 1
    BY <1>1, <1>5, <2>1
  <2>5. end = ins[last].seq + ins[last].len /\ Boundary(w, end) /\ end <= NextSum(w)
    BY <1>7, <2>4
  <2>6. base <= end
    <3>1. ins[1] = p
      BY <1>4, <2>1
    <3>2. ins[1].seq <= ins[last].seq
      BY SMTT(30), <1>2, <1>7, <2>4
    <3>3. ins[last].seq \in Nat /\ ins[last].len \in Nat
      BY <1>7, <2>4
    <3> QED BY SMTT(30), <1>1, <1>9, <2>5, <3>1, <3>2, <3>3
  <2>7. /\ Len(rest) = n + 1 - last
        /\ \A i \in 1 .. n + 1 - last : rest[i] = ins[last + i] /\ last + i \in 1 .. n + 1
    <3>1. \A i \in last + 1 .. n + 1 : ins[i] \in Segment
      BY <1>1, <1>4, <2>4, ElementOfSeq
    <3>2. /\ Len(rest) = n + 1 - last
          /\ \A i \in 1 .. n + 1 - last : rest[i] = ins[last + 1 + i - 1]
      <4> HIDE DEF rest
      <4>1. PICK a \in Int, b \in Int : a = last + 1 /\ b = n + 1
        BY <1>1, <2>4
      <4>2. rest = SubSeq(ins, a, b) /\ \A i \in a .. b : ins[i] \in Segment
        BY <1>4, <3>1, <4>1 DEF rest
      <4>3. /\ Len(rest) = (IF a <= b THEN b - a + 1 ELSE 0)
            /\ \A i \in 1 .. b - a + 1 : rest[i] = ins[a + i - 1]
        BY <4>2, SubSeqProperties
      <4>4. b - a + 1 = n + 1 - last
        BY <1>1, <2>4, <4>1
      <4> QED BY <1>1, <2>4, <4>1, <4>3, <4>4
    <3>3. \A i \in 1 .. n + 1 - last : last + 1 + i - 1 = last + i /\ last + i \in 1 .. n + 1
      BY <1>1, <2>4
    <3> QED BY Zenon, <3>2, <3>3
  <2> HIDE DEF end, rest
  <2>8. \A i \in 1 .. n + 1 - last : InWindow(w, rest[i]) /\ end < rest[i].seq
    <3> TAKE i \in 1 .. n + 1 - last
    <3>1. rest[i] = ins[last + i] /\ last + i \in 1 .. n + 1 /\ last < last + i
      BY <2>4, <2>7
    <3>2. InWindow(w, rest[i]) /\ ins[last].seq < rest[i].seq /\ InWindow(w, ins[last])
      BY <1>2, <2>4, <3>1
    <3>3. end <= rest[i].seq
      BY <2>5, <3>2, InWindowOrder
    <3>4. end # rest[i].seq
      <4>1. last < n + 1 /\ last + 1 \in 1 .. n + 1
        BY <1>1, <2>4
      <4>2. end # ins[last + 1].seq
        BY <1>5, <4>1 DEF end
      <4>3. CASE i = 1
        BY <3>1, <4>2, <4>3
      <4>4. CASE i # 1
        <5>1. last + 1 < last + i
          BY <2>4, <4>4
        <5>2. ins[last + 1].seq < rest[i].seq
          BY <1>2, <3>1, <4>1, <5>1
        <5>3. ins[last].seq < ins[last + 1].seq
          BY <1>2, <2>4, <4>1
        <5>4. end <= ins[last + 1].seq
          <6>1. InWindow(w, ins[last]) /\ InWindow(w, ins[last + 1])
            BY <1>2, <2>4, <4>1
          <6> QED BY <2>5, <5>3, <6>1, InWindowOrder
        <5>5. /\ end \in Nat /\ ins[last + 1].seq \in Nat /\ rest[i].seq \in Nat
          BY SMTT(30), <1>7, <2>4, <2>5, <3>1, <4>1
        <5> QED BY <5>2, <5>4, <5>5
      <4> QED BY <4>3, <4>4
    <3>5. end \in Nat /\ rest[i].seq \in Nat
      BY <1>7, <2>4, <2>5, <3>1
    <3> QED BY <3>2, <3>3, <3>4, <3>5
  <2>9. \A i, j \in 1 .. n + 1 - last : i < j => rest[i].seq < rest[j].seq
    <3> SUFFICES ASSUME NEW i \in 1 .. n + 1 - last, NEW j \in 1 .. n + 1 - last, i < j
                 PROVE  rest[i].seq < rest[j].seq
      OBVIOUS
    <3>1. /\ rest[i] = ins[last + i] /\ last + i \in 1 .. n + 1
          /\ rest[j] = ins[last + j] /\ last + j \in 1 .. n + 1
          /\ last + i < last + j
      BY <2>4, <2>7
    <3> QED BY <1>2, <3>1
  <2>10. StoredIn(w, r.window)
    BY <2>3, <2>7, <2>8, <2>9 DEF StoredIn
  <2>11. \A i \in 1 .. Len(r.window.list) :
           \/ r.window.list[i] = p
           \/ \E j \in 1 .. Len(rw.list) : r.window.list[i] = rw.list[j]
    <3>1. \A i \in 1 .. n + 1 - last : rest[i] = p \/ \E j \in 1 .. n : rest[i] = list[j]
      BY <1>2, <2>7
    <3> QED BY <2>3, <2>7, <3>1 DEF list, n
  <2> QED BY <2>3, <2>5, <2>6, <2>10, <2>11 DEF r
<1>10. base < p.seq \/ base = p.seq
  BY <1>1
<1> HIDE DEF list, n, pos, ins, last, base
<1> QED BY Zenon, <1>8, <1>9, <1>10

=============================================================================
