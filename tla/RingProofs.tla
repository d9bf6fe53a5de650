----------------------------- MODULE RingProofs -----------------------------
(***************************************************************************)
(* Theorems of RingQueue for every ring size: under any sequence of calls  *)
(* the ring holds the bytes stored and not yet consumed, its two pointers  *)
(* report exactly the room and the bytes there are, and normalizing makes  *)
(* the bytes contiguous, in each of the ways of butil_normalize_ring.      *)
(***************************************************************************)
EXTENDS RingQueue, Least

\* An index that ran over the end of the ring at most once.
Wrap(x) == IF x < RingSize THEN x ELSE x - RingSize

\* The indices and the count of a ring agree: the count tells a full ring from
\* an empty one when head and tail meet.
Agree(h, t, c) ==
  /\ h \in 0 .. RingSize /\ t \in Slots /\ c \in 0 .. RingSize
  /\ h > t => c = h - t
  /\ h < t => c = h - t + RingSize
  /\ h = t => c \in {0, RingSize}

Consistent(r) ==
  /\ r \in [head : 0 .. RingSize, tail : Slots, count : 0 .. RingSize,
            data : [Slots -> Byte]]
  /\ Agree(r.head, r.tail, r.count)

\* Ring r holds the bytes of q, oldest first.
Holds(r, q) ==
  /\ r.count = Len(q)
  /\ \A i \in 1 .. Len(q) : r.data[Wrap(r.tail + i - 1)] = q[i]

\* The inductive invariant.  HoldsFifo is not inductive: that a call finds the
\* bytes where it looks for them needs the indices to agree with the count.
RingInv ==
  /\ Consistent(ring)
  /\ fifo \in Seq(Byte)
  /\ Holds(ring, fifo)

-----------------------------------------------------------------------------
(* Indices *)

\* The modulo by which the specification names a slot wraps it once.
LEMMA ModWrap == \A x \in 0 .. 2 * RingSize - 1 : x % RingSize = Wrap(x)
BY RingAssumption DEF Wrap

\* The fields of a ring and what relates them.
LEMMA Fields ==
  ASSUME NEW r, Consistent(r)
  PROVE  /\ r.head \in Nat /\ r.head <= RingSize /\ r.tail \in Nat /\ r.tail < RingSize
         /\ r.count \in Nat /\ r.count <= RingSize /\ RingSize \in Nat /\ RingSize >= 8
         /\ r.head > r.tail => r.count = r.head - r.tail
         /\ r.head < r.tail => r.count = r.head - r.tail + RingSize
         /\ r.head = r.tail => r.count = 0 \/ r.count = RingSize
         /\ r.data \in [Slots -> Byte]
BY RingAssumption DEF Consistent, Agree, Slots

\* A ring is a record of its fields.
LEMMA Made ==
  ASSUME NEW h, NEW t, NEW c, Agree(h, t, c), NEW f \in [Slots -> Byte]
  PROVE  Consistent([head |-> h, tail |-> t, count |-> c, data |-> f])
BY DEF Consistent, Agree

\* The head goes on by the bytes stored, and wraps at the end of the ring.
LEMMA HeadOn ==
  ASSUME NEW h, NEW t, NEW c, Agree(h, t, c), NEW n \in Nat, n >= 1, n <= RingSize - c,
         h + n <= RingSize, h < t => n <= t - h
  PROVE  Agree(IF h + n >= RingSize THEN 0 ELSE h + n, t, c + n)
<1>1. CASE h + n < RingSize
  <2>1. Agree(h + n, t, c + n)
    BY <1>1, RingAssumption DEF Agree, Slots
  <2>2. ~ (h + n >= RingSize)
    BY <1>1, RingAssumption DEF Agree, Slots
  <2> QED BY <2>1, <2>2
<1>2. CASE h + n = RingSize
  <2>1. Agree(0, t, c + n)
    BY <1>2, RingAssumption DEF Agree, Slots
  <2>2. h + n >= RingSize
    BY <1>2, RingAssumption DEF Agree, Slots
  <2> QED BY <2>1, <2>2
<1> QED BY <1>1, <1>2, RingAssumption DEF Agree, Slots

\* The tail goes on by the bytes consumed, and wraps at the end of the ring.
LEMMA TailOn ==
  ASSUME NEW h, NEW t, NEW c, Agree(h, t, c), NEW n \in Nat, n >= 1, n < c,
         t + n <= RingSize
  PROVE  Agree(h, IF t + n >= RingSize THEN 0 ELSE t + n, c - n)
<1>1. CASE t + n < RingSize
  <2>1. Agree(h, t + n, c - n)
    BY <1>1, RingAssumption DEF Agree, Slots
  <2>2. ~ (t + n >= RingSize)
    BY <1>1, RingAssumption DEF Agree, Slots
  <2> QED BY <2>1, <2>2
<1>2. CASE t + n = RingSize
  <2>1. Agree(h, 0, c - n)
    BY <1>2, RingAssumption DEF Agree, Slots
  <2>2. t + n >= RingSize
    BY <1>2, RingAssumption DEF Agree, Slots
  <2> QED BY <2>1, <2>2
<1> QED BY <1>1, <1>2, RingAssumption DEF Agree, Slots

\* A turn of a rotating loop takes both down, the head past the start if need be.
LEMMA BothDown ==
  ASSUME NEW h, NEW t, NEW c, Agree(h, t, c), NEW k \in Nat, k >= 1, k <= t, k < RingSize
  PROVE  Agree(IF h < k THEN h - k + RingSize ELSE h - k, t - k, c)
<1>1. CASE h < k
  <2>1. Agree(h - k + RingSize, t - k, c)
    BY <1>1, RingAssumption DEF Agree, Slots
  <2> QED BY <1>1, <2>1
<1>2. CASE h >= k
  <2>1. Agree(h - k, t - k, c)
    BY <1>2, RingAssumption DEF Agree, Slots
  <2>2. ~ (h < k)
    BY <1>2, RingAssumption DEF Agree, Slots
  <2> QED BY <2>1, <2>2
<1> QED BY <1>1, <1>2, RingAssumption DEF Agree, Slots

\* What butil_ring_contiguous_write_ptr offers is not occupied.
LEMMA Outside ==
  ASSUME NEW r, Consistent(r), NEW n \in 1 .. WriteRoom(r), NEW i \in 1 .. r.count
  PROVE  /\ Wrap(r.tail + i - 1) \in Slots
         /\ Wrap(r.tail + i - 1) \notin r.head .. r.head + n - 1
BY SMTT(60), RingAssumption DEF Consistent, Agree, WriteRoom, Wrap, Slots

\* It follows the bytes that are there.
LEMMA BehindLast ==
  ASSUME NEW r, Consistent(r), NEW n \in 1 .. WriteRoom(r), NEW j \in 1 .. n
  PROVE  /\ r.head + j - 1 \in Slots
         /\ Wrap(r.tail + (r.count + j) - 1) = r.head + j - 1
<1>1. n \in Nat /\ n >= 1 /\ j \in Nat /\ j >= 1 /\ j <= n
  BY Fields DEF WriteRoom
<1>2. CASE r.head < r.tail
  <2>1. n <= r.tail - r.head
    BY <1>2 DEF WriteRoom
  <2>2. r.count = r.head - r.tail + RingSize
    BY <1>2, Fields
  <2>3. r.head \in Nat /\ r.tail \in Nat /\ r.tail < RingSize /\ RingSize \in Nat
    BY Fields
  <2>4. r.tail + (r.count + j) - 1 = RingSize + (r.head + j - 1)
    BY <1>1, <2>2, <2>3
  <2>5. r.head + j - 1 \in Slots
    BY <1>1, <2>1, <2>3 DEF Slots
  <2> QED BY <2>3, <2>4, <2>5 DEF Wrap, Slots
<1>3. CASE r.head >= r.tail
  <2>1. n <= RingSize - r.head /\ r.count < RingSize
    BY <1>1, <1>3, Fields DEF WriteRoom
  <2>2. r.tail + r.count = r.head
    BY <1>3, <2>1, Fields
  <2> QED BY SMTT(60), <1>1, <1>3, <2>1, <2>2, Fields DEF Wrap, Slots
<1> QED BY <1>2, <1>3, Fields

\* There is room for what butil_ring_contiguous_write_ptr offers.
LEMMA RoomThere ==
  ASSUME NEW r, Consistent(r)
  PROVE  /\ WriteRoom(r) \in Nat /\ WriteRoom(r) <= RingSize - r.count
         /\ r.head + WriteRoom(r) <= RingSize
         /\ WriteRoom(r) = 0 <=> (r.count = RingSize \/ r.head = RingSize)
BY RingAssumption DEF Consistent, Agree, WriteRoom, Slots

\* butil_ring_contiguous_read_ptr offers bytes that are there.
LEMMA BytesThere ==
  ASSUME NEW r, Consistent(r)
  PROVE  /\ ReadAvail(r) \in Nat /\ ReadAvail(r) <= r.count
         /\ r.tail + ReadAvail(r) <= RingSize
         /\ ReadAvail(r) = 0 <=> r.count = 0
BY RingAssumption DEF Consistent, Agree, ReadAvail, Slots

\* What is stored comes after what is there.
LEMMA Joined ==
  ASSUME NEW s \in Seq(Byte), NEW t \in Seq(Byte)
  PROVE  /\ s \o t \in Seq(Byte) /\ Len(s \o t) = Len(s) + Len(t)
         /\ \A i \in 1 .. Len(s) : (s \o t)[i] = s[i]
         /\ \A j \in 1 .. Len(t) : (s \o t)[Len(s) + j] = t[j]
OBVIOUS

-----------------------------------------------------------------------------
(* The calls *)

\* The indices after a read into the ring (smbgw.c:120-125).
LEMMA FilledConsistent ==
  ASSUME NEW r, Consistent(r), NEW n \in 1 .. WriteRoom(r),
         NEW bytes \in Seq(Byte), Len(bytes) = n
  PROVE  Consistent(Fill(r, bytes))
<1> DEFINE h == IF r.head + n >= RingSize THEN 0 ELSE r.head + n
           f == [x \in Slots |-> IF x \in r.head .. r.head + n - 1
                                 THEN bytes[x - r.head + 1] ELSE r.data[x]]
<1>1. Fill(r, bytes) = [head |-> h, tail |-> r.tail, count |-> r.count + n, data |-> f]
  BY DEF Fill
<1>2. /\ n \in Nat /\ n >= 1 /\ n <= RingSize - r.count /\ r.head + n <= RingSize
      /\ r.head < r.tail => n <= r.tail - r.head
  BY SMTT(60), Fields, RoomThere DEF WriteRoom
<1>3. f \in [Slots -> Byte]
  <2>1. ASSUME NEW x \in Slots, x \in r.head .. r.head + n - 1
        PROVE  bytes[x - r.head + 1] \in Byte
    <3>1. x - r.head + 1 \in 1 .. n
      BY SMTT(60), <2>1, <1>2, Fields DEF Slots
    <3> QED BY <3>1
  <2>2. ASSUME NEW x \in Slots PROVE r.data[x] \in Byte
    BY Fields
  <2> QED BY <2>1, <2>2
<1>4. Agree(h, r.tail, r.count + n)
  BY <1>2, HeadOn DEF Consistent
<1> HIDE DEF h, f
<1> QED BY <1>1, <1>3, <1>4, Made

\* The bytes a read stores come after those that were there.
LEMMA StoreStep == RingInv /\ Store => RingInv'
<1> SUFFICES ASSUME RingInv, Store PROVE RingInv'
  OBVIOUS
<1>1. PICK n \in 1 .. WriteRoom(ring) : \E b \in [1 .. n -> Byte] :
        ring' = Fill(ring, b) /\ fifo' = fifo \o b
  BY DEF Store
<1>2. PICK bytes \in [1 .. n -> Byte] :
        ring' = Fill(ring, bytes) /\ fifo' = fifo \o bytes
  BY <1>1
<1>3. /\ Consistent(ring) /\ fifo \in Seq(Byte) /\ Len(fifo) = ring.count
      /\ ring.count \in Nat /\ n \in Nat
  BY RoomThere DEF RingInv, Holds, Consistent
<1>4. bytes \in Seq(Byte) /\ Len(bytes) = n
  BY <1>3
<1>5. /\ fifo' \in Seq(Byte) /\ Len(fifo') = ring.count + n
      /\ \A i \in 1 .. ring.count : fifo'[i] = fifo[i]
      /\ \A j \in 1 .. n : fifo'[ring.count + j] = bytes[j]
  <2>1. /\ fifo \o bytes \in Seq(Byte) /\ Len(fifo \o bytes) = Len(fifo) + Len(bytes)
        /\ \A i \in 1 .. Len(fifo) : (fifo \o bytes)[i] = fifo[i]
        /\ \A j \in 1 .. Len(bytes) : (fifo \o bytes)[Len(fifo) + j] = bytes[j]
    BY <1>3, <1>4, Joined
  <2> QED BY <1>2, <1>3, <1>4, <2>1
<1>6. Consistent(ring')
  BY <1>2, <1>3, <1>4, FilledConsistent
<1>7. /\ ring'.count = ring.count + n /\ ring'.tail = ring.tail
      /\ ring'.data = [x \in Slots |-> IF x \in ring.head .. ring.head + n - 1
                                        THEN bytes[x - ring.head + 1] ELSE ring.data[x]]
  BY <1>2, <1>4 DEF Fill
<1>8. ASSUME NEW i \in 1 .. ring.count
      PROVE  ring'.data[Wrap(ring.tail + i - 1)] = fifo'[i]
  <2>1. /\ Wrap(ring.tail + i - 1) \in Slots
        /\ Wrap(ring.tail + i - 1) \notin ring.head .. ring.head + n - 1
    BY <1>3, Outside
  <2>2. ring.data[Wrap(ring.tail + i - 1)] = fifo[i]
    BY <1>3 DEF RingInv, Holds
  <2> QED BY <1>5, <1>7, <2>1, <2>2
<1>9. ASSUME NEW j \in 1 .. n
      PROVE  ring'.data[Wrap(ring.tail + (ring.count + j) - 1)] = fifo'[ring.count + j]
  <2>1. /\ ring.head + j - 1 \in Slots
        /\ Wrap(ring.tail + (ring.count + j) - 1) = ring.head + j - 1
    BY <1>3, BehindLast
  <2>2. /\ ring.head + j - 1 \in ring.head .. ring.head + n - 1
        /\ (ring.head + j - 1) - ring.head + 1 = j
    BY <1>3 DEF Consistent
  <2> QED BY <1>5, <1>7, <2>1, <2>2
<1>10. Holds(ring', fifo')
  <2>1. ASSUME NEW i \in 1 .. ring.count + n
        PROVE  ring'.data[Wrap(ring.tail + i - 1)] = fifo'[i]
    <3>1. CASE i \in 1 .. ring.count
      BY <3>1, <1>8
    <3>2. CASE i \notin 1 .. ring.count
      <4>1. i - ring.count \in 1 .. n /\ ring.count + (i - ring.count) = i
        BY <3>2, <1>3
      <4> QED BY <4>1, <1>9
    <3> QED BY <3>1, <3>2
  <2> QED BY <1>5, <1>7, <2>1 DEF Holds
<1> QED BY <1>5, <1>6, <1>10 DEF RingInv

\* butil_reset_ring forgets everything.
LEMMA ResetRing ==
  ASSUME NEW r, Consistent(r)
  PROVE  Consistent(Reset(r)) /\ Holds(Reset(r), <<>>)
BY RingAssumption DEF Consistent, Agree, Reset, Holds, Slots

\* The indices after a write out of the ring (smbgw.c:190-195).
LEMMA AdvancedConsistent ==
  ASSUME NEW r, Consistent(r), NEW n \in 1 .. ReadAvail(r), n # r.count
  PROVE  /\ Consistent(Advance(r, n))
         /\ Advance(r, n).count = r.count - n
         /\ Advance(r, n).tail = Wrap(r.tail + n)
         /\ Advance(r, n).data = r.data
<1> DEFINE t == IF r.tail + n >= RingSize THEN 0 ELSE r.tail + n
<1>1. Advance(r, n) = [head |-> r.head, tail |-> t, count |-> r.count - n, data |-> r.data]
  <2>1. r \in [head : 0 .. RingSize, tail : Slots, count : 0 .. RingSize,
               data : [Slots -> Byte]]
    BY DEF Consistent
  <2>2. Advance(r, n) = [r EXCEPT !.count = r.count - n, !.tail = t]
    BY DEF Advance
  <2> HIDE DEF t
  <2> QED BY <2>1, <2>2
<1>2. /\ n \in Nat /\ n >= 1 /\ n < r.count /\ r.tail + n <= RingSize
  BY BytesThere, Fields
<1>3. t = Wrap(r.tail + n)
  BY <1>2, Fields DEF Wrap
<1>4. Agree(r.head, t, r.count - n)
  BY <1>2, TailOn DEF Consistent
<1> HIDE DEF t
<1>5. Consistent(Advance(r, n))
  BY <1>1, <1>4, Fields, Made
<1> QED BY <1>1, <1>3, <1>5

\* What a write takes from the ring are its oldest bytes.
LEMMA ConsumeStep == RingInv /\ Consume => RingInv'
<1> SUFFICES ASSUME RingInv, Consume PROVE RingInv'
  OBVIOUS
<1>1. PICK n \in 1 .. ReadAvail(ring) :
        ring' = Drain(ring, n) /\ fifo' = SubSeq(fifo, n + 1, Len(fifo))
  BY DEF Consume
<1>2. /\ Consistent(ring) /\ fifo \in Seq(Byte) /\ Len(fifo) = ring.count
      /\ ring.count \in Nat /\ n \in Nat /\ n <= ring.count /\ n >= 1
      /\ ring.tail \in Slots /\ ring.tail + n <= RingSize /\ ring.count <= RingSize
  <2>1. Consistent(ring) /\ fifo \in Seq(Byte) /\ Len(fifo) = ring.count
    BY DEF RingInv, Holds
  <2> QED BY <2>1, BytesThere, Fields DEF Slots
<1>3. /\ fifo' \in Seq(Byte) /\ Len(fifo') = ring.count - n
      /\ \A i \in 1 .. ring.count - n : fifo'[i] = fifo[n + i]
  BY <1>1, <1>2
<1>4. CASE n = ring.count
  <2>1. fifo' = <<>>
    BY <1>3, <1>4
  <2> QED BY <1>1, <1>2, <1>3, <1>4, <2>1, ResetRing DEF Drain, RingInv
<1>5. CASE n # ring.count
  <2>1. ring' = Advance(ring, n)
    BY <1>1, <1>5 DEF Drain
  <2>2. /\ Consistent(ring') /\ ring'.count = ring.count - n
        /\ ring'.tail = Wrap(ring.tail + n) /\ ring'.data = ring.data
    BY <1>2, <1>5, <2>1, AdvancedConsistent
  <2>3. ASSUME NEW i \in 1 .. ring.count - n
        PROVE  ring'.data[Wrap(ring'.tail + i - 1)] = fifo'[i]
    <3>1. Wrap(ring'.tail + i - 1) = Wrap(ring.tail + (n + i) - 1)
      BY SMTT(60), <1>2, <2>2, RingAssumption DEF Wrap, Slots
    <3>2. n + i \in 1 .. Len(fifo)
      BY <1>2
    <3> QED BY <1>3, <2>2, <3>1, <3>2 DEF RingInv, Holds
  <2> QED BY <1>3, <2>2, <2>3 DEF Holds, RingInv
<1> QED BY <1>4, <1>5

-----------------------------------------------------------------------------
(* butil_normalize_ring *)

\* The record butil_normalize_ring leaves when it moved the bytes in one go.
LEMMA Straight0 ==
  ASSUME NEW r \in [head : 0 .. RingSize, tail : Slots, count : 0 .. RingSize,
                   data : [Slots -> Byte]], NEW f, NEW h
  PROVE  [r EXCEPT !.data = f, !.tail = 0, !.head = h]
           = [head |-> h, tail |-> 0, count |-> r.count, data |-> f]
<1> SUFFICES ASSUME NEW x, x = [r EXCEPT !.data = f, !.tail = 0, !.head = h]
             PROVE  x = [head |-> h, tail |-> 0, count |-> r.count, data |-> f]
  OBVIOUS
<1>1. /\ x.head = h /\ x.tail = 0 /\ x.count = r.count /\ x.data = f
      /\ x = [head |-> x.head, tail |-> x.tail, count |-> x.count, data |-> x.data]
  OBVIOUS
<1> QED BY ONLY <1>1

\* The record butil_normalize_ring leaves of an empty ring.
LEMMA Emptied ==
  ASSUME NEW r \in [head : 0 .. RingSize, tail : Slots, count : 0 .. RingSize,
                   data : [Slots -> Byte]], r.count = 0
  PROVE  [r EXCEPT !.tail = 0, !.head = 0]
           = [head |-> 0, tail |-> 0, count |-> 0, data |-> r.data]
<1> SUFFICES ASSUME NEW x, x = [r EXCEPT !.tail = 0, !.head = 0]
             PROVE  x = [head |-> 0, tail |-> 0, count |-> 0, data |-> r.data]
  OBVIOUS
<1>1. /\ x.head = 0 /\ x.tail = 0 /\ x.count = 0 /\ x.data = r.data
      /\ x = [head |-> x.head, tail |-> x.tail, count |-> x.count, data |-> x.data]
  OBVIOUS
<1> QED BY ONLY <1>1

\* What normalizing has to do to ring r, which holds the bytes of q.
Normalized(r, q) == Consistent(r) /\ Holds(r, q) /\ r.tail = 0

\* A ring whose bytes lie side by side is moved down (butil.c:63).
LEMMA Moved ==
  ASSUME NEW r, Consistent(r), NEW q \in Seq(Byte), Holds(r, q), r.tail < r.head
  PROVE  Normalized([r EXCEPT !.data = MovedDown(r.data, r.tail, r.count),
                              !.tail = 0, !.head = r.count], q)
<1> DEFINE f == MovedDown(r.data, r.tail, r.count)
           m == [head |-> r.count, tail |-> 0, count |-> r.count, data |-> f]
<1>1. [r EXCEPT !.data = f, !.tail = 0, !.head = r.count] = m
  <2>1. r \in [head : 0 .. RingSize, tail : Slots, count : 0 .. RingSize,
               data : [Slots -> Byte]]
    BY DEF Consistent
  <2> HIDE DEF f
  <2> QED BY <2>1, Straight0
<1>2. /\ r.count = r.head - r.tail /\ r.count \in Nat /\ r.tail \in Nat
      /\ r.head <= RingSize /\ r.head \in Nat /\ RingSize \in Nat /\ RingSize >= 8
  BY Fields
<1>3. f \in [Slots -> Byte]
  <2>1. ASSUME NEW i \in Slots PROVE (IF i < r.count THEN r.data[r.tail + i] ELSE r.data[i]) \in Byte
    <3>1. i < r.count => r.tail + i \in Slots
      BY <1>2 DEF Slots
    <3> QED BY <3>1, Fields
  <2> QED BY <2>1 DEF MovedDown
<1>4. Agree(r.count, 0, r.count)
  BY <1>2 DEF Agree, Slots
<1>5. Consistent(m)
  <2> HIDE DEF f
  <2> QED BY <1>3, <1>4, Made
<1>6. Holds(m, q)
  <2>1. ASSUME NEW i \in 1 .. Len(q) PROVE f[Wrap(0 + i - 1)] = q[i]
    <3>1. /\ Wrap(0 + i - 1) = i - 1 /\ i - 1 \in Slots /\ i - 1 < r.count
          /\ Wrap(r.tail + i - 1) = r.tail + (i - 1)
      BY <1>2 DEF Wrap, Slots, Holds
    <3>2. f[i - 1] = r.data[r.tail + (i - 1)]
      BY <3>1 DEF MovedDown
    <3> QED BY <3>1, <3>2 DEF Holds
  <2> QED BY <2>1 DEF Holds
<1> QED BY <1>1, <1>5, <1>6 DEF Normalized

\* A ring that wraps is put together through the temp buffer (butil.c:66-75).
LEMMA SwappedOver ==
  ASSUME NEW r, Consistent(r), NEW q \in Seq(Byte), Holds(r, q),
         r.head <= r.tail, r.count # 0
  PROVE  Normalized([Swapped(r) EXCEPT !.tail = 0, !.head = r.count], q)
<1> DEFINE f == [i \in Slots |->
                   IF i < RingSize - r.tail THEN r.data[r.tail + i]
                   ELSE IF i - (RingSize - r.tail) < r.head THEN r.data[i - (RingSize - r.tail)]
                   ELSE r.data[i]]
           m == [head |-> r.count, tail |-> 0, count |-> r.count, data |-> f]
<1>1. [Swapped(r) EXCEPT !.tail = 0, !.head = r.count] = m
  <2>1. r \in [head : 0 .. RingSize, tail : Slots, count : 0 .. RingSize,
               data : [Slots -> Byte]]
    BY DEF Consistent
  <2>2. Swapped(r) = [r EXCEPT !.data = f]
    BY DEF Swapped
  <2> HIDE DEF f
  <2>3. [Swapped(r) EXCEPT !.tail = 0, !.head = r.count]
          = [r EXCEPT !.data = f, !.tail = 0, !.head = r.count]
    BY <2>2
  <2> QED BY <2>1, <2>3, Straight0
<1>2. /\ r.count = r.head - r.tail + RingSize /\ r.count \in Nat /\ r.tail \in Nat
      /\ r.head \in Nat /\ RingSize \in Nat /\ RingSize >= 8 /\ r.tail < RingSize
      /\ r.count <= RingSize /\ r.data \in [Slots -> Byte]
  BY Fields
<1>3. f \in [Slots -> Byte]
  <2>1. ASSUME NEW i \in Slots
        PROVE  (IF i < RingSize - r.tail THEN r.data[r.tail + i]
                ELSE IF i - (RingSize - r.tail) < r.head THEN r.data[i - (RingSize - r.tail)]
                ELSE r.data[i]) \in Byte
    <3>1. i < RingSize - r.tail => r.tail + i \in Slots
      BY <1>2 DEF Slots
    <3>2. ~ (i < RingSize - r.tail) => i - (RingSize - r.tail) \in Slots
      BY <1>2 DEF Slots
    <3> QED BY <1>2, <3>1, <3>2
  <2> QED BY <2>1
<1>4. Agree(r.count, 0, r.count)
  BY <1>2 DEF Agree, Slots
<1>5. Consistent(m)
  <2> HIDE DEF f
  <2> QED BY <1>3, <1>4, Made
<1>6. Holds(m, q)
  <2>1. ASSUME NEW i \in 1 .. Len(q) PROVE f[Wrap(0 + i - 1)] = q[i]
    <3>1. /\ Wrap(0 + i - 1) = i - 1 /\ i - 1 \in Slots /\ i \in Nat /\ i <= r.count
      BY <1>2 DEF Wrap, Slots, Holds
    <3>2. f[i - 1] = r.data[Wrap(r.tail + i - 1)]
      <4>1. CASE i - 1 < RingSize - r.tail
        <5>1. Wrap(r.tail + i - 1) = r.tail + (i - 1)
          BY <1>2, <3>1, <4>1 DEF Wrap
        <5> QED BY <3>1, <4>1, <5>1
      <4>2. CASE ~ (i - 1 < RingSize - r.tail)
        <5>1. /\ Wrap(r.tail + i - 1) = (i - 1) - (RingSize - r.tail)
              /\ (i - 1) - (RingSize - r.tail) < r.head
          BY <1>2, <3>1, <4>2 DEF Wrap
        <5> QED BY <3>1, <4>2, <5>1
      <4> QED BY <4>1, <4>2
    <3> QED BY <3>1, <3>2 DEF Holds
  <2> QED BY <2>1 DEF Holds
<1> QED BY <1>1, <1>5, <1>6 DEF Normalized

\* The place of a byte before a turn of a rotating loop and after it.
LEMMA TurnedBack ==
  ASSUME NEW t \in Nat, t < RingSize, NEW k \in Nat, k <= t,
         NEW i \in Nat, i >= 1, i <= RingSize
  PROVE  /\ Wrap(t - k + i - 1) \in Slots
         /\ Wrap(Wrap(t - k + i - 1) + k) = Wrap(t + i - 1)
BY RingAssumption DEF Wrap, Slots

\* One turn of a rotating loop moves every byte and both indices alike.
LEMMA RotatedOnce ==
  ASSUME NEW r, Consistent(r), NEW q \in Seq(Byte), Holds(r, q),
         NEW k \in 1 .. 4, k <= r.tail
  PROVE  /\ Consistent(Rotate(r, k)) /\ Holds(Rotate(r, k), q)
         /\ Rotate(r, k).tail = r.tail - k
<1> DEFINE f == [i \in Slots |-> r.data[(i + k) % RingSize]]
           h == IF r.head < k THEN r.head - k + RingSize ELSE r.head - k
<1>1. Rotate(r, k) = [head |-> h, tail |-> r.tail - k, count |-> r.count, data |-> f]
  BY DEF Rotate
<1>2. /\ r.count \in Nat /\ r.tail \in Nat /\ r.tail < RingSize /\ k \in Nat /\ k >= 1
      /\ k < RingSize /\ RingSize \in Nat /\ RingSize >= 8
      /\ r.count <= RingSize /\ r.data \in [Slots -> Byte]
  BY Fields
<1>3. ASSUME NEW i \in Slots
      PROVE  (i + k) % RingSize = Wrap(i + k) /\ Wrap(i + k) \in Slots
  <2>1. i + k \in 0 .. 2 * RingSize - 1
    BY <1>2 DEF Slots
  <2>2. Wrap(i + k) \in Slots
    BY <1>2 DEF Slots, Wrap
  <2> QED BY <2>1, <2>2, ModWrap
<1>4. f \in [Slots -> Byte]
  BY <1>2, <1>3
<1>5. Agree(h, r.tail - k, r.count)
  BY <1>2, BothDown DEF Consistent
<1> HIDE DEF h
<1>6. Consistent(Rotate(r, k))
  <2> HIDE DEF f
  <2> QED BY <1>1, <1>4, <1>5, Made
<1>7. Holds(Rotate(r, k), q)
  <2>1. ASSUME NEW i \in 1 .. Len(q) PROVE f[Wrap(r.tail - k + i - 1)] = q[i]
    <3> DEFINE j == Wrap(r.tail - k + i - 1)
    <3>1. i \in Nat /\ i >= 1 /\ i <= r.count
      BY <1>2 DEF Holds
    <3>2. j \in Slots /\ Wrap(j + k) = Wrap(r.tail + i - 1)
      <4>1. i <= RingSize
        BY <1>2, <3>1
      <4> QED BY <1>2, <3>1, <4>1, TurnedBack
    <3> HIDE DEF j
    <3>3. f[j] = r.data[Wrap(r.tail + i - 1)]
      BY <1>3, <3>2
    <3> QED BY <3>3 DEF Holds, j
  <2> HIDE DEF f
  <2> QED BY <1>1, <2>1 DEF Holds
<1> QED BY <1>1, <1>6, <1>7

\* The turns of the two loops: by four, then one by one.
LEMMA TurnsOf ==
  ASSUME NEW t \in Nat
  PROVE  /\ Len(Rotations(t)) = (t \div 4) + (t % 4)
         /\ t \div 4 \in Nat /\ t % 4 \in 0 .. 3 /\ t = 4 * (t \div 4) + (t % 4)
         /\ \A n \in 1 .. t \div 4 : Rotations(t)[n] = 4
         /\ \A n \in (t \div 4) + 1 .. (t \div 4) + (t % 4) : Rotations(t)[n] = 1
<1> DEFINE a == t \div 4
           b == t % 4
           u == [i \in 1 .. a |-> 4]
           v == [i \in 1 .. b |-> 1]
<1>1. a \in Nat /\ b \in 0 .. 3 /\ t = 4 * a + b
  OBVIOUS
<1> HIDE DEF a, b
<1>2. u \in Seq(Nat) /\ Len(u) = a /\ v \in Seq(Nat) /\ Len(v) = b
  BY <1>1
<1>3. /\ Len(u \o v) = a + b
      /\ \A n \in 1 .. a : (u \o v)[n] = 4
      /\ \A n \in a + 1 .. a + b : (u \o v)[n] = 1
  BY <1>1, <1>2
<1>4. Rotations(t) = u \o v
  BY DEF Rotations, ByFours, a, b
<1> QED BY <1>1, <1>3, <1>4 DEF a, b

\* What is left of the tail after n turns.
TailAfter(t, n) ==
  IF n <= t \div 4 THEN t - 4 * n ELSE (t % 4) - (n - (t \div 4))

\* A turn never takes the tail below the start of the ring, and the last one
\* gets it there.
LEMMA TurnFits ==
  ASSUME NEW t \in Nat
  PROVE  /\ TailAfter(t, 0) = t /\ TailAfter(t, Len(Rotations(t))) = 0
         /\ \A n \in 1 .. Len(Rotations(t)) :
              /\ Rotations(t)[n] \in 1 .. 4 /\ Rotations(t)[n] <= TailAfter(t, n - 1)
              /\ TailAfter(t, n) = TailAfter(t, n - 1) - Rotations(t)[n]
<1> DEFINE a == t \div 4
           b == t % 4
<1>1. /\ a \in Nat /\ b \in 0 .. 3 /\ t = 4 * a + b
      /\ Len(Rotations(t)) = a + b
      /\ \A n \in 1 .. a : Rotations(t)[n] = 4
      /\ \A n \in a + 1 .. a + b : Rotations(t)[n] = 1
      /\ \A n : TailAfter(t, n) = IF n <= a THEN t - 4 * n ELSE b - (n - a)
  BY TurnsOf DEF TailAfter
<1> HIDE DEF a, b
<1>2. ASSUME NEW n \in 1 .. a + b
      PROVE  /\ Rotations(t)[n] \in 1 .. 4 /\ Rotations(t)[n] <= TailAfter(t, n - 1)
             /\ TailAfter(t, n) = TailAfter(t, n - 1) - Rotations(t)[n]
  <2>1. CASE n <= a
    <3>1. Rotations(t)[n] = 4 /\ TailAfter(t, n - 1) = t - 4 * (n - 1) /\ TailAfter(t, n) = t - 4 * n
      BY <1>1, <2>1
    <3> QED BY <1>1, <2>1, <3>1
  <2>2. CASE n = a + 1
    <3>1. Rotations(t)[n] = 1 /\ TailAfter(t, n - 1) = t - 4 * a /\ TailAfter(t, n) = b - 1 /\ b >= 1
      BY <1>1, <2>2
    <3> QED BY <1>1, <2>2, <3>1
  <2>3. CASE n > a + 1
    <3>1. /\ Rotations(t)[n] = 1 /\ TailAfter(t, n - 1) = b - ((n - 1) - a)
          /\ TailAfter(t, n) = b - (n - a)
      BY <1>1, <2>3
    <3> QED BY <1>1, <2>3, <3>1
  <2> QED BY <1>1, <2>1, <2>2, <2>3
<1>3. TailAfter(t, 0) = t /\ TailAfter(t, a + b) = 0
  BY <1>1
<1> QED BY <1>1, <1>2, <1>3

\* The function of Rotated, for the first m of its turns.
TurnsDone(r, m, f) ==
  f = [n \in 0 .. m |-> IF n = 0 THEN r ELSE Rotate(f[n - 1], Rotations(r.tail)[n])]

\* It exists, for any number of turns.
LEMMA TurnsExist ==
  ASSUME NEW r, NEW m \in Nat
  PROVE  \E f : TurnsDone(r, m, f)
<1> DEFINE T == {k \in Nat : ~ \E f : TurnsDone(r, k, f)}
<1>1. SUFFICES ASSUME T # {} PROVE FALSE
  OBVIOUS
<1>2. PICK k \in T : \A j \in T : k <= j
  BY <1>1, LeastNat
<1>3. k \in Nat /\ ~ \E f : TurnsDone(r, k, f)
  OBVIOUS
<1> HIDE DEF T
<1>4. CASE k = 0
  <2> DEFINE f == [n \in 0 .. 0 |-> r]
  <2>1. f = [n \in 0 .. 0 |-> IF n = 0 THEN r ELSE Rotate(f[n - 1], Rotations(r.tail)[n])]
    OBVIOUS
  <2> HIDE DEF f
  <2>2. TurnsDone(r, 0, f)
    BY <2>1 DEF TurnsDone
  <2> QED BY <1>3, <1>4, <2>2
<1>5. CASE k # 0
  <2>1. k - 1 \in Nat /\ ~ (k <= k - 1)
    BY <1>3, <1>5
  <2>2. PICK g : TurnsDone(r, k - 1, g)
    BY <1>2, <2>1 DEF T
  <2> DEFINE f == [n \in 0 .. k |-> IF n = 0 THEN r ELSE Rotate(g[n - 1], Rotations(r.tail)[n])]
  <2>3. g = [n \in 0 .. k - 1 |-> IF n = 0 THEN r ELSE Rotate(g[n - 1], Rotations(r.tail)[n])]
    BY <2>2 DEF TurnsDone
  <2>4. \A n \in 0 .. k - 1 : f[n] = g[n]
    <3>1. \A n \in 0 .. k - 1 :
            g[n] = IF n = 0 THEN r ELSE Rotate(g[n - 1], Rotations(r.tail)[n])
      BY <2>3
    <3>2. \A n \in 0 .. k - 1 : n \in 0 .. k
      BY <1>3
    <3> QED BY <3>1, <3>2
  <2>5. ASSUME NEW n \in 0 .. k
        PROVE  f[n] = IF n = 0 THEN r ELSE Rotate(f[n - 1], Rotations(r.tail)[n])
    <3>1. f[n] = IF n = 0 THEN r ELSE Rotate(g[n - 1], Rotations(r.tail)[n])
      OBVIOUS
    <3>2. n # 0 => f[n - 1] = g[n - 1]
      <4>1. n # 0 => n - 1 \in 0 .. k - 1
        BY <1>3
      <4> HIDE DEF f
      <4> QED BY <2>4, <4>1
    <3> HIDE DEF f
    <3> QED BY <3>1, <3>2
  <2>6. f = [n \in 0 .. k |-> f[n]]
    OBVIOUS
  <2> HIDE DEF f
  <2>7. TurnsDone(r, k, f)
    BY <2>5, <2>6 DEF TurnsDone
  <2> QED BY <1>3, <2>7
<1> QED BY <1>4, <1>5

\* All the turns together leave the bytes at the start of the ring.
LEMMA RotatedDown ==
  ASSUME NEW r, Consistent(r), NEW q \in Seq(Byte), Holds(r, q)
  PROVE  Normalized(Rotated(r), q)
<1> DEFINE L == Len(Rotations(r.tail))
           Done(f) == f = [n \in 0 .. L |-> IF n = 0 THEN r ELSE Rotate(f[n - 1], Rotations(r.tail)[n])]
           after == CHOOSE f : Done(f)
<1>1. Rotated(r) = after[L]
  BY DEF Rotated
<1>2. r.tail \in Nat /\ L \in Nat
  BY Fields, TurnsOf
<1>3. \E f : Done(f)
  BY <1>2, TurnsExist DEF TurnsDone
<1>4. Done(after)
  <2> HIDE DEF Done
  <2> QED BY <1>3
<1> HIDE DEF after
<1>5. /\ after[0] = r
      /\ \A n \in 1 .. L : after[n] = Rotate(after[n - 1], Rotations(r.tail)[n])
  BY <1>2, <1>4
<1> HIDE DEF Done, L
<1> DEFINE Good(n) == /\ Consistent(after[n]) /\ Holds(after[n], q)
                      /\ after[n].tail = TailAfter(r.tail, n)
           T == {n \in Nat : n <= L /\ ~ Good(n)}
<1>6. Good(0)
  BY <1>2, <1>5, TurnFits
<1>7. ASSUME NEW n \in 1 .. L, Good(n - 1) PROVE Good(n)
  <2>1. /\ Rotations(r.tail)[n] \in 1 .. 4 /\ Rotations(r.tail)[n] <= TailAfter(r.tail, n - 1)
        /\ TailAfter(r.tail, n) = TailAfter(r.tail, n - 1) - Rotations(r.tail)[n]
    BY <1>2, TurnFits DEF L
  <2>2. after[n] = Rotate(after[n - 1], Rotations(r.tail)[n])
    BY <1>5
  <2> QED BY <1>7, <2>1, <2>2, RotatedOnce
<1> HIDE DEF Good
<1>8. T = {}
  <2> SUFFICES ASSUME T # {} PROVE FALSE
    OBVIOUS
  <2>1. PICK k \in T : \A j \in T : k <= j
    BY LeastNat
  <2>2. k \in Nat /\ k <= L /\ ~ Good(k) /\ k # 0
    BY <1>6
  <2>3. k \in 1 .. L /\ k - 1 \in Nat /\ k - 1 <= L /\ ~ (k <= k - 1)
    BY <1>2, <2>2
  <2>4. Good(k - 1)
    BY <2>1, <2>3
  <2> QED BY <1>7, <2>2, <2>3, <2>4
<1>9. Good(L)
  BY <1>2, <1>8
<1> QED BY <1>1, <1>2, <1>9, TurnFits DEF Good, L, Normalized

\* butil_normalize_ring, whichever way it takes.
LEMMA NormalizedRing ==
  ASSUME NEW r, Consistent(r), NEW q \in Seq(Byte), Holds(r, q), NEW hasTemp \in BOOLEAN
  PROVE  Normalized(Normalize(r, hasTemp), q)
<1>1. CASE r.tail = 0
  BY <1>1 DEF Normalize, Normalized
<1>2. CASE r.tail # 0 /\ r.count = 0
  <2> DEFINE e == [head |-> 0, tail |-> 0, count |-> 0, data |-> r.data]
  <2>1. Normalize(r, hasTemp) = [r EXCEPT !.tail = 0, !.head = 0]
    BY <1>2 DEF Normalize
  <2>2. [r EXCEPT !.tail = 0, !.head = 0] = e
    BY <1>2, Emptied DEF Consistent
  <2>3. Agree(0, 0, 0)
    BY RingAssumption DEF Agree, Slots
  <2>4. Consistent(e)
    BY <2>3, Made, Fields
  <2>5. Holds(e, q)
    <3>1. Len(q) = 0
      BY <1>2 DEF Holds
    <3> QED BY <3>1 DEF Holds
  <2> QED BY <2>1, <2>2, <2>4, <2>5 DEF Normalized
<1>3. CASE r.tail # 0 /\ r.count # 0 /\ r.tail < r.head
  BY <1>3, Moved DEF Normalize
<1>4. CASE r.tail # 0 /\ r.count # 0 /\ ~ (r.tail < r.head)
  <2>1. r.head <= r.tail
    BY <1>4, Fields
  <2>2. CASE hasTemp
    BY <1>4, <2>1, <2>2, SwappedOver DEF Normalize
  <2>3. CASE ~ hasTemp
    BY <1>4, <2>3, RotatedDown DEF Normalize
  <2> QED BY <2>2, <2>3
<1> QED BY <1>1, <1>2, <1>3, <1>4

-----------------------------------------------------------------------------
(* Theorems *)

\* The rings of smbgw_proxy_init are empty.
LEMMA InitRing == RingInit => RingInv
<1> SUFFICES ASSUME RingInit PROVE RingInv
  OBVIOUS
<1>1. ring \in [head : {0}, tail : {0}, count : {0}, data : [Slots -> Byte]] /\ fifo = <<>>
  BY DEF RingInit
<1>2. ring.head = 0 /\ ring.tail = 0 /\ ring.count = 0
  BY <1>1
<1>3. Agree(0, 0, 0)
  BY RingAssumption DEF Agree, Slots
<1>4. ring \in [head : 0 .. RingSize, tail : Slots, count : 0 .. RingSize,
                data : [Slots -> Byte]]
  BY <1>1, RingAssumption DEF Slots
<1>5. fifo \in Seq(Byte) /\ Len(fifo) = 0
  BY <1>1
<1> QED BY <1>2, <1>3, <1>4, <1>5 DEF RingInv, Consistent, Holds

\* butil_normalize_ring keeps the bytes and their order.
LEMMA StraightenStep == RingInv /\ Straighten => RingInv'
BY NormalizedRing, TempsAssumption DEF RingInv, Straighten, Normalized

\* Every call keeps the invariant.
LEMMA RingStep == RingInv /\ [RingNext]_ringVars => RingInv'
<1> SUFFICES ASSUME RingInv, [RingNext]_ringVars PROVE RingInv'
  OBVIOUS
<1>1. CASE Store
  BY <1>1, StoreStep
<1>2. CASE Consume
  BY <1>2, ConsumeStep
<1>3. CASE Straighten
  BY <1>3, StraightenStep
<1>4. CASE Empty
  <2>1. <<>> \in Seq(Byte)
    OBVIOUS
  <2> QED BY <1>4, <2>1, ResetRing DEF Empty, RingInv
<1>5. CASE UNCHANGED ringVars
  BY <1>5 DEF ringVars, RingInv
<1> QED BY <1>1, <1>2, <1>3, <1>4, <1>5 DEF RingNext

\* In every reachable state the indices agree and the ring is the queue.
THEOREM Invariance == RingSpec => []RingInv
<1> QED BY InitRing, RingStep, PTL DEF RingSpec

\* A ring of any size is a first-in first-out queue of bytes, under every
\* sequence of calls of its functions (butil.c:44-163, smbgw.c:120-125, 190-201).
THEOREM Fifo == RingSpec => []HoldsFifo
<1>1. RingInv => HoldsFifo
  <2> SUFFICES ASSUME RingInv PROVE HoldsFifo
    OBVIOUS
  <2>1. /\ ring.count = Len(fifo) /\ ring.tail \in Nat /\ ring.tail < RingSize
        /\ ring.count \in Nat /\ ring.count <= RingSize /\ RingSize \in Nat
        /\ \A i \in 1 .. Len(fifo) : ring.data[Wrap(ring.tail + i - 1)] = fifo[i]
    BY Fields DEF RingInv, Holds
  <2>2. ASSUME NEW i \in 1 .. Len(fifo)
        PROVE  (ring.tail + i - 1) % RingSize = Wrap(ring.tail + i - 1)
    <3>1. ring.tail + i - 1 \in 0 .. 2 * RingSize - 1
      BY <2>1
    <3> QED BY <3>1, ModWrap
  <2> QED BY <2>1, <2>2 DEF HoldsFifo
<1> QED BY Invariance, <1>1, PTL

\* The room and the bytes that butil_ring_contiguous_write_ptr and _read_ptr
\* report are there, and they report none only when there are none.
THEOREM Room == RingSpec => []RoomExact
<1>1. RingInv => RoomExact
  BY RoomThere, BytesThere DEF RingInv, RoomExact, Jammed
<1> QED BY Invariance, <1>1, PTL

\* butil_normalize_ring makes all bytes readable in one piece, with a temp
\* buffer or without, wherever the ring wraps.
THEOREM Straight == RingSpec => Straightens
<1>1. RingInv /\ [RingNext]_ringVars
        => [Straighten => ring'.tail = 0 /\ ReadAvail(ring') = ring'.count]_ringVars
  <2> SUFFICES ASSUME RingInv, Straighten
               PROVE  ring'.tail = 0 /\ ReadAvail(ring') = ring'.count
    OBVIOUS
  <2>1. Consistent(ring') /\ ring'.tail = 0
    BY NormalizedRing, TempsAssumption DEF RingInv, Straighten, Normalized
  <2> QED BY <2>1, Fields DEF ReadAvail
<1> QED BY Invariance, <1>1, PTL DEF RingSpec, Straightens

=============================================================================
