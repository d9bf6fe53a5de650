-------------------------------- MODULE Ring --------------------------------
(***************************************************************************)
(* The io ring buffer: ioring_t of butil.h and the butil_ring_* functions  *)
(* of butil.c, as operators on a record.  A ring holds its `count' bytes   *)
(* from index `tail' on, wrapping at RingSize; `head' is the next index to *)
(* write.  The bytes outside that window are whatever was there before.    *)
(***************************************************************************)
EXTENDS Integers, Sequences

CONSTANTS
  Radix,     \* how many values a uint8_t has (256)
  RingSize   \* iobuffer_size of smbgw_proxy_init (0x20008)

\* The rotating loop of butil_normalize_ring moves four bytes at a time, and
\* the proxy reads a four byte header at any of the first four indices.
ASSUME RingAssumption == /\ Radix \in Nat \ {0}
                         /\ RingSize \in Nat
                         /\ RingSize >= 8

Byte    == 0 .. Radix - 1
Slots   == 0 .. RingSize - 1

\* butil_normalize_ring with a temp buffer may leave head = RingSize, a full
\* ring with no temp never does; the proxy passes no temp.
RingType == [head : Slots, tail : Slots, count : 0 .. RingSize,
             data : [Slots -> Byte]]

-----------------------------------------------------------------------------
\* Faulty form of Reset: count is left as it was.
Rewound(r) == [r EXCEPT !.head = 0, !.tail = 0]

\* butil_reset_ring forgets the bytes; it does not clear them.
Reset(r) == [head |-> 0, tail |-> 0, count |-> 0, data |-> r.data]

\* Faulty form of WriteRoom: a full ring is not told from an empty one.
RoomWithoutCount(r) == IF r.head < r.tail THEN r.tail - r.head ELSE RingSize - r.head

\* butil_ring_contiguous_write_ptr: bytes that fit without wrapping.
WriteRoom(r) ==
  IF r.head < r.tail THEN r.tail - r.head
  ELSE IF r.count < RingSize THEN RingSize - r.head ELSE 0

\* butil_ring_contiguous_read_ptr: bytes that can be read without wrapping.
ReadAvail(r) ==
  IF r.head > r.tail THEN r.head - r.tail
  ELSE IF r.count > 0 THEN RingSize - r.tail ELSE 0

\* recv stored `bytes' at the write pointer and the caller advanced head.
Fill(r, bytes) ==
  LET n == Len(bytes) IN
    [head  |-> IF r.head + n >= RingSize THEN 0 ELSE r.head + n,
     tail  |-> r.tail,
     count |-> r.count + n,
     data  |-> [i \in Slots |-> IF i \in r.head .. r.head + n - 1
                                THEN bytes[i - r.head + 1] ELSE r.data[i]]]

\* The caller wrote n bytes from the read pointer and advanced tail.
Advance(r, n) ==
  [r EXCEPT !.count = @ - n, !.tail = IF @ + n >= RingSize THEN 0 ELSE @ + n]

\* It resets an empty ring, to stay contiguous.
Drain(r, n) == IF r.count = n THEN Reset(r) ELSE Advance(r, n)

-----------------------------------------------------------------------------
\* One turn of either rotating loop: every byte moves k places down.
Rotate(r, k) ==
  [head  |-> IF r.head < k THEN r.head - k + RingSize ELSE r.head - k,
   tail  |-> r.tail - k,
   count |-> r.count,
   data  |-> [i \in Slots |-> r.data[(i + k) % RingSize]]]

\* The loops: by four while tail >= 4, then one by one.
ByFours(t)   == [i \in 1 .. (t \div 4) |-> 4]
Rotations(t) == ByFours(t) \o [i \in 1 .. (t % 4) |-> 1]

\* The rotating loops to their end.
Rotated(r) ==
  LET steps == Rotations(r.tail)
      after[n \in 0 .. Len(steps)] ==
        IF n = 0 THEN r ELSE Rotate(after[n - 1], steps[n])
  IN after[Len(steps)]

\* Faulty form of MovedDown: the last byte is left behind.
MovedShort(data, from, n) ==
  [i \in Slots |-> IF i < n - 1 THEN data[from + i] ELSE data[i]]

\* memmove of n bytes from index `from' to the start of the buffer.
MovedDown(data, from, n) ==
  [i \in Slots |-> IF i < n THEN data[from + i] ELSE data[i]]

\* The tail end of the buffer moved to its start, the saved first `head' bytes after it.
Swapped(r) ==
  [r EXCEPT !.data = [i \in Slots |->
     IF i < RingSize - r.tail THEN r.data[r.tail + i]
     ELSE IF i - (RingSize - r.tail) < r.head THEN r.data[i - (RingSize - r.tail)]
     ELSE r.data[i]]]

\* butil_normalize_ring: the bytes moved so that they start at index 0.
\* `hasTemp' tells whether the caller passed a temp buffer.
Normalize(r, hasTemp) ==
  IF r.tail = 0 THEN r
  ELSE IF r.count = 0 THEN [r EXCEPT !.tail = 0, !.head = 0]
  ELSE IF r.tail < r.head
    THEN [r EXCEPT !.data = MovedDown(r.data, r.tail, r.count),
                   !.tail = 0, !.head = r.count]
  ELSE IF hasTemp THEN [Swapped(r) EXCEPT !.tail = 0, !.head = r.count]
  ELSE Rotated(r)

=============================================================================
