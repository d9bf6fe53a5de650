----------------------------- MODULE RingQueue -----------------------------
(***************************************************************************)
(* The io ring buffer under any legal sequence of calls: a caller that     *)
(* stores at the write pointer, consumes at the read pointer, normalizes   *)
(* and resets as it likes, against the queue of bytes the ring stands for. *)
(* The proxy itself drains a ring before it fills it again, so that its    *)
(* rings never wrap (RingAnchored of Pump); here they do.                  *)
(***************************************************************************)
EXTENDS Ring

CONSTANT Temps   \* whether the callers of butil_normalize_ring pass a temp buffer

ASSUME TempsAssumption == Temps \subseteq BOOLEAN

VARIABLES
  ring,
  fifo    \* the bytes stored and not yet consumed, oldest first

ringVars == <<ring, fifo>>

RingInit ==
  /\ ring \in [head : {0}, tail : {0}, count : {0}, data : [Slots -> Byte]]
  /\ fifo = <<>>

Store ==
  \E n \in 1 .. WriteRoom(ring) : \E bytes \in [1 .. n -> Byte] :
    ring' = Fill(ring, bytes) /\ fifo' = fifo \o bytes

Consume ==
  \E n \in 1 .. ReadAvail(ring) :
    ring' = Drain(ring, n) /\ fifo' = SubSeq(fifo, n + 1, Len(fifo))

Straighten ==
  \E hasTemp \in Temps :
    ring' = Normalize(ring, hasTemp) /\ UNCHANGED fifo

Empty == ring' = Reset(ring) /\ fifo' = <<>>

RingNext == Store \/ Consume \/ Straighten \/ Empty

RingSpec == RingInit /\ [][RingNext]_ringVars

-----------------------------------------------------------------------------
\* A full ring normalized with a temp buffer has head = RingSize (butil.c:74)
\* until it is drained or reset: nothing can be stored in it, even after a part
\* of it is consumed.
Jammed == ring.head = RingSize

\* Whatever is stored is consumed once, in order, wherever the ring wraps and
\* however it is rotated or moved (butil.c:44-107, and smbgw.c:120-125 and
\* 190-201, which advance head and tail).
HoldsFifo ==
  /\ ring.count = Len(fifo)
  /\ \A i \in 1 .. Len(fifo) : ring.data[(ring.tail + i - 1) % RingSize] = fifo[i]

\* The two pointers never claim room or bytes that are not there, and report
\* none only when there are none: a caller that loops on them gets on.
RoomExact ==
  /\ WriteRoom(ring) <= RingSize - ring.count
  /\ ReadAvail(ring) <= ring.count
  /\ WriteRoom(ring) = 0 <=> ring.count = RingSize \/ Jammed
  /\ ReadAvail(ring) = 0 <=> ring.count = 0

\* After butil_normalize_ring all the bytes can be read in one piece, as
\* smbgw.c:164 assumes of a message.
Straightens == [][Straighten => ring'.tail = 0 /\ ReadAvail(ring') = ring'.count]_ringVars

=============================================================================
