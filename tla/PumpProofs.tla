----------------------------- MODULE PumpProofs -----------------------------
(***************************************************************************)
(* Theorems of Pump for every stream, ring size and header limit: the      *)
(* forwarded bytes are a prefix of those received, the rings hold exactly  *)
(* the rest and never wrap, the thread never reads into the next message,  *)
(* and the whole implements the pipes of module Relay.                     *)
(***************************************************************************)
EXTENDS Pump, TLAPS

\* A ring whose bytes start at index 0, as they always do in a session.
Anchored(r) == r.tail = 0 /\ r.head = (IF r.count = RingSize THEN 0 ELSE r.count)

-----------------------------------------------------------------------------
(* Rings *)

\* butil_ring_contiguous_write_ptr of an anchored ring finds all of its room.
LEMMA RoomOfAnchored ==
  ASSUME NEW r \in RingType, Anchored(r)
  PROVE  WriteRoom(r) = RingSize - r.count
BY RingAssumption DEF RingType, Slots, Anchored, WriteRoom

\* butil_ring_contiguous_read_ptr of an anchored ring finds all of its bytes.
LEMMA AvailOfAnchored ==
  ASSUME NEW r \in RingType, Anchored(r)
  PROVE  ReadAvail(r) = r.count
BY RingAssumption DEF RingType, Slots, Anchored, ReadAvail

\* butil_normalize_ring has nothing to do on an anchored ring.
LEMMA NormalizeAnchored ==
  ASSUME NEW r \in RingType, Anchored(r)
  PROVE  Normalize(r, FALSE) = r
BY DEF Anchored, Normalize

\* A read into an anchored ring leaves an anchored ring, the old bytes first.
LEMMA FillAnchored ==
  ASSUME NEW r \in RingType, Anchored(r),
         NEW bytes \in Seq(Byte), Len(bytes) > 0, Len(bytes) <= RingSize - r.count
  PROVE  /\ Fill(r, bytes) \in RingType
         /\ Anchored(Fill(r, bytes))
         /\ Fill(r, bytes).count = r.count + Len(bytes)
         /\ \A i \in 0 .. r.count - 1 : Fill(r, bytes).data[i] = r.data[i]
         /\ \A i \in 1 .. Len(bytes) : Fill(r, bytes).data[r.count + i - 1] = bytes[i]
<1> DEFINE f == Fill(r, bytes)
           n == Len(bytes)
<1>1. r.tail = 0 /\ r.head = r.count /\ r.count + n <= RingSize
  BY RingAssumption DEF Anchored, RingType
<1>2. f.count = r.count + n /\ f.tail = 0
  BY <1>1 DEF Fill
<1>3. f.head = IF r.count + n = RingSize THEN 0 ELSE r.count + n
  BY <1>1, RingAssumption DEF Fill, RingType
<1>4. f.data = [i \in Slots |-> IF i \in r.count .. r.count + n - 1
                               THEN bytes[i - r.count + 1] ELSE r.data[i]]
  BY <1>1 DEF Fill
<1>5. f.data \in [Slots -> Byte]
  <2>1. ASSUME NEW i \in Slots, i \in r.count .. r.count + n - 1
        PROVE  bytes[i - r.count + 1] \in Byte
    BY <2>1, <1>1, RingAssumption DEF RingType, Slots
  <2>2. ASSUME NEW i \in Slots PROVE r.data[i] \in Byte
    BY DEF RingType
  <2> QED BY <1>4, <2>1, <2>2
<1>6. f = [head |-> f.head, tail |-> f.tail, count |-> f.count, data |-> f.data]
  BY DEF Fill
<1>7. f \in RingType
  BY <1>1, <1>2, <1>3, <1>5, <1>6, RingAssumption DEF RingType, Slots
<1>8. \A i \in 0 .. r.count - 1 : f.data[i] = r.data[i]
  BY <1>1, <1>4, RingAssumption DEF RingType, Slots
<1>9. \A i \in 1 .. n : f.data[r.count + i - 1] = bytes[i]
  BY SMTT(60), <1>1, <1>4, RingAssumption DEF RingType, Slots
<1> QED BY <1>2, <1>3, <1>7, <1>8, <1>9 DEF Anchored

\* butil_reset_ring leaves an empty anchored ring.
LEMMA ResetAnchored ==
  ASSUME NEW r \in RingType
  PROVE  Reset(r) \in RingType /\ Anchored(Reset(r)) /\ Reset(r).count = 0
BY RingAssumption DEF Reset, RingType, Slots, Anchored

\* Draining all that is left of a ring resets it.
LEMMA DrainAll ==
  ASSUME NEW r \in RingType, Anchored(r)
  PROVE  Drain(r, ReadAvail(r)) = Reset(r)
BY AvailOfAnchored DEF Drain

-----------------------------------------------------------------------------
(* Numbers and sequences *)

LEMMA ProductNat == \A a, b \in Nat : a * b \in Nat
  OBVIOUS

\* A position counted from the end of a prefix and from its start.
LEMMA Positions ==
  ASSUME NEW l \in Nat, NEW b \in Int, NEW k \in Nat, b = l - k, NEW i \in Int
  PROVE  b + (k + i - 1) + 1 = l + i
OBVIOUS

LEMMA BothAdvance ==
  ASSUME NEW l \in Nat, NEW k \in Nat, NEW i \in Int
  PROVE  (l + i) - (k + i) = l - k
OBVIOUS

\* What remains of a ring after a part of it was sent ends where the ring ends.
LEMMA TailSent == \A o, s, c \in Int : (o - s) + c = o + (c - s)
  OBVIOUS

\* A header that lies within the buffer announces a natural number.
LEMMA HeaderNat ==
  ASSUME NEW data \in [Slots -> Byte], NEW i \in Nat, i + 3 < RingSize
  PROVE  HeaderAt(data, i) \in Nat
<1>1. Radix \in Nat
  BY RingAssumption
<1>2. /\ data[i] \in Nat /\ data[i + 1] \in Nat
      /\ data[i + 2] \in Nat /\ data[i + 3] \in Nat
  BY RingAssumption DEF Slots, Byte
<1> DEFINE a == data[i] * Radix + data[i + 1]
           b == a * Radix + data[i + 2]
<1>3. a \in Nat
  <2>1. data[i] * Radix \in Nat
    BY <1>1, <1>2, ProductNat
  <2> QED BY <2>1, <1>2
<1>4. b \in Nat
  <2> HIDE DEF a
  <2>1. a * Radix \in Nat
    BY <1>1, <1>3, ProductNat
  <2> QED BY <2>1, <1>2
<1>5. b * Radix + data[i + 3] \in Nat
  <2> HIDE DEF b
  <2>1. b * Radix \in Nat
    BY <1>1, <1>4, ProductNat
  <2> QED BY <2>1, <1>2
<1> QED BY <1>5 DEF HeaderAt

\* What recv returns: the next n bytes of a stream.
LEMMA NextBytes ==
  ASSUME NEW s \in Seq(Byte), NEW m \in Nat, NEW n \in Nat, m + n <= Len(s)
  PROVE  /\ SubSeq(s, m + 1, m + n) \in Seq(Byte)
         /\ Len(SubSeq(s, m + 1, m + n)) = n
         /\ \A i \in 1 .. n : SubSeq(s, m + 1, m + n)[i] = s[m + i]
OBVIOUS

\* What send appends to what went before it.
LEMMA Appended ==
  ASSUME NEW s \in Seq(Byte), NEW n \in Nat, NEW f \in [1 .. n -> Byte]
  PROVE  /\ s \o f \in Seq(Byte)
         /\ Len(s \o f) = Len(s) + n
         /\ \A i \in 1 .. Len(s) : (s \o f)[i] = s[i]
         /\ \A i \in 1 .. n : (s \o f)[Len(s) + i] = f[i]
OBVIOUS

-----------------------------------------------------------------------------
(* The inductive invariant.  StreamIntegrity alone is not inductive: a send  *)
(* keeps it because the ring holds the stream, the ring does because it is   *)
(* anchored and the frame has room, and a header is read from within the     *)
(* ring because a frame never starts behind another.                         *)

IInv == TypeOK /\ StreamIntegrity /\ RingHoldsStream /\ RingAnchored /\ OneFrame

\* The invariant of one ring, as the lemmas above use it.
LEMMA AnchoredInSession ==
  ASSUME IInv, InSession, NEW d \in Side
  PROVE  ring[d] \in RingType /\ Anchored(ring[d])
BY DEF IInv, TypeOK, RingAnchored, Anchored

\* A thread that reads has written out every message before.
LEMMA BaseAtRead ==
  ASSUME IInv, pc = "read", NEW d \in Side
  PROVE  Base(d) = Len(out[d]) /\ ~ AtWrite(d)
BY DEF IInv, TypeOK, Base, AtWrite

\* The initial states satisfy the invariant.
LEMMA InitInvariant == Init => IInv
<1> SUFFICES ASSUME Init PROVE IInv
  OBVIOUS
<1> USE DEF Init
<1>1. TypeOK
  <2>1. PICK fill \in [Side -> [Slots -> Stale]] :
          ring = [d \in Side |-> [head |-> 0, tail |-> 0, count |-> 0, data |-> fill[d]]]
    OBVIOUS
  <2>2. ASSUME NEW d \in Side PROVE fill[d] \in [Slots -> Byte]
    <3>1. fill[d] \in [Slots -> Stale]
      OBVIOUS
    <3> QED BY <3>1, PumpAssumption
  <2>3. ring \in [Side -> RingType]
    BY <2>1, <2>2, RingAssumption DEF RingType, Slots
  <2>4. stream \in [Side -> Seq(Byte)] /\ out \in [Side -> Seq(Byte)]
    <3>1. <<>> \in Seq(Byte)
      OBVIOUS
    <3> QED BY <3>1
  <2>5. state \in [Side -> {"psHeader", "psBody"}] /\ peer \in [Side -> PeerStates]
    BY DEF PeerStates
  <2>6. /\ remain \in [Side -> Nat] /\ put \in [Side -> Nat]
        /\ got \in [Side -> Nat] /\ taken \in [Side -> Nat]
    OBVIOUS
  <2>7. /\ pc \in Locations /\ turn \in Side /\ sent \in Nat
        /\ passthrough \in BOOLEAN /\ served \in Nat
    BY DEF Locations, Side
  <2> QED BY <2>3, <2>4, <2>5, <2>6, <2>7 DEF TypeOK
<1>2. StreamIntegrity
  BY DEF StreamIntegrity
<1>3. RingHoldsStream
  BY DEF RingHoldsStream, InSession, Running
<1>4. RingAnchored /\ OneFrame
  BY DEF RingAnchored, OneFrame, InSession, Running
<1> QED BY <1>1, <1>2, <1>3, <1>4 DEF IInv


-----------------------------------------------------------------------------
(* Steps *)

\* Steps that touch neither ring nor stream and do not enter a session: the
\* thread leaves the loop, closes its sockets, or is killed.
LEMMA LeaveStep ==
  ASSUME IInv, pc' \in {"wait", "close", "killed"}, turn' = turn, sent' = sent,
         peer' \in [Side -> PeerStates],
         UNCHANGED <<ring, state, remain, passthrough, served,
                     stream, put, got, out, taken>>
  PROVE  IInv'
<1>1. TypeOK'
  BY DEF IInv, TypeOK, Locations
<1>2. ~ InSession' /\ ~ Running' /\ pc' # "connect"
  BY DEF InSession, Running
<1>3. StreamIntegrity' /\ RingHoldsStream'
  BY <1>2 DEF IInv, StreamIntegrity, RingHoldsStream
<1>4. RingAnchored' /\ OneFrame'
  BY <1>2 DEF RingAnchored, OneFrame
<1> QED BY <1>1, <1>3, <1>4 DEF IInv

\* Steps of the peers and the network: the thread's own state stays, more of a
\* stream may arrive.
LEMMA NetworkStep ==
  ASSUME IInv, UNCHANGED <<threadVars, stream, got, out>>,
         peer' \in [Side -> PeerStates], taken' \in [Side -> Nat],
         put' \in [Side -> Nat],
         \A d \in Side : put'[d] >= put[d] /\ put'[d] <= Len(stream[d])
  PROVE  IInv'
<1> USE DEF threadVars
<1>1. TypeOK'
  BY DEF IInv, TypeOK
<1>2. StreamIntegrity'
  BY DEF IInv, StreamIntegrity
<1>3. RingHoldsStream'
  <2>1. \A d \in Side : got'[d] <= put'[d] /\ put'[d] <= Len(stream'[d])
    BY DEF IInv, TypeOK, RingHoldsStream
  <2>2. InSession' = InSession /\ \A d \in Side : Base(d)' = Base(d)
    BY DEF InSession, Running, Base, AtWrite
  <2> QED BY SMTT(60), <2>1, <2>2 DEF IInv, RingHoldsStream
<1>4. RingAnchored' /\ OneFrame'
  BY DEF IInv, RingAnchored, OneFrame, InSession, Running, AtWrite
<1> QED BY <1>1, <1>2, <1>3, <1>4 DEF IInv

\* A read of n >= 0 bytes in direction d that leaves the ring r, and what the
\* frame state makes of it.
LEMMA ReadStep ==
  ASSUME IInv, NEW d \in Side, AtRead(d), NEW n \in Nat,
         NEW r \in RingType, Anchored(r),
         r.count = ring[d].count + n, r.count <= remain[d],
         got[d] + n <= put[d],
         \A i \in 0 .. r.count - 1 : r.data[i] = stream[d][Base(d) + i + 1],
         Framed(d, r),
         got' = [got EXCEPT ![d] = @ + n],
         UNCHANGED <<passthrough, served, peer, stream, put, out, taken>>
  PROVE  IInv'
<1>1. /\ pc = "read" /\ turn = d
      /\ \A e \in Side : Base(e) = Len(out[e]) /\ ~ AtWrite(e)
  BY BaseAtRead DEF AtRead
<1>2. InSession /\ Running
  BY <1>1 DEF InSession, Running
<1>3. Normalize(r, FALSE) = r
  BY NormalizeAnchored
<1>4. ring' = [ring EXCEPT ![d] = r]
  BY <1>3 DEF Framed, Incomplete, HeaderIn, HeaderInvalid, BodyIn, BodyRejected
<1>5. /\ pc' \in {"read", "write", "close"} /\ turn' \in Side /\ sent' \in Nat
      /\ pc' = "write" => sent' = 0 /\ turn' = d
  <2>1. sent \in Nat /\ Other(d) \in Side
    BY DEF IInv, TypeOK, Other, Side
  <2>2. CASE Incomplete(d, r) \/ HeaderIn(d, r)
    BY <2>1, <2>2 DEF Incomplete, HeaderIn, NextTurn
  <2>3. CASE HeaderInvalid(d, r) \/ BodyRejected(d, r)
    BY <1>1, <2>1, <2>3 DEF HeaderInvalid, BodyRejected, LeaveLoop
  <2>4. CASE BodyIn(d, r)
    BY <1>1, <2>4 DEF BodyIn
  <2> QED BY <2>2, <2>3, <2>4 DEF Framed
<1>6. /\ Announced(d, r) \in Nat \/ state[d] = "psBody"
      /\ state[d] \in {"psHeader", "psBody"} /\ remain[d] \in Nat
  <2>1. CASE state[d] = "psHeader"
    <3>1. ring[d].count < 4
      BY <1>1, <1>2, <2>1 DEF IInv, OneFrame
    <3>2. ring[d].head \in Nat /\ ring[d].head + 3 < RingSize
      BY <3>1, <1>2, AnchoredInSession, RingAssumption DEF Anchored, RingType, Slots
    <3>3. r.data \in [Slots -> Byte]
      BY DEF RingType
    <3> QED BY <3>2, <3>3, HeaderNat DEF Announced, IInv, TypeOK
  <2> QED BY <2>1 DEF IInv, TypeOK
<1>7. /\ state' \in [Side -> {"psHeader", "psBody"}] /\ remain' \in [Side -> Nat]
      /\ \A e \in Side \ {d} : state'[e] = state[e] /\ remain'[e] = remain[e]
  <2>1. state \in [Side -> {"psHeader", "psBody"}] /\ remain \in [Side -> Nat]
    BY DEF IInv, TypeOK
  <2>2. CASE Incomplete(d, r) \/ HeaderInvalid(d, r) \/ BodyRejected(d, r)
    BY <2>1, <2>2 DEF Incomplete, HeaderInvalid, BodyRejected
  <2>3. CASE HeaderIn(d, r)
    <3>1. /\ Announced(d, r) + 4 \in Nat
          /\ state' = [state EXCEPT ![d] = "psBody"]
          /\ remain' = [remain EXCEPT ![d] = Announced(d, r) + 4]
      BY <1>6, <2>3 DEF HeaderIn, FrameLength
    <3> QED BY <2>1, <3>1
  <2>4. CASE BodyIn(d, r)
    BY <2>1, <2>4 DEF BodyIn
  <2> QED BY <2>2, <2>3, <2>4 DEF Framed
<1>8. TypeOK'
  <2>1. ring' \in [Side -> RingType] /\ got' \in [Side -> Nat]
    BY SMTT(60), <1>4 DEF IInv, TypeOK
  <2> QED BY <1>5, <1>7, <2>1 DEF IInv, TypeOK, Locations
<1>9. StreamIntegrity'
  BY DEF IInv, StreamIntegrity
<1>10. \A e \in Side : Base(e)' = Base(e)
  BY <1>1, <1>5 DEF Base, AtWrite, IInv, TypeOK
<1>11. RingHoldsStream'
  <2>1. \A e \in Side : got'[e] <= put'[e] /\ put'[e] <= Len(stream'[e])
    BY DEF IInv, TypeOK, RingHoldsStream
  <2>2. ASSUME NEW e \in Side
        PROVE  /\ got'[e] = Base(e) + ring'[e].count
               /\ \A i \in 0 .. ring'[e].count - 1 :
                    ring'[e].data[i] = stream[e][Base(e) + i + 1]
    <3>1. CASE e = d
      <4>1. ring'[e] = r /\ got'[e] = got[d] + n
        BY <3>1, <1>4 DEF IInv, TypeOK
      <4>2. got[d] = Base(d) + ring[d].count
        BY <1>2 DEF IInv, RingHoldsStream
      <4>3. Base(d) \in Nat /\ ring[d].count \in Nat
        BY <1>1 DEF IInv, TypeOK, RingType
      <4> QED BY <3>1, <4>1, <4>2, <4>3
    <3>2. CASE e # d
      <4>1. ring'[e] = ring[e] /\ got'[e] = got[e]
        BY <3>2, <1>4 DEF IInv, TypeOK
      <4> QED BY <4>1, <1>2 DEF IInv, RingHoldsStream
    <3> QED BY <3>1, <3>2
  <2> QED BY <2>1, <2>2, <1>10 DEF RingHoldsStream
<1>12. RingAnchored'
  BY <1>2, <1>4 DEF IInv, TypeOK, RingAnchored, Anchored
<1>13. OneFrame'
  <2>1. \A e \in Side \ {d} :
          /\ ~ AtWrite(e)' /\ ring'[e] = ring[e]
          /\ state'[e] = state[e] /\ remain'[e] = remain[e]
    BY <1>4, <1>5, <1>7 DEF AtWrite, IInv, TypeOK
  <2>2. ASSUME NEW e \in Side \ {d}
        PROVE  /\ ring'[e].count <= remain'[e]
               /\ state'[e] = "psHeader" => remain'[e] = 4 /\ ring'[e].count < 4
               /\ state'[e] = "psBody" => remain'[e] >= 4 /\ ring'[e].count >= 4
    BY <1>1, <1>2, <2>1 DEF IInv, OneFrame
  <2>3. /\ ring'[d] = r /\ r.count \in Nat
        /\ state[d] = "psHeader" => remain[d] = 4
        /\ state[d] = "psBody" => remain[d] >= 4 /\ ring[d].count >= 4
        /\ ring[d].count \in Nat
    BY <1>1, <1>2, <1>4 DEF IInv, TypeOK, OneFrame, RingType
  <2>4. ~ AtWrite(d)' /\ Running' =>
           /\ r.count <= remain'[d]
           /\ state'[d] = "psHeader" => remain'[d] = 4 /\ r.count < 4
           /\ state'[d] = "psBody" => remain'[d] >= 4 /\ r.count >= 4
    <3>1. CASE Incomplete(d, r)
      BY <3>1, <2>3, <1>6 DEF Incomplete
    <3>2. CASE HeaderIn(d, r)
      <4>1. /\ state \in [Side -> {"psHeader", "psBody"}]
            /\ remain \in [Side -> Nat]
        BY DEF IInv, TypeOK
      <4>2. /\ state[d] = "psHeader" /\ r.count = remain[d]
            /\ state' = [state EXCEPT ![d] = "psBody"]
            /\ remain' = [remain EXCEPT ![d] = Announced(d, r) + 4]
        BY <3>2 DEF HeaderIn, FrameLength
      <4>3. Announced(d, r) \in Nat
        BY <1>6, <4>2
      <4>4. r.count = 4 /\ state'[d] = "psBody" /\ remain'[d] = Announced(d, r) + 4
        BY <2>3, <4>1, <4>2
      <4> QED BY <4>3, <4>4
    <3>3. CASE HeaderInvalid(d, r) \/ BodyRejected(d, r)
      BY <3>3 DEF HeaderInvalid, BodyRejected, LeaveLoop, Running
    <3>4. CASE BodyIn(d, r)
      BY <3>4, <1>1 DEF BodyIn, AtWrite
    <3> QED BY <3>1, <3>2, <3>3, <3>4 DEF Framed
  <2>5. AtWrite(d)' => /\ state'[d] = "psHeader" /\ remain'[d] = 4
                       /\ sent' < r.count
    <3>1. CASE BodyIn(d, r)
      BY SMTT(60), <3>1, <2>3 DEF BodyIn, IInv, TypeOK
    <3>2. CASE ~ BodyIn(d, r)
      BY <3>2 DEF Framed, Incomplete, HeaderIn, HeaderInvalid, BodyRejected,
                  NextTurn, LeaveLoop, AtWrite
    <3> QED BY <3>1, <3>2
  <2>6. pc' # "connect"
    BY <1>5
  <2> QED BY <2>1, <2>2, <2>3, <2>4, <2>5, <2>6 DEF OneFrame
<1> QED BY <1>8, <1>9, <1>11, <1>12, <1>13 DEF IInv

\* A send: some bytes of the ring go out, the last ones empty it.
LEMMA SendStep ==
  ASSUME IInv, NEW d \in Side, SendSome(d)
  PROVE  IInv'
<1> DEFINE r    == ring[d]
           want == ReadAvail(r) - sent
           n    == Lesser(want, SendRoom(d))
           f    == [i \in 1 .. n |-> r.data[r.tail + sent + i - 1]]
           all  == n = want
<1>1. /\ pc = "write" /\ turn = d /\ AtWrite(d)
      /\ InSession /\ Running
      /\ \A e \in Side \ {d} : ~ AtWrite(e)
  BY DEF SendSome, AtWrite, InSession, Running
<1>2. /\ r \in RingType /\ Anchored(r) /\ ReadAvail(r) = r.count
      /\ r.tail = 0 /\ r.count \in 0 .. RingSize /\ r.data \in [Slots -> Byte]
  BY <1>1, AnchoredInSession, AvailOfAnchored DEF Anchored, RingType
<1>3. sent \in Nat /\ sent < r.count
  BY <1>1 DEF IInv, TypeOK, OneFrame
<1>4. n \in Nat /\ n > 0 /\ sent + n <= r.count
  <2>1. SendRoom(d) \in Int /\ SendRoom(d) > 0
    BY SMTT(60), PumpAssumption DEF SendSome, Writable, SendRoom, IInv, TypeOK
  <2> QED BY <1>2, <1>3, <2>1 DEF Lesser
<1>5. /\ out' = [out EXCEPT ![d] = @ \o f]
      /\ \/ /\ ~ all
            /\ sent' = sent + n /\ UNCHANGED <<pc, turn, ring>>
         \/ /\ all
            /\ ring' = [ring EXCEPT ![d] = Drain(r, ReadAvail(r))]
            /\ NextTurn(d)
      /\ UNCHANGED <<state, remain, passthrough, served, peer, stream, put, got, taken>>
  BY <1>2, <1>3, <1>4 DEF SendSome
<1>6. f \in [1 .. n -> Byte] /\ \A i \in 1 .. n : f[i] = r.data[sent + i - 1]
  <2>1. ASSUME NEW i \in 1 .. n
        PROVE  r.tail + sent + i - 1 \in Slots /\ r.tail + sent + i - 1 = sent + i - 1
    BY SMTT(60), <1>2, <1>3, <1>4, RingAssumption DEF Slots
  <2> QED BY <1>2, <2>1
<1>7. out[d] \in Seq(Byte) /\ out'[d] = out[d] \o f
  BY <1>5 DEF IInv, TypeOK
<1>8. /\ out'[d] \in Seq(Byte)
      /\ Len(out'[d]) = Len(out[d]) + n
      /\ \A i \in 1 .. Len(out[d]) : out'[d][i] = out[d][i]
      /\ \A i \in 1 .. n : out'[d][Len(out[d]) + i] = f[i]
  <2> HIDE DEF f, n
  <2> QED BY <1>4, <1>6, <1>7, Appended
<1>9. \A e \in Side \ {d} : out'[e] = out[e]
  BY <1>5 DEF IInv, TypeOK
<1> HIDE DEF f, n, want
<1>10. /\ Base(d) = Len(out[d]) - sent /\ Base(d) \in Int
       /\ got[d] = Base(d) + r.count /\ got[d] <= Len(stream[d])
       /\ \A i \in 0 .. r.count - 1 : r.data[i] = stream[d][Base(d) + i + 1]
       /\ got[d] \in Nat /\ Len(out[d]) \in Nat /\ Len(stream[d]) \in Nat
  <2>1. got[d] \in Nat /\ put[d] \in Nat /\ out[d] \in Seq(Byte) /\ stream[d] \in Seq(Byte)
    BY DEF IInv, TypeOK
  <2>2. Len(out[d]) \in Nat /\ Len(stream[d]) \in Nat
    BY <2>1
  <2>3. got[d] <= put[d] /\ put[d] <= Len(stream[d])
    BY DEF IInv, RingHoldsStream
  <2>4. /\ got[d] = Base(d) + r.count
        /\ \A i \in 0 .. r.count - 1 : r.data[i] = stream[d][Base(d) + i + 1]
    BY <1>1 DEF IInv, RingHoldsStream
  <2>5. Base(d) = Len(out[d]) - sent /\ Base(d) \in Int
    BY <1>1, <1>3, <2>2 DEF Base
  <2> QED BY SMTT(60), <2>1, <2>2, <2>3, <2>4, <2>5
<1>11. StreamIntegrity'
  <2>1. ASSUME NEW i \in 1 .. n
        PROVE  f[i] = stream[d][Len(out[d]) + i]
    <3>1. sent + i - 1 \in 0 .. r.count - 1
      BY <1>2, <1>3, <1>4
    <3>2. Base(d) + (sent + i - 1) + 1 = Len(out[d]) + i
      <4>1. i \in Int
        BY <1>4
      <4>2. /\ Len(out[d]) \in Nat /\ sent \in Nat /\ Base(d) \in Int
            /\ Base(d) = Len(out[d]) - sent
        BY <1>3, <1>10
      <4> QED BY <4>1, <4>2, Positions
    <3> QED BY <1>6, <1>10, <3>1, <3>2
  <2>2. Len(out'[d]) <= Len(stream[d])
    BY SMTT(60), <1>2, <1>3, <1>4, <1>8, <1>10
  <2>3. ASSUME NEW i \in 1 .. Len(out'[d])
        PROVE  out'[d][i] = stream[d][i]
    <3>1. CASE i \in 1 .. Len(out[d])
      BY <3>1, <1>8 DEF IInv, StreamIntegrity
    <3>2. CASE i \notin 1 .. Len(out[d])
      <4>1. i - Len(out[d]) \in 1 .. n /\ Len(out[d]) + (i - Len(out[d])) = i
        BY SMTT(60), <3>2, <1>4, <1>8, <1>10
      <4> QED BY <4>1, <1>8, <2>1
    <3> QED BY <3>1, <3>2
  <2> QED BY <1>5, <1>9, <2>2, <2>3 DEF IInv, StreamIntegrity
<1>12. TypeOK'
  <2>1. out' \in [Side -> Seq(Byte)]
    BY <1>5, <1>8 DEF IInv, TypeOK
  <2>2. ring' \in [Side -> RingType]
    <3>1. Drain(r, ReadAvail(r)) \in RingType
      BY <1>2, DrainAll, ResetAnchored
    <3> QED BY <1>5, <3>1 DEF IInv, TypeOK
  <2>3. pc' \in Locations /\ turn' \in Side /\ sent' \in Nat
    BY <1>1, <1>3, <1>4, <1>5 DEF NextTurn, Other, Locations, Side
  <2> QED BY <1>5, <2>1, <2>2, <2>3 DEF IInv, TypeOK
<1>13. CASE ~ all
  <2>1. /\ sent' = sent + n /\ pc' = pc /\ turn' = turn /\ ring' = ring
        /\ state' = state /\ remain' = remain /\ stream' = stream
        /\ put' = put /\ got' = got
    BY <1>5, <1>13
  <2>2. sent' < r.count
    BY <1>2, <1>3, <1>4, <1>13, <2>1 DEF want
  <2>3. \A e \in Side : Base(e)' = Base(e)
    <3>1. Len(out[d]) \in Int /\ n \in Int /\ sent \in Int /\ AtWrite(d)'
      BY <1>1, <1>3, <1>4, <1>10, <2>1 DEF AtWrite
    <3>2. Base(d)' = Base(d)
      <4>1. Base(d)' = Len(out'[d]) - sent'
        BY <3>1 DEF Base
      <4>2. (Len(out[d]) + n) - (sent + n) = Len(out[d]) - sent
        BY SMTT(60), <1>3, <1>4, <1>10, BothAdvance
      <4>3. Base(d)' = (Len(out[d]) + n) - (sent + n)
        BY <1>8, <2>1, <4>1
      <4> QED BY <1>10, <4>2, <4>3
    <3>3. ASSUME NEW e \in Side \ {d} PROVE Base(e)' = Base(e)
      BY <1>1, <1>9, <2>1 DEF Base, AtWrite, IInv, TypeOK
    <3> QED BY <3>2, <3>3
  <2>4. RingHoldsStream'
    BY <2>1, <2>3 DEF IInv, RingHoldsStream, InSession, Running
  <2>5. RingAnchored'
    BY <2>1 DEF IInv, RingAnchored, InSession, Running
  <2>6. OneFrame'
    BY <1>1, <2>1, <2>2 DEF IInv, OneFrame, Running, AtWrite
  <2> QED BY <1>11, <1>12, <2>4, <2>5, <2>6 DEF IInv
<1>14. CASE all
  <2>1. /\ pc' = "read" /\ ring' = [ring EXCEPT ![d] = Reset(r)]
        /\ state' = state /\ remain' = remain /\ stream' = stream
        /\ put' = put /\ got' = got
    BY <1>2, <1>5, <1>14, DrainAll DEF NextTurn
  <2>2. Anchored(Reset(r)) /\ Reset(r).count = 0
    BY <1>2, ResetAnchored
  <2>3. ring'[d] = Reset(r) /\ \A e \in Side \ {d} : ring'[e] = ring[e]
    BY <2>1 DEF IInv, TypeOK
  <2>4. ~ AtWrite(d)' /\ \A e \in Side : ~ AtWrite(e)' /\ Base(e)' = Len(out'[e])
    BY <1>8, <1>9, <2>1 DEF AtWrite, Base, IInv, TypeOK
  <2>5. RingHoldsStream'
    <3>1. \A e \in Side : got'[e] <= put'[e] /\ put'[e] <= Len(stream'[e])
      BY <2>1 DEF IInv, RingHoldsStream
    <3>2. Base(d)' = got[d]
      <4>1. n = r.count - sent
        BY <1>2, <1>14 DEF want
      <4>2. Base(d)' = Len(out[d]) + (r.count - sent)
        BY <1>8, <2>4, <4>1
      <4>3. (Len(out[d]) - sent) + r.count = Len(out[d]) + (r.count - sent)
        BY <1>2, <1>3, <1>10, TailSent
      <4> QED BY <1>10, <4>2, <4>3
    <3>3. \A e \in Side \ {d} : Base(e)' = Base(e)
      BY <1>1, <1>9, <2>4 DEF Base, IInv, TypeOK
    <3>4. /\ got'[d] = Base(d)' + ring'[d].count
          /\ \A i \in 0 .. ring'[d].count - 1 :
               ring'[d].data[i] = stream'[d][Base(d)' + i + 1]
      BY <1>10, <2>1, <2>2, <2>3, <3>2
    <3>5. ASSUME NEW e \in Side \ {d}
          PROVE  /\ got'[e] = Base(e)' + ring'[e].count
                 /\ \A i \in 0 .. ring'[e].count - 1 :
                      ring'[e].data[i] = stream'[e][Base(e)' + i + 1]
      BY <1>1, <2>1, <2>3, <3>3 DEF IInv, RingHoldsStream
    <3> QED BY <3>1, <3>4, <3>5 DEF RingHoldsStream
  <2>6. RingAnchored'
    BY <1>1, <2>2, <2>3 DEF IInv, RingAnchored, Anchored
  <2>7. OneFrame'
    <3>1. /\ state[d] = "psHeader" /\ remain[d] = 4
          /\ \A e \in Side \ {d} :
               /\ ring[e].count <= remain[e]
               /\ state[e] = "psHeader" => remain[e] = 4 /\ ring[e].count < 4
               /\ state[e] = "psBody" => remain[e] >= 4 /\ ring[e].count >= 4
      BY <1>1 DEF IInv, OneFrame
    <3> QED BY <2>1, <2>2, <2>3, <2>4, <3>1 DEF OneFrame
  <2> QED BY <1>11, <1>12, <2>5, <2>6, <2>7 DEF IInv
<1> QED BY <1>13, <1>14

\* A new client finds the rings reset, and its connection has moved nothing.
LEMMA NewClientStep == IInv /\ NewClient => IInv'
<1> SUFFICES ASSUME IInv, NewClient PROVE IInv'
  OBVIOUS
<1>1. \A d \in Side : /\ ring'[d] = Reset(ring[d])
                      /\ put'[d] = 0 /\ got'[d] = 0 /\ out'[d] = <<>>
  BY DEF NewClient, RingsReset
<1>2. \A d \in Side : /\ ring'[d] \in RingType /\ Anchored(ring'[d])
                      /\ ring'[d].count = 0
  BY <1>1, ResetAnchored DEF IInv, TypeOK
<1>3. pc' = "connect" /\ ~ Running' /\ \A d \in Side : Base(d)' = 0
  BY <1>1 DEF NewClient, Running, Base, AtWrite
<1>4. stream' \in [Side -> Seq(Byte)] /\ \A d \in Side : Len(stream'[d]) \in Nat
  BY PumpAssumption DEF NewClient
<1>5. TypeOK'
  <2>1. ring' \in [Side -> RingType]
    BY <1>2 DEF NewClient, RingsReset
  <2>2. out' \in [Side -> Seq(Byte)]
    <3>1. <<>> \in Seq(Byte)
      OBVIOUS
    <3> QED BY <3>1 DEF NewClient
  <2>3. /\ put' \in [Side -> Nat] /\ got' \in [Side -> Nat] /\ taken' \in [Side -> Nat]
        /\ served' \in Nat
    BY DEF NewClient, IInv, TypeOK
  <2>4. passthrough' \in BOOLEAN
    BY PumpAssumption DEF NewClient
  <2>5. peer' \in [Side -> PeerStates]
    BY DEF NewClient, IInv, TypeOK, PeerStates
  <2>6. UNCHANGED <<turn, sent, state, remain>> /\ pc' \in Locations
    BY DEF NewClient, Locations
  <2> QED BY <1>4, <2>1, <2>2, <2>3, <2>4, <2>5, <2>6 DEF IInv, TypeOK
<1>6. StreamIntegrity'
  <2>1. \A d \in Side : Len(out'[d]) = 0
    BY <1>1
  <2> QED BY <1>4, <2>1 DEF StreamIntegrity
<1>7. RingHoldsStream'
  BY <1>1, <1>2, <1>3, <1>4 DEF RingHoldsStream
<1>8. RingAnchored' /\ OneFrame'
  BY <1>2, <1>3 DEF RingAnchored, Anchored, OneFrame
<1> QED BY <1>5, <1>6, <1>7, <1>8 DEF IInv

\* The frame states start over when the connection to the server is begun.
LEMMA ConnectStep == IInv /\ ConnectStarts => IInv'
<1> SUFFICES ASSUME IInv, ConnectStarts PROVE IInv'
  OBVIOUS
<1>1. /\ pc = "connect" /\ pc' = "read" /\ InSession /\ InSession'
      /\ UNCHANGED <<ring, passthrough, served, stream, put, got, out, taken>>
  BY DEF ConnectStarts, InSession, Running
<1>2. \A d \in Side : ~ AtWrite(d) /\ ~ AtWrite(d)' /\ Base(d)' = Base(d)
  BY <1>1 DEF AtWrite, Base
<1>3. TypeOK'
  <2>1. peer' \in [Side -> PeerStates]
    BY DEF ConnectStarts, IInv, TypeOK, PeerStates
  <2>2. /\ state' \in [Side -> {"psHeader", "psBody"}] /\ remain' \in [Side -> Nat]
        /\ pc' \in Locations /\ turn' \in Side /\ sent' \in Nat
    BY DEF ConnectStarts, Locations, Side
  <2> QED BY <1>1, <2>1, <2>2 DEF IInv, TypeOK
<1>4. StreamIntegrity'
  BY <1>1 DEF IInv, StreamIntegrity
<1>5. RingHoldsStream' /\ RingAnchored'
  BY <1>1, <1>2 DEF IInv, RingHoldsStream, RingAnchored
<1>6. OneFrame'
  BY <1>1, <1>2 DEF ConnectStarts, IInv, OneFrame
<1> QED BY <1>3, <1>4, <1>5, <1>6 DEF IInv

\* tcp_read with nothing to read leaves the ring as it is.
LEMMA ReadNothingStep ==
  ASSUME IInv, NEW d \in Side, ReadNothing(d)
  PROVE  IInv'
<1>1. AtRead(d) /\ pc = "read" /\ InSession /\ Running /\ ~ AtWrite(d)
  BY DEF ReadNothing, AtRead, InSession, Running, AtWrite
<1>2. ring[d] \in RingType /\ Anchored(ring[d])
  BY <1>1, AnchoredInSession
<1>3. ring[d].count \in Nat /\ got[d] \in Nat
  BY <1>2 DEF IInv, TypeOK, RingType
<1>4. /\ ring[d].count <= remain[d] /\ got[d] <= put[d]
      /\ \A i \in 0 .. ring[d].count - 1 : ring[d].data[i] = stream[d][Base(d) + i + 1]
  BY <1>1 DEF IInv, OneFrame, RingHoldsStream
<1>5. got' = [got EXCEPT ![d] = @ + 0]
  BY <1>3 DEF ReadNothing, netVars, IInv, TypeOK
<1>6. /\ Framed(d, ring[d])
      /\ UNCHANGED <<passthrough, served, peer, stream, put, out, taken>>
  BY DEF ReadNothing, netVars
<1>7. ring[d].count = ring[d].count + 0 /\ got[d] + 0 <= put[d]
  BY <1>3, <1>4
<1> QED BY <1>1, <1>2, <1>4, <1>5, <1>6, <1>7, ReadStep

\* tcp_read stores the next bytes of the stream behind those in the ring.
LEMMA ReadSomeStep ==
  ASSUME IInv, NEW d \in Side, ReadSome(d)
  PROVE  IInv'
<1> DEFINE n     == Lesser(Chunk(d), put[d] - got[d])
           bytes == SubSeq(stream[d], got[d] + 1, got[d] + n)
           r     == Fill(ring[d], bytes)
<1>1. AtRead(d) /\ pc = "read" /\ InSession /\ Running /\ ~ AtWrite(d)
  BY DEF ReadSome, AtRead, InSession, Running, AtWrite
<1>2. ring[d] \in RingType /\ Anchored(ring[d])
  BY <1>1, AnchoredInSession
<1>3. /\ ring[d].count \in Nat /\ got[d] \in Nat /\ put[d] \in Nat /\ remain[d] \in Nat
      /\ stream[d] \in Seq(Byte)
  BY <1>2 DEF IInv, TypeOK, RingType
<1>4. /\ put[d] <= Len(stream[d]) /\ got[d] = Base(d) + ring[d].count
      /\ \A i \in 0 .. ring[d].count - 1 : ring[d].data[i] = stream[d][Base(d) + i + 1]
  BY <1>1 DEF IInv, RingHoldsStream
<1>5. /\ n \in Nat /\ n > 0 /\ got[d] + n <= put[d]
      /\ ring[d].count + n <= remain[d]
      /\ n <= RingSize - ring[d].count
  <2>1. Chunk(d) \in Int /\ Chunk(d) > 0 /\ Chunk(d) = remain[d] - ring[d].count
    BY <1>3 DEF ReadSome, Chunk
  <2>2. put[d] - got[d] \in Int /\ put[d] - got[d] > 0
    BY <1>3 DEF ReadSome, Readable
  <2>3. n \in Nat /\ n > 0 /\ n <= Chunk(d) /\ n <= put[d] - got[d]
    BY <2>1, <2>2 DEF Lesser
  <2>4. Chunk(d) <= RingSize - ring[d].count
    BY <1>2, <2>1, RoomOfAnchored, RingAssumption DEF ReadSome, Fits, Room, RingType
  <2> HIDE DEF n
  <2> QED BY SMTT(60), <1>2, <1>3, <2>1, <2>2, <2>3, <2>4, RingAssumption DEF RingType
<1>6. /\ Framed(d, r)
      /\ got' = [got EXCEPT ![d] = @ + n]
      /\ UNCHANGED <<passthrough, served, peer, stream, put, out, taken>>
  BY DEF ReadSome
<1> HIDE DEF n
<1>7. /\ bytes \in Seq(Byte) /\ Len(bytes) = n
      /\ \A i \in 1 .. n : bytes[i] = stream[d][got[d] + i]
  <2>1. Len(stream[d]) \in Nat /\ got[d] + n <= Len(stream[d])
    BY <1>3, <1>4, <1>5
  <2> QED BY ZenonT(60), <1>3, <1>5, <2>1, NextBytes
<1> HIDE DEF bytes
<1>8. /\ r \in RingType /\ Anchored(r) /\ r.count = ring[d].count + n
      /\ \A i \in 0 .. ring[d].count - 1 : r.data[i] = ring[d].data[i]
      /\ \A i \in 1 .. n : r.data[ring[d].count + i - 1] = bytes[i]
  BY <1>2, <1>5, <1>7, FillAnchored
<1> HIDE DEF r
<1>9. ASSUME NEW i \in 0 .. r.count - 1
      PROVE  r.data[i] = stream[d][Base(d) + i + 1]
  <2>1. CASE i < ring[d].count
    BY <2>1, <1>3, <1>4, <1>8
  <2>2. CASE i >= ring[d].count
    <3> DEFINE j == i - ring[d].count + 1
    <3>1. j \in 1 .. n /\ ring[d].count + j - 1 = i
      <4>1. i \in Int /\ i < ring[d].count + n
        BY <1>3, <1>5, <1>8
      <4> QED BY SMTT(60), <4>1, <2>2, <1>3, <1>5
    <3>2. Base(d) \in Int
      BY SMTT(60), <1>1, BaseAtRead DEF IInv, TypeOK
    <3>3. got[d] + j = Base(d) + i + 1
      BY <1>3, <1>4, <3>2
    <3> HIDE DEF j
    <3>4. r.data[i] = bytes[j] /\ bytes[j] = stream[d][got[d] + j]
      BY <1>7, <1>8, <3>1
    <3> QED BY <3>3, <3>4
  <2> QED BY <2>1, <2>2, <1>3
<1>10. r.count <= remain[d]
  BY <1>5, <1>8
<1> QED BY <1>1, <1>5, <1>6, <1>8, <1>9, <1>10, ReadStep

\* The peers and the network.
LEMMA NetworkKeepsInvariant == IInv /\ Network => IInv'
<1> SUFFICES ASSUME IInv, Network PROVE IInv'
  OBVIOUS
<1>1. /\ peer \in [Side -> PeerStates] /\ put \in [Side -> Nat] /\ taken \in [Side -> Nat]
      /\ got \in [Side -> Nat] /\ out \in [Side -> Seq(Byte)]
      /\ \A d \in Side : put[d] <= Len(stream[d])
  BY DEF IInv, TypeOK, RingHoldsStream
<1>2. CASE ServerAnswers
  <2>1. /\ peer' \in [Side -> PeerStates]
        /\ UNCHANGED <<threadVars, stream, put, got, out, taken>>
    BY <1>1, <1>2 DEF ServerAnswers, PeerStates
  <2>2. \A d \in Side : put'[d] >= put[d] /\ put'[d] <= Len(stream[d])
    BY <1>1, <2>1
  <2> QED BY <1>1, <2>1, <2>2, NetworkStep
<1>3. ASSUME NEW d \in Side, PeerSends(d) PROVE IInv'
  <2>1. Segment(d) \in {1, 4}
    BY DEF Segment
  <2>2. /\ put' \in [Side -> Nat]
        /\ \A e \in Side : put'[e] >= put[e] /\ put'[e] <= Len(stream[e])
    BY SMTT(60), <1>1, <1>3, <2>1 DEF PeerSends
  <2> QED BY <1>1, <1>3, <2>2, NetworkStep DEF PeerSends, threadVars
<1>4. ASSUME NEW d \in Side, PeerReads(d) PROVE IInv'
  <2>1. taken' \in [Side -> Nat]
    BY <1>1, <1>4 DEF PeerReads
  <2> QED BY <1>1, <1>4, <2>1, NetworkStep DEF PeerReads, threadVars
<1>5. ASSUME NEW d \in Side, PeerHangsUp(d) PROVE IInv'
  BY <1>1, <1>5, NetworkStep DEF PeerHangsUp, threadVars, PeerStates
<1>6. ASSUME NEW d \in Side, PeerResets(d) PROVE IInv'
  BY <1>1, <1>6, NetworkStep DEF PeerResets, threadVars, PeerStates
<1> QED BY <1>2, <1>3, <1>4, <1>5, <1>6 DEF Network

\* The steps of the thread.
LEMMA ThreadKeepsInvariant == IInv /\ Thread => IInv'
<1> SUFFICES ASSUME IInv, Thread PROVE IInv'
  OBVIOUS
<1>1. peer \in [Side -> PeerStates] /\ [d \in Side |-> "none"] \in [Side -> PeerStates]
  BY DEF IInv, TypeOK, PeerStates
<1>2. CASE ConnectFails \/ Close
  BY <1>1, <1>2, LeaveStep DEF ConnectFails, Close
<1>3. CASE ConnectStarts
  BY <1>3, ConnectStep
<1>4. ASSUME NEW d \in Side,
             NoRoom(d) \/ ReadFails(d) \/ SendTimesOut(d) \/ SendFails(d)
      PROVE  IInv'
  BY <1>1, <1>4, LeaveStep
     DEF NoRoom, ReadFails, SendTimesOut, SendFails, LeaveLoop, netVars
<1>5. ASSUME NEW d \in Side, SendKills(d) PROVE IInv'
  BY <1>1, <1>5, LeaveStep DEF SendKills
<1>6. ASSUME NEW d \in Side, ReadNothing(d) \/ ReadSome(d) PROVE IInv'
  BY <1>6, ReadNothingStep, ReadSomeStep
<1>7. ASSUME NEW d \in Side, SendSome(d) PROVE IInv'
  BY <1>7, SendStep
<1> QED BY <1>2, <1>3, <1>4, <1>5, <1>6, <1>7 DEF Thread

-----------------------------------------------------------------------------
(* Theorems *)

\* Every step of the thread, the peers and the network keeps the invariant.
THEOREM Invariance == Spec => []IInv
<1>1. IInv /\ [Next]_vars => IInv'
  <2> SUFFICES ASSUME IInv, [Next]_vars PROVE IInv'
    OBVIOUS
  <2>1. CASE NewClient
    BY <2>1, NewClientStep
  <2>2. CASE Thread
    BY <2>2, ThreadKeepsInvariant
  <2>3. CASE Network
    BY <2>3, NetworkKeepsInvariant
  <2>4. CASE UNCHANGED vars
    BY <2>4 DEF vars, threadVars, netVars, IInv, TypeOK, StreamIntegrity,
                RingHoldsStream, RingAnchored, OneFrame, InSession, Running,
                Base, AtWrite
  <2> QED BY <2>1, <2>2, <2>3, <2>4 DEF Next, Finished
<1> QED BY InitInvariant, <1>1, PTL DEF Spec

\* The state of a connection thread (smbgw.c:44-55) always has its type.
THEOREM TypeCorrect == Spec => []TypeOK
<1>1. IInv => TypeOK
  BY DEF IInv
<1> QED BY Invariance, <1>1, PTL

\* What one peer is sent is a prefix of what the other one sent, for all
\* streams, all ways they arrive and all numbers of connections before.
THEOREM Integrity == Spec => []StreamIntegrity
<1>1. IInv => StreamIntegrity
  BY DEF IInv
<1> QED BY Invariance, <1>1, PTL

\* In a session the rings hold exactly what was received and not yet sent
\* on, so that resetting them in between would lose nothing (smbgw.c:120-201).
THEOREM NothingElseInRings == Spec => []RingHoldsStream
<1>1. IInv => RingHoldsStream
  BY DEF IInv
<1> QED BY Invariance, <1>1, PTL

\* The ring is used contiguously: butil_normalize_ring never moves a byte in a
\* session, and the pointers given to recv and send cover all there is
\* (smbgw.c:107, 164, 183).
THEOREM NeverWraps == Spec => []RingAnchored
<1>1. IInv => RingAnchored
  BY DEF IInv
<1> QED BY Invariance, <1>1, PTL

\* A ring holds no byte of a message behind the one that is read, checked or
\* written, and none of an earlier connection (smbgw.c:107, 136, 456).
THEOREM FrameByFrame == Spec => []OneFrame
<1>1. IInv => OneFrame
  BY DEF IInv
<1> QED BY Invariance, <1>1, PTL

-----------------------------------------------------------------------------
(* Pump implements Relay. *)

\* A session hands on only what it received.
SinkWithinPulled == InSession => \A d \in Side : Len(out[d]) <= got[d]

LEMMA SinkBound == IInv => SinkWithinPulled
<1> SUFFICES ASSUME IInv, InSession, NEW d \in Side PROVE Len(out[d]) <= got[d]
  BY DEF SinkWithinPulled
<1>1. /\ got[d] = Base(d) + ring[d].count
      /\ got[d] \in Nat /\ ring[d].count \in Nat /\ Len(out[d]) \in Nat /\ sent \in Nat
  BY SMTT(60) DEF IInv, RingHoldsStream, TypeOK, RingType
<1>2. CASE AtWrite(d)
  <2>1. Base(d) = Len(out[d]) - sent /\ sent < ring[d].count
    BY <1>2 DEF Base, IInv, OneFrame, AtWrite, Running
  <2> QED BY <1>1, <2>1
<1>3. CASE ~ AtWrite(d)
  <2>1. Base(d) = Len(out[d])
    BY <1>1, <1>3 DEF Base
  <2> QED BY <1>1, <2>1
<1> QED BY <1>2, <1>3

\* Equal bytes at equal places make equal streams.
LEMMA PrefixEqual ==
  ASSUME NEW s \in Seq(Byte), NEW t \in Seq(Byte), Len(t) <= Len(s),
         \A i \in 1 .. Len(t) : t[i] = s[i]
  PROVE  t = SubSeq(s, 1, Len(t))
<1>1. SubSeq(s, 1, Len(t)) \in Seq(Byte) /\ Len(SubSeq(s, 1, Len(t))) = Len(t)
  OBVIOUS
<1>2. \A i \in 1 .. Len(t) : SubSeq(s, 1, Len(t))[i] = t[i]
  OBVIOUS
<1> QED BY <1>1, <1>2

\* A send hands on at least one byte.
LEMMA SendsBytes ==
  ASSUME IInv, NEW d \in Side, SendSome(d)
  PROVE  /\ \A e \in Side \ {d} : out'[e] = out[e]
         /\ Len(out'[d]) > Len(out[d]) /\ out'[d] \in Seq(Byte)
<1> DEFINE r    == ring[d]
           want == ReadAvail(r) - sent
           n    == Lesser(want, SendRoom(d))
           f    == [i \in 1 .. n |-> r.data[r.tail + sent + i - 1]]
<1>1. InSession /\ Running /\ AtWrite(d)
  BY DEF SendSome, AtWrite, InSession, Running
<1>2. /\ r \in RingType /\ ReadAvail(r) = r.count
      /\ r.tail = 0 /\ r.count \in 0 .. RingSize /\ r.data \in [Slots -> Byte]
  BY <1>1, AnchoredInSession, AvailOfAnchored DEF Anchored, RingType
<1>3. sent \in Nat /\ sent < r.count
  BY <1>1 DEF IInv, TypeOK, OneFrame
<1>4. n \in Nat /\ n > 0 /\ sent + n <= r.count
  <2>1. SendRoom(d) \in Int /\ SendRoom(d) > 0
    BY SMTT(60), PumpAssumption DEF SendSome, Writable, SendRoom, IInv, TypeOK
  <2> QED BY <1>2, <1>3, <2>1 DEF Lesser
<1>5. f \in [1 .. n -> Byte]
  <2>1. ASSUME NEW i \in 1 .. n PROVE r.tail + sent + i - 1 \in Slots
    BY <1>2, <1>3, <1>4, RingAssumption DEF Slots
  <2> QED BY <1>2, <2>1
<1>6. out \in [Side -> Seq(Byte)] /\ out' = [out EXCEPT ![d] = @ \o f]
  BY DEF SendSome, IInv, TypeOK
<1> HIDE DEF f, n
<1>7. out'[d] = out[d] \o f /\ \A e \in Side \ {d} : out'[e] = out[e]
  BY <1>6
<1>8. out[d] \in Seq(Byte) /\ Len(out[d]) \in Nat
  BY <1>6
<1>9. out[d] \o f \in Seq(Byte) /\ Len(out[d] \o f) = Len(out[d]) + n
  BY <1>4, <1>5, <1>8, Appended
<1> QED BY <1>4, <1>7, <1>8, <1>9

\* recv returns bytes: the pipe takes them.
LEMMA PullStep ==
  ASSUME IInv, IInv', NEW d \in Side, ReadSome(d)
  PROVE  Pipes!Pull(d)
<1> DEFINE n == Lesser(Chunk(d), put[d] - got[d])
<1>1. /\ pc = "read" /\ Chunk(d) > 0 /\ got[d] < put[d]
      /\ got' = [got EXCEPT ![d] = @ + n] /\ UNCHANGED <<stream, put, out>>
  BY DEF ReadSome, AtRead, Readable
<1>2. got[d] \in Nat /\ put[d] \in Nat /\ remain[d] \in Nat /\ ring[d].count \in Nat
  BY DEF IInv, TypeOK, RingType
<1>3. n > 0 /\ n \in Int
  BY <1>1, <1>2 DEF Lesser, Chunk
<1> HIDE DEF n
<1>4. got'[d] = got[d] + n /\ got \in [Side -> Nat]
  BY <1>1 DEF IInv, TypeOK
<1>5. got'[d] <= put[d] /\ put[d] <= Len(stream[d]) /\ Len(stream[d]) \in Nat
  BY <1>1 DEF IInv, RingHoldsStream, TypeOK
<1>6. got'[d] \in got[d] + 1 .. Len(stream[d])
  BY <1>2, <1>3, <1>4, <1>5
<1>7. got' = [got EXCEPT ![d] = got'[d]]
  BY <1>1, <1>4
<1>8. pc' \notin {"wait", "killed"}
  BY DEF ReadSome, Framed, Incomplete, HeaderIn, HeaderInvalid, BodyIn, BodyRejected,
         NextTurn, LeaveLoop
<1> QED BY <1>1, <1>6, <1>7, <1>8 DEF Pipes!Pull

\* send accepts bytes: the pipe hands them on.
LEMMA PushStep ==
  ASSUME IInv, IInv', NEW d \in Side, SendSome(d)
  PROVE  Pipes!Push(d)
<1>1. /\ pc = "write" /\ pc' \in {"write", "read"} /\ UNCHANGED <<stream, got>>
      /\ out \in [Side -> Seq(Byte)] /\ out' \in [Side -> Seq(Byte)]
      /\ stream \in [Side -> Seq(Byte)] /\ got \in [Side -> Nat]
  BY DEF SendSome, AtWrite, NextTurn, IInv, TypeOK
<1>2. Len(out'[d]) > Len(out[d]) /\ \A e \in Side \ {d} : out'[e] = out[e]
  BY SendsBytes
<1>3. Len(out'[d]) <= got[d]
  <2>1. SinkWithinPulled'
    <3>1. IInv' => SinkWithinPulled'
      BY SinkBound, PTL
    <3> QED BY <3>1
  <2> QED BY <2>1, <1>1 DEF SinkWithinPulled, InSession, Running
<1>4. out'[d] = SubSeq(stream[d], 1, Len(out'[d]))
  <2>1. /\ Len(out'[d]) <= Len(stream[d])
        /\ \A i \in 1 .. Len(out'[d]) : out'[d][i] = stream[d][i]
    BY <1>1 DEF IInv, StreamIntegrity
  <2>2. stream[d] \in Seq(Byte) /\ out'[d] \in Seq(Byte)
    BY <1>1
  <2> QED BY <2>1, <2>2, PrefixEqual
<1>5. Len(out'[d]) \in Len(out[d]) + 1 .. got[d]
  <2>1. Len(out[d]) \in Nat /\ Len(out'[d]) \in Nat /\ got[d] \in Nat
    BY <1>1
  <2> QED BY <2>1, <1>2, <1>3
<1>6. out' = [out EXCEPT ![d] = SubSeq(stream[d], 1, Len(out'[d]))]
  BY <1>1, <1>2, <1>4
<1> QED BY <1>1, <1>5, <1>6 DEF Pipes!Push

\* Every step opens the pipes, drops them, moves bytes through one of them, or
\* is not seen.
LEMMA RelayStep ==
  ASSUME IInv, IInv', [Next]_vars
  PROVE  [Pipes!RelayNext]_(Pipes!relayVars)
<1> USE DEF Pipes!RelayNext
<1>1. CASE NewClient
  BY <1>1 DEF NewClient, Pipes!Open
<1>2. CASE ConnectFails \/ Close
  BY <1>2 DEF ConnectFails, Close, Pipes!Drop
<1>3. ASSUME NEW d \in Side, SendKills(d) PROVE Pipes!RelayNext
  BY <1>3 DEF SendKills, AtWrite, Pipes!Drop
<1>4. ASSUME NEW d \in Side, ReadSome(d) PROVE Pipes!RelayNext
  BY <1>4, PullStep
<1>5. ASSUME NEW d \in Side, SendSome(d) PROVE Pipes!RelayNext
  BY <1>5, PushStep
<1>6. CASE ConnectStarts
  BY <1>6 DEF ConnectStarts, Pipes!relayVars
<1>7. ASSUME NEW d \in Side, NoRoom(d) \/ ReadFails(d) \/ SendTimesOut(d) \/ SendFails(d)
      PROVE  UNCHANGED Pipes!relayVars
  BY <1>7 DEF NoRoom, ReadFails, SendTimesOut, SendFails, AtRead, AtWrite, LeaveLoop, netVars,
              Pipes!relayVars
<1>8. ASSUME NEW d \in Side, ReadNothing(d) PROVE UNCHANGED Pipes!relayVars
  BY <1>8 DEF ReadNothing, AtRead, Framed, Incomplete, HeaderIn, HeaderInvalid, BodyIn,
              BodyRejected, NextTurn, LeaveLoop, netVars, Pipes!relayVars
<1>9. CASE Network
  BY <1>9 DEF Network, ServerAnswers, PeerSends, PeerReads, PeerHangsUp, PeerResets, threadVars,
              Pipes!relayVars
<1>10. CASE UNCHANGED vars
  BY <1>10 DEF vars, threadVars, netVars, Pipes!relayVars
<1> QED BY <1>1, <1>2, <1>3, <1>4, <1>5, <1>6, <1>7, <1>8, <1>9, <1>10
        DEF Next, Thread, Finished

\* A connection is two pipes, whatever the buffers and the frames: nothing lost
\* from the middle, doubled, reordered or left over from the connection before
\* (smbgw.c:44-345).
THEOREM Refinement == Spec => RelayRefined
<1>1. Init => Pipes!RelayInit
  BY DEF Init, Pipes!RelayInit
<1> QED BY <1>1, RelayStep, Invariance, PTL DEF Spec, RelayRefined, Pipes!RelaySpec

=============================================================================
