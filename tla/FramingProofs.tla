---------------------------- MODULE FramingProofs ----------------------------
(***************************************************************************)
(* Theorems of Pump for streams whose headers arrive in one piece          *)
(* (SplitHeaders = FALSE): the thread finds the boundaries of all messages *)
(* of every stream, hands on whole messages, and only those it accepts.    *)
(* That a header may not be split is needed: see the run                   *)
(* pump_header_split.                                                      *)
(***************************************************************************)
EXTENDS PumpProofs, Least

-----------------------------------------------------------------------------
(* The boundaries of a stream *)

\* The recursive function of Ends for the first m positions of s.
EndsUpTo(s, m, f) ==
  f = [n \in 0 .. m |->
         n = 0 \/ \E k \in 0 .. n - 4 : f[k] /\ k + 4 + HeaderAt(s, k + 1) = n]

\* It exists: a boundary depends on the ones before it.
LEMMA EndsExist ==
  ASSUME NEW s, NEW m \in Nat
  PROVE  \E f : EndsUpTo(s, m, f)
<1> DEFINE T == {j \in Nat : ~ \E f : EndsUpTo(s, j, f)}
<1>1. SUFFICES ASSUME T # {} PROVE FALSE
  OBVIOUS
<1>2. PICK j \in T : \A i \in T : j <= i
  BY <1>1, LeastNat
<1>3. j \in Nat /\ ~ \E f : EndsUpTo(s, j, f)
  OBVIOUS
<1> HIDE DEF T
<1>4. \E g : \A n \in 0 .. j - 1 :
        g[n] <=> n = 0 \/ \E k \in 0 .. n - 4 : g[k] /\ k + 4 + HeaderAt(s, k + 1) = n
  <2>1. CASE j = 0
    BY <2>1
  <2>2. CASE j # 0
    <3>1. j - 1 \in Nat /\ ~ (j <= j - 1)
      BY <1>3, <2>2
    <3>2. PICK g : EndsUpTo(s, j - 1, g)
      BY <1>2, <3>1 DEF T
    <3> QED BY <3>2 DEF EndsUpTo
  <2> QED BY <2>1, <2>2
<1>5. PICK g : \A n \in 0 .. j - 1 :
        g[n] <=> n = 0 \/ \E k \in 0 .. n - 4 : g[k] /\ k + 4 + HeaderAt(s, k + 1) = n
  BY <1>4
<1> DEFINE f == [n \in 0 .. j |->
                   n = 0 \/ \E k \in 0 .. n - 4 : g[k] /\ k + 4 + HeaderAt(s, k + 1) = n]
<1>6. ASSUME NEW n \in 0 .. j - 1 PROVE f[n] <=> g[n]
  <2>1. n \in 0 .. j
    BY <1>3
  <2> QED BY <1>5, <2>1
<1>7. ASSUME NEW n \in 0 .. j
      PROVE  f[n] = (n = 0 \/ \E k \in 0 .. n - 4 : f[k] /\ k + 4 + HeaderAt(s, k + 1) = n)
  <2>1. f[n] = (n = 0 \/ \E k \in 0 .. n - 4 : g[k] /\ k + 4 + HeaderAt(s, k + 1) = n)
    OBVIOUS
  <2>2. \A k \in 0 .. n - 4 : k \in 0 .. j - 1
    BY <1>3
  <2> HIDE DEF f
  <2>3. \A k \in 0 .. n - 4 : f[k] <=> g[k]
    BY <1>6, <2>2
  <2> QED BY <2>1, <2>3
<1>8. f = [n \in 0 .. j |-> f[n]]
  OBVIOUS
<1> HIDE DEF f
<1>9. EndsUpTo(s, j, f)
  BY <1>7, <1>8 DEF EndsUpTo
<1> QED BY <1>3, <1>9

\* The defining equation of Ends: the first message starts at 0, and every
\* other one where the one before it ends.
LEMMA EndsAre ==
  ASSUME NEW s \in Seq(Byte)
  PROVE  /\ Ends(s) \subseteq 0 .. Len(s) /\ 0 \in Ends(s)
         /\ \A n \in 0 .. Len(s) :
              n \in Ends(s) <=>
                n = 0 \/ \E m \in 0 .. n - 4 : m \in Ends(s) /\ m + 4 + HeaderAt(s, m + 1) = n
<1> DEFINE Fits0(f) == f = [n \in 0 .. Len(s) |->
              n = 0 \/ \E m \in 0 .. n - 4 : f[m] /\ m + 4 + HeaderAt(s, m + 1) = n]
           end == CHOOSE f : Fits0(f)
<1>1. Ends(s) = {n \in 0 .. Len(s) : end[n]}
  BY DEF Ends
<1>2. Len(s) \in Nat
  OBVIOUS
<1>3. \E f : Fits0(f)
  <2>1. PICK f : EndsUpTo(s, Len(s), f)
    BY <1>2, EndsExist
  <2>2. Fits0(f)
    BY <2>1 DEF EndsUpTo
  <2> HIDE DEF Fits0
  <2> QED BY <2>2
<1>4. Fits0(end)
  <2> HIDE DEF Fits0
  <2> QED BY <1>3
<1> HIDE DEF end
<1>5. \A n \in 0 .. Len(s) :
        end[n] <=> n = 0 \/ \E m \in 0 .. n - 4 : end[m] /\ m + 4 + HeaderAt(s, m + 1) = n
  BY <1>4
<1> HIDE DEF Fits0
<1>6. ASSUME NEW n \in 0 .. Len(s)
      PROVE  \A m \in 0 .. n - 4 : m \in Ends(s) <=> end[m]
  <2>1. \A m \in 0 .. n - 4 : m \in 0 .. Len(s)
    BY <1>2
  <2> QED BY <1>1, <2>1
<1>7. ASSUME NEW n \in 0 .. Len(s)
      PROVE  n \in Ends(s) <=>
               n = 0 \/ \E m \in 0 .. n - 4 : m \in Ends(s) /\ m + 4 + HeaderAt(s, m + 1) = n
  BY <1>1, <1>5, <1>6
<1>8. 0 \in Ends(s)
  BY <1>2, <1>7
<1> QED BY <1>1, <1>7, <1>8

\* The header of a message that lies within the stream is a number.
LEMMA StreamHeaderNat ==
  ASSUME NEW s \in Seq(Byte), NEW i \in Nat, i >= 1, i + 3 <= Len(s)
  PROVE  HeaderAt(s, i) \in Nat
<1>1. Radix \in Nat
  BY RingAssumption
<1>2. /\ s[i] \in Nat /\ s[i + 1] \in Nat
      /\ s[i + 2] \in Nat /\ s[i + 3] \in Nat
  BY SMTT(60), RingAssumption DEF Byte
<1> DEFINE a == s[i] * Radix + s[i + 1]
           b == a * Radix + s[i + 2]
<1>3. a \in Nat
  <2>1. s[i] * Radix \in Nat
    BY <1>1, <1>2, ProductNat
  <2> QED BY <2>1, <1>2
<1>4. b \in Nat
  <2> HIDE DEF a
  <2>1. a * Radix \in Nat
    BY <1>1, <1>3, ProductNat
  <2> QED BY <2>1, <1>2
<1>5. b * Radix + s[i + 3] \in Nat
  <2> HIDE DEF b
  <2>1. b * Radix \in Nat
    BY <1>1, <1>4, ProductNat
  <2> QED BY <2>1, <1>2
<1> QED BY <1>5 DEF HeaderAt

\* Message e of s ends at or before f.
EndsBy(s, e, f) == e + 4 <= f /\ e + 4 + HeaderAt(s, e + 1) <= f

\* Between a boundary and a later one lies the whole message that starts at
\* the first: the boundaries form one chain.
LEMMA EndsApart ==
  ASSUME NEW s \in Seq(Byte), NEW e \in Ends(s), NEW f \in Ends(s), e < f
  PROVE  EndsBy(s, e, f)
<1> DEFINE Good(b) == \A a \in Ends(s) : a < b => EndsBy(s, a, b)
           T == {b \in Nat : b \in Ends(s) /\ ~ Good(b)}
<1>1. Len(s) \in Nat /\ \A b \in Ends(s) : b \in Nat /\ b <= Len(s)
  BY EndsAre
<1>2. T = {}
  <2> SUFFICES ASSUME T # {} PROVE FALSE
    OBVIOUS
  <2>1. PICK b \in T : \A c \in T : b <= c
    BY LeastNat
  <2>2. b \in Nat /\ b \in Ends(s) /\ ~ Good(b)
    OBVIOUS
  <2>3. ASSUME NEW c \in Ends(s), c < b PROVE Good(c)
    <3> HIDE DEF Good
    <3>1. c \in Nat /\ ~ (b <= c)
      BY <1>1, <2>2, <2>3
    <3> QED BY <2>1, <3>1
  <2> HIDE DEF T
  <2>4. PICK a \in Ends(s) : a < b /\ ~ EndsBy(s, a, b)
    BY <2>2
  <2>5. a \in Nat /\ b # 0 /\ b \in 0 .. Len(s)
    BY <1>1, <2>2, <2>4
  <2>6. PICK m \in 0 .. b - 4 : m \in Ends(s) /\ m + 4 + HeaderAt(s, m + 1) = b
    BY <2>2, <2>5, EndsAre
  <2>7. m \in Nat /\ m + 4 <= b /\ m < b
    BY <2>2, <2>6
  <2>8. CASE m = a
    BY <2>2, <2>4, <2>6, <2>7, <2>8 DEF EndsBy
  <2>9. CASE a < m
    <3>1. EndsBy(s, a, m)
      BY <2>3, <2>6, <2>7, <2>9
    <3>2. HeaderAt(s, a + 1) \in Nat
      BY <1>1, <2>5, <2>6, <2>7, <3>1, StreamHeaderNat DEF EndsBy
    <3> QED BY <2>2, <2>4, <2>5, <2>7, <3>1, <3>2 DEF EndsBy
  <2>10. CASE m < a
    <3>1. EndsBy(s, m, a)
      BY <2>3, <2>4, <2>6, <2>10
    <3> QED BY <2>2, <2>4, <2>5, <2>6, <2>7, <3>1 DEF EndsBy
  <2> QED BY <2>5, <2>7, <2>8, <2>9, <2>10
<1>3. f \in Nat /\ Good(f)
  <2>1. f \in Nat
    BY <1>1
  <2> HIDE DEF Good
  <2> QED BY <1>2, <2>1
<1> QED BY <1>3

\* The end of a message within the stream is a boundary.
LEMMA NextEnd ==
  ASSUME NEW s \in Seq(Byte), NEW e \in Ends(s), NEW n, n = e + 4 + HeaderAt(s, e + 1),
         e + 4 <= Len(s), n <= Len(s)
  PROVE  n \in Ends(s)
<1>1. e \in Nat /\ Len(s) \in Nat
  BY EndsAre
<1>2. HeaderAt(s, e + 1) \in Nat
  BY <1>1, StreamHeaderNat
<1>3. n \in 0 .. Len(s) /\ e \in 0 .. n - 4
  BY <1>1, <1>2
<1> QED BY <1>3, EndsAre

-----------------------------------------------------------------------------
(* The inductive invariant.  That a read which completes a frame completes   *)
(* a message needs the frame to begin at a boundary of the stream and its    *)
(* length to be the announced one; both need a header to be read at once,    *)
(* so that it is decoded from where it starts.                               *)

\* Headers arrive in one piece.
HeadersWhole ==
  \A d \in Side : \A e \in Ends(stream[d]) : ~ (e < put[d] /\ put[d] < e + 4)

\* A connection that is being made has moved nothing.
NothingYet == pc = "connect" => \A d \in Side : Len(out[d]) = 0

\* The ring's first byte is the first one of a message.
AtBoundary == Running => \A d \in Side : Base(d) \in Ends(stream[d])

\* The length announced by the message the ring starts with.
Announces(d) == HeaderAt(stream[d], Base(d) + 1)

\* The thread waits for a whole header or for the body the header announces.
FrameKnown ==
  Running => \A d \in Side : ~ AtWrite(d) =>
    /\ state[d] = "psHeader" => ring[d].count = 0
    /\ state[d] = "psBody" => remain[d] = Announces(d) + 4

\* The message at place e of s, announced as n bytes long, without its header.
MessageAt(s, e, n) == SubSeq(s, e + 5, e + 4 + n)

\* What is written is one message, and was accepted.
OneMessage ==
  \A d \in Side : AtWrite(d) =>
    /\ ring[d].count = Announces(d) + 4
    /\ passthrough \/ PacketOK(MessageAt(stream[d], Base(d), Announces(d)))

FInv ==
  /\ HeadersWhole /\ NothingYet /\ AtBoundary /\ FrameKnown /\ OneMessage /\ OnlyAccepted

\* The facts about a direction of a session that the steps use.
LEMMA InDirection ==
  ASSUME IInv, Running, NEW d \in Side
  PROVE  /\ stream[d] \in Seq(Byte) /\ out[d] \in Seq(Byte) /\ Len(out[d]) \in Nat
         /\ got[d] \in Nat /\ put[d] \in Nat /\ got[d] <= put[d] /\ put[d] <= Len(stream[d])
         /\ ring[d].count \in Nat /\ remain[d] \in Nat /\ sent \in Nat
         /\ Base(d) \in Int /\ Base(d) <= Len(out[d])
         /\ got[d] = Base(d) + ring[d].count
         /\ \A i \in 0 .. ring[d].count - 1 : ring[d].data[i] = stream[d][Base(d) + i + 1]
         /\ Len(out[d]) <= got[d] /\ Len(stream[d]) \in Nat
<1>1. /\ stream[d] \in Seq(Byte) /\ out[d] \in Seq(Byte) /\ got[d] \in Nat
      /\ put[d] \in Nat /\ ring[d].count \in Nat /\ remain[d] \in Nat /\ sent \in Nat
  BY DEF IInv, TypeOK, RingType
<1>2. Len(out[d]) \in Nat /\ Len(stream[d]) \in Nat
  BY <1>1
<1>3. /\ got[d] <= put[d] /\ put[d] <= Len(stream[d])
      /\ got[d] = Base(d) + ring[d].count
      /\ \A i \in 0 .. ring[d].count - 1 : ring[d].data[i] = stream[d][Base(d) + i + 1]
  BY DEF IInv, RingHoldsStream, InSession
<1>4. Base(d) \in Int /\ Base(d) <= Len(out[d])
  <2>1. Base(d) = Len(out[d]) - sent \/ Base(d) = Len(out[d]) - 0
    BY DEF Base
  <2> QED BY <1>1, <1>2, <2>1
<1>5. Len(out[d]) <= got[d]
  BY SinkBound DEF SinkWithinPulled, InSession
<1> QED BY <1>1, <1>2, <1>3, <1>4, <1>5

\* Nothing has been sent, and no header is split, initially.
LEMMA InitFraming == Init => FInv
<1> SUFFICES ASSUME Init PROVE FInv
  OBVIOUS
<1>1. /\ ~ Running /\ pc # "connect" /\ \A d \in Side : ~ AtWrite(d)
      /\ \A d \in Side : put[d] = 0 /\ out[d] = <<>> /\ stream[d] = <<>>
  BY DEF Init, Running, AtWrite
<1>2. <<>> \in Seq(Byte) /\ Len(<<>>) = 0
  OBVIOUS
<1>3. \A d \in Side : \A e \in Ends(stream[d]) : e \in Nat
  <2>1. \A d \in Side : stream[d] \in Seq(Byte)
    BY <1>1, <1>2
  <2> QED BY <2>1, EndsAre
<1>4. HeadersWhole
  BY SMTT(60), <1>1, <1>3 DEF HeadersWhole
<1>5. OnlyAccepted
  <2>1. \A d \in Side : Len(out[d]) = 0
    BY <1>1, <1>2
  <2>2. \A d \in Side : \A e \in Ends(stream[d]) : ~ (e < Len(out[d]))
    BY <1>3, <2>1
  <2> QED BY <2>2 DEF OnlyAccepted
<1> QED BY <1>1, <1>4, <1>5 DEF FInv, NothingYet, AtBoundary, FrameKnown, OneMessage

\* A thread that leaves the loop or closes sends nothing more.
LEMMA LeaveFraming ==
  ASSUME FInv, pc' \in {"wait", "close", "killed"},
         UNCHANGED <<passthrough, stream, put, out>>
  PROVE  FInv'
<1>1. ~ Running' /\ pc' # "connect" /\ \A d \in Side : ~ AtWrite(d)'
  BY DEF Running, AtWrite
<1>2. HeadersWhole' /\ OnlyAccepted'
  BY DEF FInv, HeadersWhole, OnlyAccepted
<1> QED BY <1>1, <1>2 DEF FInv, NothingYet, AtBoundary, FrameKnown, OneMessage

\* The network touches neither the thread nor what was sent.
LEMMA NetworkFraming ==
  ASSUME FInv, UNCHANGED <<threadVars, stream, out>>, HeadersWhole'
  PROVE  FInv'
<1>1. Running' = Running /\ \A d \in Side : (AtWrite(d)' <=> AtWrite(d)) /\ Base(d)' = Base(d)
                                           /\ Announces(d)' = Announces(d)
  BY DEF threadVars, Running, AtWrite, Base, Announces
<1>2. NothingYet' /\ AtBoundary' /\ OnlyAccepted'
  BY <1>1 DEF FInv, threadVars, NothingYet, AtBoundary, OnlyAccepted
<1>3. FrameKnown' /\ OneMessage'
  BY <1>1 DEF FInv, threadVars, FrameKnown, OneMessage
<1> QED BY <1>2, <1>3 DEF FInv

\* A header that is sent is sent as a whole.
LEMMA PeerSendsFraming ==
  ASSUME IInv, FInv, ~ SplitHeaders, NEW d \in Side, PeerSends(d)
  PROVE  FInv'
<1>1. /\ put \in [Side -> Nat] /\ put' = [put EXCEPT ![d] = @ + Segment(d)]
      /\ UNCHANGED <<threadVars, stream, out>> /\ stream[d] \in Seq(Byte)
  BY DEF PeerSends, IInv, TypeOK
<1>2. /\ put[d] \in Ends(stream[d]) => Segment(d) = 4
      /\ put[d] \notin Ends(stream[d]) => Segment(d) = 1
  BY DEF Segment
<1>3. ASSUME NEW e \in Ends(stream[d]) PROVE ~ (e < put'[d] /\ put'[d] < e + 4)
  <2>1. e \in Nat /\ put[d] \in Nat /\ put'[d] = put[d] + Segment(d)
    BY <1>1, EndsAre
  <2>2. ~ (e < put[d] /\ put[d] < e + 4)
    BY DEF FInv, HeadersWhole
  <2>3. CASE put[d] \in Ends(stream[d])
    <3>1. Segment(d) = 4
      BY <1>2, <2>3
    <3>2. CASE put[d] < e
      <4>1. put[d] + 4 <= e
        BY <1>1, <2>3, <3>2, EndsApart DEF EndsBy
      <4> QED BY <2>1, <3>1, <4>1
    <3> QED BY <2>1, <2>2, <3>1, <3>2
  <2>4. CASE put[d] \notin Ends(stream[d])
    <3>1. Segment(d) = 1 /\ put[d] # e
      BY <1>2, <2>4
    <3> QED BY <2>1, <2>2, <3>1
  <2> QED BY <2>3, <2>4
<1>4. HeadersWhole'
  BY <1>1, <1>3 DEF FInv, HeadersWhole
<1> QED BY <1>1, <1>4, NetworkFraming

\* A new connection starts at the start of its streams.
LEMMA NewClientFraming == IInv' /\ FInv /\ NewClient => FInv'
<1> SUFFICES ASSUME IInv', NewClient PROVE FInv'
  OBVIOUS
<1>1. /\ pc' = "connect" /\ ~ Running' /\ \A d \in Side : ~ AtWrite(d)'
      /\ \A d \in Side : put'[d] = 0 /\ out'[d] = <<>> /\ stream'[d] \in Seq(Byte)
  BY DEF NewClient, Running, AtWrite, IInv, TypeOK
<1>2. \A d \in Side : Len(out'[d]) = 0
  BY <1>1
<1>3. \A d \in Side : \A e \in Ends(stream'[d]) : e \in Nat
  BY <1>1, EndsAre
<1>4. HeadersWhole' /\ OnlyAccepted'
  <2>1. HeadersWhole'
    <3>1. \A d \in Side : \A e \in Ends(stream'[d]) : ~ (e < put'[d])
      BY <1>1, <1>3
    <3> QED BY <3>1 DEF HeadersWhole
  <2>2. \A d \in Side : \A e \in Ends(stream'[d]) : ~ (e < Len(out'[d]))
    BY <1>2, <1>3
  <2> QED BY <2>1, <2>2 DEF OnlyAccepted
<1>5. NothingYet' /\ AtBoundary' /\ FrameKnown' /\ OneMessage'
  BY <1>1, <1>2 DEF NothingYet, AtBoundary, FrameKnown, OneMessage
<1> QED BY <1>4, <1>5 DEF FInv

\* The loop begins with empty rings at the first boundary.
LEMMA ConnectFraming == IInv /\ FInv /\ ConnectStarts => FInv'
<1> SUFFICES ASSUME IInv, FInv, ConnectStarts PROVE FInv'
  OBVIOUS
<1>1. /\ pc = "connect" /\ pc' = "read" /\ \A d \in Side : ~ AtWrite(d)'
      /\ UNCHANGED <<ring, passthrough, stream, put, out>>
      /\ \A d \in Side : state'[d] = "psHeader"
  BY DEF ConnectStarts, AtWrite
<1>2. \A d \in Side : ring'[d].count = 0 /\ Len(out'[d]) = 0 /\ stream'[d] \in Seq(Byte)
  BY <1>1 DEF IInv, OneFrame, FInv, NothingYet, TypeOK
<1>3. \A d \in Side : Base(d)' = 0
  BY <1>1, <1>2 DEF Base
<1>4. AtBoundary'
  BY <1>2, <1>3, EndsAre DEF AtBoundary
<1>5. HeadersWhole' /\ OnlyAccepted'
  BY <1>1 DEF FInv, HeadersWhole, OnlyAccepted
<1>6. FrameKnown' /\ OneMessage' /\ NothingYet'
  BY <1>1, <1>2 DEF FrameKnown, OneMessage, NothingYet
<1> QED BY <1>4, <1>5, <1>6 DEF FInv

\* A part of a stream as the code copies it.
LEMMA Sliced ==
  ASSUME NEW s \in Seq(Byte), NEW b \in Nat, NEW n \in Nat, b + 4 + n <= Len(s)
  PROVE  MessageAt(s, b, n) = [i \in 1 .. n |-> s[b + 4 + i]]
<1> DEFINE t == SubSeq(s, b + 5, b + 4 + n)
<1>1. t \in Seq(Byte) /\ Len(t) = n /\ \A i \in 1 .. n : t[i] = s[b + 4 + i]
  <2>1. b + 4 \in Nat /\ (b + 4) + 1 = b + 5
    OBVIOUS
  <2> QED BY <2>1, NextBytes
<1>2. t = [i \in 1 .. n |-> t[i]]
  BY <1>1
<1> HIDE DEF t
<1>3. t = [i \in 1 .. n |-> s[b + 4 + i]]
  BY <1>1, <1>2
<1> QED BY <1>3 DEF t, MessageAt

\* What a read leads to.  A header is read at once, so that it is decoded from
\* where it starts; a read that completes a body completes a message.
LEMMA ReadFraming ==
  ASSUME IInv, IInv', FInv, NEW d \in Side, AtRead(d), NEW r, Framed(d, r),
         r \in RingType, Anchored(r), ring' = [ring EXCEPT ![d] = r],
         state[d] = "psHeader" => r.count \in {0, 4},
         UNCHANGED <<passthrough, stream, put, out>>
  PROVE  FInv'
<1>1. /\ pc = "read" /\ turn = d /\ Running
      /\ \A e \in Side : ~ AtWrite(e) /\ Base(e) = Len(out[e])
  BY BaseAtRead DEF AtRead, Running
<1>2. HeadersWhole' /\ OnlyAccepted'
  BY DEF FInv, HeadersWhole, OnlyAccepted
<1>3. /\ ring'[d] = r /\ \A e \in Side \ {d} : ring'[e] = ring[e]
      /\ state \in [Side -> {"psHeader", "psBody"}] /\ remain \in [Side -> Nat]
  BY DEF IInv, TypeOK
<1>4. CASE ~ Running'
  <2>1. pc' \in {"close"}
    BY <1>4 DEF Framed, Incomplete, HeaderIn, HeaderInvalid, BodyIn, BodyRejected,
                NextTurn, LeaveLoop, Running
  <2> QED BY <2>1, LeaveFraming
<1>5. CASE Running'
  <2>1. /\ pc' \in {"read", "write"} /\ (pc' = "write" => turn' = d) /\ sent' = 0
        /\ Incomplete(d, r) \/ HeaderIn(d, r) \/ BodyIn(d, r)
    BY <1>1, <1>5 DEF Framed, Incomplete, HeaderIn, HeaderInvalid, BodyIn, BodyRejected,
                      NextTurn, LeaveLoop, Running
  <2>2. \A e \in Side : Base(e)' = Base(e) /\ Announces(e)' = Announces(e)
    <3>1. ASSUME NEW e \in Side PROVE Base(e)' = Base(e)
      <4>1. Len(out[e]) \in Nat
        BY <1>1, InDirection
      <4> QED BY <1>1, <2>1, <4>1 DEF Base
    <3> QED BY <3>1 DEF Announces
  <2>3. NothingYet' /\ AtBoundary'
    BY <1>1, <2>1, <2>2 DEF FInv, NothingYet, AtBoundary
  <2>4. /\ Base(d) \in Int
        /\ \A i \in 0 .. r.count - 1 : r.data[i] = stream[d][Base(d) + i + 1]
    <3>1. /\ Base(d)' \in Int
          /\ \A i \in 0 .. ring'[d].count - 1 :
               ring'[d].data[i] = stream'[d][Base(d)' + i + 1]
      <4>1. Base(d) \in Int
        BY <1>1, InDirection
      <4>2. \A i \in 0 .. ring'[d].count - 1 :
               ring'[d].data[i] = stream'[d][Base(d)' + i + 1]
        BY <1>5 DEF IInv, RingHoldsStream, InSession
      <4> QED BY <2>2, <4>1, <4>2
    <3> QED BY <1>3, <2>2, <3>1
  <2>7. Base(d) + r.count <= Len(stream[d]) /\ Base(d) \in Nat /\ Len(stream[d]) \in Nat
    <3>1. Base(d) \in Nat /\ Len(stream[d]) \in Nat
      BY <1>1, InDirection
    <3>2. /\ got'[d] = Base(d)' + ring'[d].count
          /\ got'[d] <= put'[d] /\ put'[d] <= Len(stream'[d])
      BY <1>5 DEF IInv, RingHoldsStream, InSession
    <3>3. got'[d] \in Nat /\ put'[d] \in Nat
      BY DEF IInv, TypeOK
    <3> QED BY <1>3, <2>2, <3>1, <3>2, <3>3
  <2>5. FrameKnown'
    <3>1. ASSUME NEW e \in Side \ {d}
          PROVE  /\ state'[e] = "psHeader" => ring'[e].count = 0
                 /\ state'[e] = "psBody" => remain'[e] = Announces(e)' + 4
      <4>1. state'[e] = state[e] /\ remain'[e] = remain[e]
        BY <1>3, <2>1 DEF Incomplete, HeaderIn, BodyIn
      <4> QED BY <1>1, <1>3, <2>2, <4>1 DEF FInv, FrameKnown
    <3>2. ASSUME ~ AtWrite(d)'
          PROVE  /\ state'[d] = "psHeader" => ring'[d].count = 0
                 /\ state'[d] = "psBody" => remain'[d] = Announces(d)' + 4
      <4>1. CASE Incomplete(d, r)
        <5>1. state' = state /\ remain' = remain /\ r.count # remain[d]
          BY <4>1 DEF Incomplete
        <5>2. state[d] = "psHeader" => remain[d] = 4
          BY <1>1 DEF IInv, OneFrame
        <5> QED BY <1>1, <1>3, <2>2, <5>1, <5>2 DEF FInv, FrameKnown
      <4>2. CASE HeaderIn(d, r)
        <5>1. /\ state[d] = "psHeader" /\ state'[d] = "psBody" /\ r.count = remain[d]
              /\ remain'[d] = HeaderAt(r.data, ring[d].head) + 4
          BY <1>3, <4>2 DEF HeaderIn, FrameLength, Announced
        <5>2. ring[d].count = 0 /\ remain[d] = 4
          BY <1>1, <5>1 DEF IInv, OneFrame, FInv, FrameKnown
        <5>3. ring[d].head = 0
          BY <1>1, <5>2, RingAssumption, AnchoredInSession DEF Anchored, InSession
        <5>4. HeaderAt(r.data, 0) = Announces(d)
          <6>1. /\ r.data[0] = stream[d][Base(d) + 1]
                /\ r.data[0 + 1] = stream[d][Base(d) + 1 + 1]
                /\ r.data[0 + 2] = stream[d][Base(d) + 1 + 2]
                /\ r.data[0 + 3] = stream[d][Base(d) + 1 + 3]
            BY <2>4, <5>1, <5>2
          <6> QED BY <6>1 DEF HeaderAt, Announces
        <5> QED BY <2>2, <5>1, <5>3, <5>4
      <4>3. CASE BodyIn(d, r)
        BY <1>1, <3>2, <4>3 DEF BodyIn, AtWrite
      <4> QED BY <2>1, <4>1, <4>2, <4>3
    <3> QED BY <3>1, <3>2 DEF FrameKnown
  <2>6. OneMessage'
    <3> SUFFICES ASSUME NEW e \in Side, AtWrite(e)'
                 PROVE  /\ ring'[e].count = Announces(e)' + 4
                        /\ passthrough' \/ PacketOK(MessageAt(stream[e], Base(e), Announces(e)))'
      BY DEF OneMessage
    <3>1. e = d /\ BodyIn(d, r)
      BY <2>1 DEF AtWrite, Incomplete, HeaderIn, NextTurn
    <3>2. /\ r.count = remain[d] /\ state[d] = "psBody"
          /\ passthrough \/ PacketOK(Packet(r))
      BY <3>1, NormalizeAnchored DEF BodyIn
    <3>3. r.count = Announces(d) + 4
      BY <1>1, <3>2 DEF FInv, FrameKnown
    <3>4. Packet(r) = MessageAt(stream[d], Base(d), Announces(d))
      <4>1. /\ r.tail = 0 /\ ReadAvail(r) = r.count /\ r.count \in Nat
            /\ stream[d] \in Seq(Byte)
        <5>1. ReadAvail(r) = r.count
          BY AvailOfAnchored
        <5>2. r.tail = 0 /\ r.count \in Nat
          BY RingAssumption DEF Anchored, RingType
        <5>3. stream[d] \in Seq(Byte)
          BY DEF IInv, TypeOK
        <5> QED BY <5>1, <5>2, <5>3
      <4>2. Announces(d) \in Nat
        <5>1. r.count >= 4
          BY <1>3, <3>2, <2>1, <1>5, <3>1, <1>1 DEF IInv, OneFrame
        <5>2. Base(d) \in Nat /\ Base(d) + 4 <= Len(stream[d])
          BY <2>7, <4>1, <5>1
        <5> QED BY <4>1, <5>2, StreamHeaderNat DEF Announces
      <4> DEFINE n == Announces(d)
                 b == Base(d)
      <4>3. Packet(r) = [i \in 1 .. n |-> r.data[3 + i]]
        BY <3>3, <4>1, <4>2 DEF Packet
      <4>4. b + 4 + n <= Len(stream[d]) /\ b \in Nat /\ Len(stream[d]) \in Nat
        BY <2>7, <3>3, <4>1, <4>2
      <4> HIDE DEF n, b
      <4>5. MessageAt(stream[d], b, n) = [i \in 1 .. n |-> stream[d][b + 4 + i]]
        BY <4>1, <4>2, <4>4, Sliced DEF n
      <4>6. ASSUME NEW i \in 1 .. n PROVE r.data[3 + i] = stream[d][b + 4 + i]
        <5>1. n \in Nat /\ r.count = n + 4
          BY <3>3, <4>2 DEF n
        <5>2. 3 + i \in 0 .. r.count - 1
          BY <5>1
        <5>3. r.data[3 + i] = stream[d][b + (3 + i) + 1]
          BY <2>4, <5>2 DEF b
        <5>4. b + (3 + i) + 1 = b + 4 + i
          BY <4>4, <5>1
        <5> QED BY <5>3, <5>4
      <4>7. Packet(r) = MessageAt(stream[d], b, n)
        BY <4>3, <4>5, <4>6
      <4> QED BY <4>7 DEF n, b
    <3> QED BY <1>3, <2>2, <3>1, <3>2, <3>3, <3>4
  <2> QED BY <1>2, <2>3, <2>5, <2>6 DEF FInv
<1> QED BY <1>4, <1>5

\* What a send hands on belongs to the message in the ring; the last send of a
\* message ends at the next boundary.
LEMMA SendFraming ==
  ASSUME IInv, IInv', FInv, NEW d \in Side, SendSome(d)
  PROVE  FInv'
<1> DEFINE b == Base(d)
           c == ring[d].count
<1>1. /\ pc = "write" /\ turn = d /\ Running /\ AtWrite(d)
      /\ \A e \in Side \ {d} : ~ AtWrite(e)
      /\ UNCHANGED <<state, remain, passthrough, stream, put, got>>
  BY DEF SendSome, AtWrite, Running
<1>2. /\ \A e \in Side \ {d} : out'[e] = out[e]
      /\ Len(out'[d]) > Len(out[d]) /\ out'[d] \in Seq(Byte)
  BY SendsBytes
<1>3. /\ stream[d] \in Seq(Byte) /\ Len(stream[d]) \in Nat
      /\ got[d] = b + c /\ got[d] <= Len(stream[d]) /\ got[d] \in Nat /\ c \in Nat
      /\ b <= Len(out[d]) /\ b \in Int /\ Len(out[d]) \in Nat
      /\ put[d] \in Nat /\ got[d] <= put[d] /\ put[d] <= Len(stream[d])
  <2>1. Running
    BY <1>1
  <2>2. /\ stream[d] \in Seq(Byte) /\ Len(stream[d]) \in Nat
        /\ got[d] \in Nat /\ put[d] \in Nat /\ Len(out[d]) \in Nat
    BY <2>1, InDirection
  <2>3. got[d] = Base(d) + ring[d].count /\ ring[d].count \in Nat /\ Base(d) \in Int
    BY <2>1, InDirection
  <2>4. Base(d) <= Len(out[d]) /\ got[d] <= put[d] /\ put[d] <= Len(stream[d])
    BY <2>1, InDirection
  <2> QED BY <2>2, <2>3, <2>4
<1>4. /\ b \in Ends(stream[d]) /\ b \in Nat /\ c = Announces(d) + 4
      /\ passthrough \/ PacketOK(MessageAt(stream[d], b, Announces(d)))
      /\ Announces(d) = HeaderAt(stream[d], b + 1)
  BY <1>1, <1>3, EndsAre DEF FInv, AtBoundary, OneMessage, Announces
<1>5. Len(out'[d]) <= got[d] /\ Len(out'[d]) \in Nat
  <2>1. InSession' /\ Running'
    BY DEF SendSome, NextTurn, AtWrite, InSession, Running
  <2>2. /\ Len(out'[d]) \in Nat /\ sent' \in Nat /\ ring'[d].count \in Nat
        /\ got'[d] = Base(d)' + ring'[d].count
    <3>1. sent' \in Nat /\ ring'[d] \in RingType /\ Len(out'[d]) \in Nat
      BY <1>2 DEF IInv, TypeOK
    <3>2. got'[d] = Base(d)' + ring'[d].count
      BY <2>1 DEF IInv, RingHoldsStream
    <3> QED BY <3>1, <3>2 DEF RingType
  <2>3. CASE AtWrite(d)'
    <3>1. sent' < ring'[d].count
      BY <2>1, <2>3 DEF IInv, OneFrame
    <3>2. Base(d)' = Len(out'[d]) - sent'
      BY <2>3 DEF Base
    <3> QED BY <1>1, <2>2, <3>1, <3>2
  <2>4. CASE ~ AtWrite(d)'
    <3>1. Base(d)' = Len(out'[d])
      BY <2>2, <2>4 DEF Base
    <3> QED BY <1>1, <2>2, <3>1
  <2> QED BY <2>2, <2>3, <2>4
<1>6. c >= 4
  <2>1. c > 0
    <3>1. sent \in Nat /\ sent < ring[d].count
      BY <1>1 DEF IInv, OneFrame, TypeOK
    <3> QED BY <1>3, <3>1
  <2>2. ~ (b < put[d] /\ put[d] < b + 4)
    BY <1>4 DEF FInv, HeadersWhole
  <2> HIDE DEF b, c
  <2>3. b + 4 <= Len(stream[d])
    BY <1>3, <1>4, <2>1, <2>2
  <2>4. HeaderAt(stream[d], b + 1) \in Nat
    BY <1>3, <1>4, <2>3, StreamHeaderNat
  <2> QED BY <1>3, <1>4, <2>4
<1>7. HeaderAt(stream[d], b + 1) \in Nat /\ b + 4 <= Len(stream[d])
  <2> HIDE DEF b, c
  <2>1. b + 4 <= Len(stream[d])
    BY <1>3, <1>4, <1>6
  <2> QED BY SMTT(60), <1>3, <1>4, <2>1, StreamHeaderNat
<1> HIDE DEF b, c
<1>8. HeadersWhole'
  BY <1>1 DEF FInv, HeadersWhole
<1>9. OnlyAccepted'
  <2> SUFFICES ASSUME ~ passthrough, NEW e \in Side, NEW p \in Ends(stream[e]), p < Len(out'[e])
               PROVE  PacketOK(SubSeq(stream[e], p + 5, p + 4 + HeaderAt(stream[e], p + 1)))
    BY <1>1 DEF OnlyAccepted
  <2>1. CASE p < Len(out[e])
    BY <2>1 DEF FInv, OnlyAccepted
  <2>2. CASE ~ (p < Len(out[e]))
    <3>1. e = d
      BY <1>2, <2>2
    <3>2. p \in Nat /\ p >= b /\ p < b + c
      BY <1>3, <1>5, <2>2, <3>1, EndsAre
    <3>3. p = b
      <4>1. CASE b < p
        <5>1. EndsBy(stream[d], b, p)
          BY <1>3, <1>4, <3>1, <4>1, EndsApart
        <5>2. b + 4 + HeaderAt(stream[d], b + 1) = b + c
          BY <1>3, <1>4, <1>7
        <5> QED BY <3>2, <5>1, <5>2, <1>4, <1>3 DEF EndsBy
      <4> QED BY <1>4, <3>2, <4>1
    <3> QED BY <1>4, <3>1, <3>3 DEF MessageAt
  <2> QED BY <2>1, <2>2
<1>10. CASE pc' = "write"
  <2>1. UNCHANGED <<pc, turn, ring>>
    BY <1>10 DEF SendSome, NextTurn
  <2>2. \A e \in Side : (AtWrite(e)' <=> AtWrite(e))
    BY <2>1 DEF AtWrite
  <2>3. \A e \in Side : Base(e)' = Base(e) /\ Announces(e)' = Announces(e)
    <3>1. ASSUME NEW e \in Side PROVE Base(e)' = Base(e)
      <4>1. got[e] = Base(e) + ring[e].count /\ Base(e) \in Int /\ ring[e].count \in Nat
        BY <1>1, InDirection
      <4>2. Running'
        BY <1>10 DEF Running
      <4>3. got'[e] = Base(e)' + ring'[e].count
        BY <4>2 DEF IInv, RingHoldsStream, InSession
      <4>4. Base(e)' \in Int
        <5>1. Base(e)' = Len(out'[e]) - sent' \/ Base(e)' = Len(out'[e]) - 0
          BY DEF Base
        <5>2. sent' \in Nat /\ Len(out'[e]) \in Nat
          BY DEF IInv, TypeOK
        <5> QED BY <5>1, <5>2
      <4> QED BY <1>1, <2>1, <4>1, <4>3, <4>4
    <3> QED BY <1>1, <3>1 DEF Announces
  <2>4. NothingYet' /\ AtBoundary'
    BY <1>1, <1>10, <2>3 DEF FInv, NothingYet, AtBoundary
  <2>5. FrameKnown'
    BY <1>1, <2>1, <2>2, <2>3 DEF FInv, FrameKnown
  <2>6. OneMessage'
    BY <1>1, <2>1, <2>2, <2>3 DEF FInv, OneMessage
  <2> QED BY <1>8, <1>9, <2>4, <2>5, <2>6 DEF FInv
<1>11. CASE pc' # "write"
  <2>1. /\ pc' = "read" /\ Running' /\ InSession'
        /\ ring' = [ring EXCEPT ![d] = Drain(ring[d], ReadAvail(ring[d]))]
    BY <1>1, <1>11 DEF SendSome, NextTurn, Running, InSession
  <2>2. \A e \in Side : ~ AtWrite(e)' /\ Base(e)' = Len(out'[e])
    <3>1. ASSUME NEW e \in Side PROVE Len(out'[e]) \in Nat
      BY DEF IInv, TypeOK
    <3> QED BY <2>1, <3>1 DEF AtWrite, Base
  <2>3. /\ ring'[d].count = 0 /\ \A e \in Side \ {d} : ring'[e] = ring[e]
    <3>1. ring[d] \in RingType /\ Anchored(ring[d])
      BY <1>1, AnchoredInSession DEF InSession
    <3>2. ring'[d] = Reset(ring[d]) /\ \A e \in Side \ {d} : ring'[e] = ring[e]
      BY <2>1, <3>1, DrainAll DEF IInv, TypeOK
    <3> QED BY <3>1, <3>2, ResetAnchored
  <2>4. \A e \in Side \ {d} : Base(e)' = Base(e) /\ Announces(e)' = Announces(e)
    <3>1. ASSUME NEW e \in Side \ {d} PROVE Base(e)' = Base(e)
      <4>1. Len(out[e]) \in Nat
        BY <1>1, InDirection
      <4> QED BY <1>1, <1>2, <2>2, <4>1 DEF Base
    <3> QED BY <1>1, <3>1 DEF Announces
  <2>5. Base(d)' \in Ends(stream[d])
    <3>1. Base(d)' = got[d]
      <4>1. got'[d] = Base(d)' + ring'[d].count
        BY <2>1 DEF IInv, RingHoldsStream
      <4> QED BY <1>1, <1>5, <2>2, <2>3, <4>1
    <3>2. got[d] = b + 4 + HeaderAt(stream[d], b + 1)
      BY <1>3, <1>4, <1>7
    <3> QED BY <1>3, <1>4, <1>7, <3>1, <3>2, NextEnd
  <2>6. NothingYet' /\ AtBoundary' /\ OneMessage'
    <3>1. AtBoundary'
      BY <1>1, <2>4, <2>5 DEF FInv, AtBoundary
    <3> QED BY <2>1, <2>2, <3>1 DEF NothingYet, OneMessage
  <2>7. FrameKnown'
    <3>1. state'[d] = "psHeader"
      BY <1>1 DEF IInv, OneFrame
    <3>2. ASSUME NEW e \in Side \ {d}
          PROVE  /\ state'[e] = "psHeader" => ring'[e].count = 0
                 /\ state'[e] = "psBody" => remain'[e] = Announces(e)' + 4
      BY <1>1, <2>3, <2>4 DEF FInv, FrameKnown
    <3> QED BY <2>3, <3>1, <3>2 DEF FrameKnown
  <2> QED BY <1>8, <1>9, <2>6, <2>7 DEF FInv
<1> QED BY <1>10, <1>11

\* tcp_read found nothing: the frame is examined as it is.
LEMMA ReadNothingFraming ==
  ASSUME IInv, IInv', FInv, NEW d \in Side, ReadNothing(d)
  PROVE  FInv'
<1>1. /\ AtRead(d) /\ Framed(d, ring[d]) /\ UNCHANGED <<passthrough, stream, put, out>>
      /\ Running /\ InSession /\ ~ AtWrite(d)
  BY DEF ReadNothing, netVars, AtRead, Running, InSession, AtWrite
<1>2. ring[d] \in RingType /\ Anchored(ring[d])
  BY <1>1, AnchoredInSession
<1>3. state[d] = "psHeader" => ring[d].count \in {0, 4}
  BY <1>1 DEF FInv, FrameKnown
<1>4. ring' = [ring EXCEPT ![d] = ring[d]]
  <2>1. Normalize(ring[d], FALSE) = ring[d]
    BY <1>2, NormalizeAnchored
  <2> QED BY <1>1, <2>1 DEF Framed, Incomplete, HeaderIn, HeaderInvalid, BodyIn, BodyRejected
<1> QED BY <1>1, <1>2, <1>3, <1>4, ReadFraming

\* tcp_read stored bytes of one message: a whole header, or a part of a body.
LEMMA ReadSomeFraming ==
  ASSUME IInv, IInv', FInv, NEW d \in Side, ReadSome(d)
  PROVE  FInv'
<1> DEFINE n     == Lesser(Chunk(d), put[d] - got[d])
           bytes == SubSeq(stream[d], got[d] + 1, got[d] + n)
           r     == Fill(ring[d], bytes)
<1>1. /\ AtRead(d) /\ Framed(d, r) /\ UNCHANGED <<passthrough, stream, put, out>>
      /\ Running /\ InSession /\ ~ AtWrite(d) /\ pc = "read"
      /\ Readable(d) /\ Chunk(d) > 0 /\ Fits(d)
  BY DEF ReadSome, AtRead, Running, InSession, AtWrite
<1>2. ring[d] \in RingType /\ Anchored(ring[d])
  BY <1>1, AnchoredInSession
<1>3. /\ stream[d] \in Seq(Byte) /\ got[d] \in Nat /\ put[d] \in Nat /\ remain[d] \in Nat
      /\ put[d] <= Len(stream[d]) /\ ring[d].count \in Nat /\ got[d] = Base(d) + ring[d].count
      /\ Base(d) \in Int /\ Len(stream[d]) \in Nat
  BY <1>1, InDirection
<1>4. /\ n \in Nat /\ n > 0 /\ n <= put[d] - got[d] /\ n <= remain[d] - ring[d].count
      /\ n = put[d] - got[d] \/ n = remain[d] - ring[d].count
  <2>1. put[d] - got[d] > 0 /\ Chunk(d) = remain[d] - ring[d].count /\ Chunk(d) > 0
    BY <1>1, <1>3 DEF Readable, Chunk
  <2> QED BY SMTT(60), <1>3, <2>1 DEF Lesser
<1>5. n <= RingSize - ring[d].count
  <2>1. remain[d] - ring[d].count <= RingSize - ring[d].count
    BY <1>1, <1>2, RoomOfAnchored DEF Fits, Room, Chunk
  <2> HIDE DEF n
  <2> QED BY <1>3, <1>4, <2>1, RingAssumption
<1> HIDE DEF n
<1>6. bytes \in Seq(Byte) /\ Len(bytes) = n
  <2>1. got[d] + n <= Len(stream[d])
    BY SMTT(60), <1>3, <1>4
  <2> QED BY ZenonT(60), <1>3, <1>4, <2>1, NextBytes
<1> HIDE DEF bytes
<1>7. r \in RingType /\ Anchored(r) /\ r.count = ring[d].count + n
  BY <1>2, <1>4, <1>5, <1>6, FillAnchored
<1> HIDE DEF r
<1>8. state[d] = "psHeader" => r.count \in {0, 4}
  <2> SUFFICES ASSUME state[d] = "psHeader" PROVE r.count = 4
    OBVIOUS
  <2>1. ring[d].count = 0 /\ remain[d] = 4 /\ Base(d) \in Ends(stream[d])
    BY <1>1 DEF FInv, FrameKnown, AtBoundary, IInv, OneFrame
  <2>2. ~ (Base(d) < put[d] /\ put[d] < Base(d) + 4)
    BY <2>1 DEF FInv, HeadersWhole
  <2> QED BY <1>3, <1>4, <1>7, <2>1, <2>2
<1>9. ring' = [ring EXCEPT ![d] = r]
  <2>1. Normalize(r, FALSE) = r
    BY <1>7, NormalizeAnchored
  <2> QED BY <1>1, <2>1 DEF Framed, Incomplete, HeaderIn, HeaderInvalid, BodyIn, BodyRejected
<1> QED BY <1>1, <1>7, <1>8, <1>9, ReadFraming

-----------------------------------------------------------------------------
(* Theorems *)

\* Every step keeps the framing, when headers arrive in one piece.
LEMMA FramingStep ==
  ASSUME ~ SplitHeaders
  PROVE  IInv /\ IInv' /\ FInv /\ [Next]_vars => FInv'
<1> SUFFICES ASSUME IInv, IInv', FInv, [Next]_vars PROVE FInv'
  OBVIOUS
<1>1. CASE NewClient
  BY <1>1, NewClientFraming
<1>2. CASE Thread
  <2>1. CASE ConnectFails \/ Close
    BY <2>1, LeaveFraming DEF ConnectFails, Close
  <2>2. CASE ConnectStarts
    BY <2>2, ConnectFraming
  <2>3. ASSUME NEW d \in Side,
               NoRoom(d) \/ ReadFails(d) \/ SendTimesOut(d) \/ SendFails(d)
        PROVE  FInv'
    BY <2>3, LeaveFraming
       DEF NoRoom, ReadFails, SendTimesOut, SendFails, LeaveLoop, netVars
  <2>4. ASSUME NEW d \in Side, SendKills(d) PROVE FInv'
    BY <2>4, LeaveFraming DEF SendKills
  <2>5. ASSUME NEW d \in Side, ReadNothing(d) \/ ReadSome(d) PROVE FInv'
    BY <2>5, ReadNothingFraming, ReadSomeFraming
  <2>6. ASSUME NEW d \in Side, SendSome(d) PROVE FInv'
    BY <2>6, SendFraming
  <2> QED BY <1>2, <2>1, <2>2, <2>3, <2>4, <2>5, <2>6 DEF Thread
<1>3. CASE Network
  <2>1. ASSUME NEW d \in Side, PeerSends(d) PROVE FInv'
    BY <2>1, PeerSendsFraming
  <2>2. ASSUME UNCHANGED <<threadVars, stream, put, out>> PROVE FInv'
    <3>1. HeadersWhole'
      BY <2>2 DEF FInv, HeadersWhole
    <3> QED BY <2>2, <3>1, NetworkFraming
  <2> QED BY <1>3, <2>1, <2>2
          DEF Network, ServerAnswers, PeerReads, PeerHangsUp, PeerResets
<1>4. CASE UNCHANGED vars
  <2>1. HeadersWhole'
    BY <1>4 DEF vars, netVars, FInv, HeadersWhole
  <2> QED BY <1>4, <2>1, NetworkFraming DEF vars, netVars
<1> QED BY <1>1, <1>2, <1>3, <1>4 DEF Next, Finished

\* The boundaries the thread works with are those of the stream, in every
\* reachable state, when headers arrive in one piece.
THEOREM FrameInvariance ==
  ASSUME ~ SplitHeaders
  PROVE  Spec => []FInv
<1> QED BY Invariance, InitFraming, FramingStep, PTL DEF Spec

\* The body the thread waits for is as long as its header announces
\* (smbgw.c:94, 143-160), for every stream, ring and number of connections.
THEOREM Framing ==
  ASSUME ~ SplitHeaders
  PROVE  Spec => []FramingSound
<1>1. IInv /\ FInv => FramingSound
  <2> SUFFICES ASSUME IInv, FInv, Running, NEW d \in Side, state[d] = "psBody"
               PROVE  remain[d] = HeaderAt(ring[d].data, 0) + 4
    BY DEF FramingSound
  <2>1. ~ AtWrite(d)
    BY DEF IInv, OneFrame
  <2>2. remain[d] = Announces(d) + 4 /\ ring[d].count >= 4
    BY <2>1 DEF FInv, FrameKnown, IInv, OneFrame
  <2>3. /\ Base(d) \in Int /\ ring[d].count \in Nat
        /\ \A i \in 0 .. ring[d].count - 1 : ring[d].data[i] = stream[d][Base(d) + i + 1]
    BY InDirection
  <2>4. /\ ring[d].data[0] = stream[d][Base(d) + 1]
        /\ ring[d].data[0 + 1] = stream[d][Base(d) + 1 + 1]
        /\ ring[d].data[0 + 2] = stream[d][Base(d) + 1 + 2]
        /\ ring[d].data[0 + 3] = stream[d][Base(d) + 1 + 3]
    BY <2>2, <2>3
  <2>5. HeaderAt(ring[d].data, 0) = Announces(d)
    BY <2>4 DEF HeaderAt, Announces
  <2> QED BY <2>2, <2>5
<1> QED BY Invariance, FrameInvariance, <1>1, PTL

\* Between two writes each peer has received whole messages: nothing of a
\* message is handed on before all of it was read (smbgw.c:162-204).
THEOREM Whole ==
  ASSUME ~ SplitHeaders
  PROVE  Spec => []WholeMessages
<1>1. IInv /\ FInv => WholeMessages
  <2> SUFFICES ASSUME IInv, FInv, pc = "read", NEW d \in Side
               PROVE  Len(out[d]) \in Ends(stream[d])
    BY DEF WholeMessages
  <2> QED BY BaseAtRead DEF FInv, AtBoundary, Running
<1> QED BY Invariance, FrameInvariance, <1>1, PTL

\* A message smbproto_packet refuses is not handed on, not a byte of it,
\* unless the connection passes everything through (smbgw.c:162-181).
THEOREM Accepted ==
  ASSUME ~ SplitHeaders
  PROVE  Spec => []OnlyAccepted
<1>1. FInv => OnlyAccepted
  BY DEF FInv
<1> QED BY FrameInvariance, <1>1, PTL

=============================================================================
