-------------------------------- MODULE Pump --------------------------------
(***************************************************************************)
(* One connection thread of the proxy, smbgw_thread of smbgw.c, with the   *)
(* tcp_connect, tcp_read and tcp_write of gwtcp.c it calls and the two     *)
(* peers it runs against.  The thread serves one client after another: it  *)
(* waits for a client socket, connects to the server, and then takes turns *)
(* reading from the client and from the server.  Each direction d (named   *)
(* for the origin of its bytes) has a ring and a frame state: four header  *)
(* bytes, then the announced body; a complete message is validated and     *)
(* written to the other side before the next turn.                         *)
(*                                                                         *)
(* An action is what the thread does up to and including one system call   *)
(* and the computation on its result: nothing else touches its state       *)
(* between two system calls.  recv and send move as many bytes as they can *)
(* at once; how the bytes of a stream arrive is up to the peers, which     *)
(* send, read, hang up and reset as they like.                             *)
(***************************************************************************)
EXTENDS Ring, FiniteSetsExt

CONSTANTS
  MaxHeader,     \* largest length a header may announce (0x1FFFFF)
  V1, V2,        \* first byte of an SMB1 and of an SMB2 message (0xFF, 0xFE)
  HdrV1, HdrV2,  \* sizes of struct smb_header and struct smb2_header
  Streams,       \* what the peers of a connection may send
  Modes,         \* values of the passthrough flag
  Stale,         \* what a ring's memory may hold before the first connection
  SockCap,       \* bytes the kernel holds for a socket in either direction
  MaxSessions,   \* bound on the number of connections
  SplitHeaders   \* whether a message header may arrive in several pieces

Side     == {"client", "server"}
Other(d) == IF d = "client" THEN "server" ELSE "client"

Lesser(a, b) == IF a <= b THEN a ELSE b

ASSUME PumpAssumption ==
  /\ MaxHeader \in Nat
  /\ V1 \in Byte /\ V2 \in Byte
  /\ HdrV1 \in Nat \ {0} /\ HdrV2 \in Nat \ {0}
  /\ Streams \subseteq [Side -> Seq(Byte)]
  /\ Modes \subseteq BOOLEAN
  /\ Stale \subseteq Byte
  /\ SockCap \in Nat \ {0}
  /\ MaxSessions \in Nat
  /\ SplitHeaders \in BOOLEAN

VARIABLES
  pc,          \* where the thread is
  turn,        \* the direction being read or written
  sent,        \* bytes of the current message tcp_write has sent
  ring,        \* client_ring and server_ring
  state,       \* clientPacketState and serverPacketState
  remain,      \* clientPacketRemain and serverPacketRemain
  passthrough, \* the connection's passthrough flag
  served,      \* connections started so far
  peer,        \* the connection to each peer, as the kernel sees it
  stream,      \* stream[d]: everything peer d will send
  put,         \* put[d]: bytes of it that peer d has sent
  got,         \* got[d]: bytes of it that recv has returned
  out,         \* out[d]: bytes of it handed to send
  taken        \* taken[d]: bytes of out[d] the other peer has read

threadVars == <<pc, turn, sent, ring, state, remain, passthrough, served>>
netVars    == <<peer, stream, put, got, out, taken>>
vars       == <<threadVars, netVars>>

Locations  == {"wait", "connect", "read", "write", "close", "killed"}

\* "rst": the connection failed and the next call on it reports an error.
\* "gone": it was reset after the peer had hung up ("fin"), so that send
\* reports a broken pipe.
PeerStates == {"none", "connecting", "up", "fin", "rst", "gone"}

Running   == pc \in {"read", "write"}
InSession == Running \/ pc = "connect"

TypeOK ==
  /\ pc \in Locations
  /\ turn \in Side
  /\ sent \in Nat
  /\ ring \in [Side -> RingType]
  /\ state \in [Side -> {"psHeader", "psBody"}]
  /\ remain \in [Side -> Nat]
  /\ passthrough \in BOOLEAN
  /\ served \in Nat
  /\ peer \in [Side -> PeerStates]
  /\ stream \in [Side -> Seq(Byte)]
  /\ put \in [Side -> Nat]
  /\ got \in [Side -> Nat]
  /\ out \in [Side -> Seq(Byte)]
  /\ taken \in [Side -> Nat]

-----------------------------------------------------------------------------
\* ntohl of the four bytes of f from index i on.
HeaderAt(f, i) == ((f[i] * Radix + f[i + 1]) * Radix + f[i + 2]) * Radix + f[i + 3]

\* smbproto_packet returns 0.  Of the four protocol id bytes the first is kept.
\* The messages are single ones: what the handlers of their commands return is
\* dropped, and there is no second SMB2 header to refuse.
PacketOK(pkt) ==
  /\ Len(pkt) >= 1
  /\ \/ pkt[1] = V1 /\ Len(pkt) >= HdrV1
     \/ pkt[1] # V1 /\ pkt[1] = V2 /\ Len(pkt) >= HdrV2

\* Faulty form of Packet: the length still counts the header.
Overlong(r) == [i \in 1 .. ReadAvail(r) |-> r.data[(r.tail + 3 + i) % RingSize]]

\* The message in ring r without its direct-TCP header.
Packet(r) == [i \in 1 .. ReadAvail(r) - 4 |-> r.data[r.tail + 3 + i]]

\* Positions of stream s at which a message starts or ends.
Ends(s) ==
  LET end[n \in 0 .. Len(s)] ==
        n = 0 \/ \E m \in 0 .. n - 4 : end[m] /\ m + 4 + HeaderAt(s, m + 1) = n
  IN {n \in 0 .. Len(s) : end[n]}

-----------------------------------------------------------------------------
\* smbgw_proxy_init: the rings are allocated, never cleared.
Init ==
  /\ pc = "wait" /\ turn = "client" /\ sent = 0
  /\ \E fill \in [Side -> [Slots -> Stale]] :
       ring = [d \in Side |-> [head |-> 0, tail |-> 0, count |-> 0, data |-> fill[d]]]
  /\ state = [d \in Side |-> "psHeader"]
  /\ remain = [d \in Side |-> 0]
  /\ passthrough = FALSE
  /\ served = 0
  /\ peer = [d \in Side |-> "none"]
  /\ stream = [d \in Side |-> <<>>]
  /\ put = [d \in Side |-> 0]
  /\ got = [d \in Side |-> 0]
  /\ out = [d \in Side |-> <<>>]
  /\ taken = [d \in Side |-> 0]

\* Faulty form of RingsReset: a connection keeps what the last one left.
RingsKept  == UNCHANGED ring
RingsReset == ring' = [d \in Side |-> Reset(ring[d])]

\* smbgw_proxy_start hands the waiting thread a new client.
NewClient ==
  /\ pc = "wait" /\ served < MaxSessions
  /\ pc' = "connect"
  /\ served' = served + 1
  /\ RingsReset
  /\ passthrough' \in Modes
  /\ peer' = [peer EXCEPT !["client"] = "up"]
  /\ stream' \in Streams
  /\ put' = [d \in Side |-> 0]
  /\ got' = [d \in Side |-> 0]
  /\ out' = [d \in Side |-> <<>>]
  /\ taken' = [d \in Side |-> 0]
  /\ UNCHANGED <<turn, sent, state, remain>>

\* tcp_connect fails at once: the client is closed and the thread waits again.
ConnectFails ==
  /\ pc = "connect"
  /\ pc' = "wait"
  /\ peer' = [d \in Side |-> "none"]
  /\ UNCHANGED <<turn, sent, ring, state, remain, passthrough, served,
                 stream, put, got, out, taken>>

\* tcp_connect returns a socket whose connection may still be in progress.
ConnectStarts ==
  /\ pc = "connect"
  /\ pc' = "read" /\ turn' = "client" /\ sent' = 0
  /\ \E s \in {"connecting", "up"} : peer' = [peer EXCEPT !["server"] = s]
  /\ state' = [d \in Side |-> "psHeader"]
  /\ remain' = [d \in Side |-> 4]
  /\ UNCHANGED <<ring, passthrough, served, stream, put, got, out, taken>>

\* Faulty form of NextTurn: the same direction is read again.
SameTurn(d) == pc' = "read" /\ turn' = d /\ sent' = 0

NextTurn(d) == pc' = "read" /\ turn' = Other(d) /\ sent' = 0

LeaveLoop == pc' = "close" /\ UNCHANGED <<turn, sent>>

-----------------------------------------------------------------------------
(* What follows a read in direction d, r being the ring it left. *)

\* More bytes of the header or of the body are wanted.
Incomplete(d, r) ==
  /\ r.count # remain[d]
  /\ ring' = [ring EXCEPT ![d] = r]
  /\ NextTurn(d)
  /\ UNCHANGED <<state, remain>>

\* Faulty form of Announced: no ntohl.
Unswapped(d, r) == HeaderAt([i \in 0 .. 3 |-> r.data[ring[d].head + 3 - i]], 0)

\* The length is taken from where the last read stored its bytes, whether or
\* not it stored all four of the header.
Announced(d, r) == HeaderAt(r.data, ring[d].head)

FrameLength(d, r) == Announced(d, r) + 4

\* The fourth header byte is in.
HeaderIn(d, r) ==
  /\ r.count = remain[d] /\ state[d] = "psHeader"
  /\ Announced(d, r) <= MaxHeader
  /\ ring' = [ring EXCEPT ![d] = r]
  /\ state' = [state EXCEPT ![d] = "psBody"]
  /\ remain' = [remain EXCEPT ![d] = FrameLength(d, r)]
  /\ NextTurn(d)

HeaderInvalid(d, r) ==
  /\ r.count = remain[d] /\ state[d] = "psHeader"
  /\ Announced(d, r) > MaxHeader
  /\ ring' = [ring EXCEPT ![d] = r]
  /\ LeaveLoop
  /\ UNCHANGED <<state, remain>>

\* The body is in and validates, or is not looked at: write it out.  The ring
\* holds at least the header, so that there always is something to write.
BodyIn(d, r) ==
  /\ r.count = remain[d] /\ state[d] = "psBody"
  /\ LET n == Normalize(r, FALSE) IN
       /\ passthrough \/ PacketOK(Packet(n))
       /\ ring' = [ring EXCEPT ![d] = n]
  /\ state' = [state EXCEPT ![d] = "psHeader"]
  /\ remain' = [remain EXCEPT ![d] = 4]
  /\ pc' = "write" /\ sent' = 0 /\ UNCHANGED turn

BodyRejected(d, r) ==
  /\ r.count = remain[d] /\ state[d] = "psBody"
  /\ LET n == Normalize(r, FALSE) IN
       /\ ~ passthrough /\ ~ PacketOK(Packet(n))
       /\ ring' = [ring EXCEPT ![d] = n]
  /\ LeaveLoop
  /\ UNCHANGED <<state, remain>>

Framed(d, r) ==
  \/ Incomplete(d, r)
  \/ HeaderIn(d, r)
  \/ HeaderInvalid(d, r)
  \/ BodyIn(d, r)
  \/ BodyRejected(d, r)

-----------------------------------------------------------------------------
(* The read of direction d: never more than what the frame still wants. *)

AtRead(d)   == pc = "read" /\ turn = d
Room(d)     == WriteRoom(ring[d])
Chunk(d)    == remain[d] - ring[d].count
Readable(d) == got[d] < put[d]

\* Faulty form of Fits: the sanity check is gone.
Unchecked(d) == TRUE
Fits(d)      == Room(d) >= Chunk(d)

\* recv reports an error, or returns 0 and tcp_read takes it for a hang-up:
\* the peer hung up and all its bytes are read, or recv was asked for zero
\* bytes while some had arrived.
Broken(d) == peer[d] \in {"rst", "gone"}
NoMore(d) ==
  \/ Broken(d)
  \/ peer[d] = "fin" /\ ~ Readable(d)
  \/ Readable(d) /\ Chunk(d) = 0

\* The frame does not fit the ring: "Internal Error: client buffer size".
NoRoom(d) ==
  /\ AtRead(d) /\ ~ Fits(d)
  /\ LeaveLoop
  /\ UNCHANGED <<ring, state, remain, passthrough, served, netVars>>

\* tcp_read: select finds nothing to read; the frame is examined all the same.
ReadNothing(d) ==
  /\ AtRead(d) /\ Fits(d)
  /\ peer[d] \in {"connecting", "up"} /\ ~ Readable(d)
  /\ Framed(d, ring[d])
  /\ UNCHANGED <<passthrough, served, netVars>>

\* tcp_read: recv returns what has arrived, up to the chunk.
ReadSome(d) ==
  /\ AtRead(d) /\ Fits(d)
  /\ Readable(d) /\ Chunk(d) > 0
  /\ LET n == Lesser(Chunk(d), put[d] - got[d]) IN
       /\ Framed(d, Fill(ring[d], SubSeq(stream[d], got[d] + 1, got[d] + n)))
       /\ got' = [got EXCEPT ![d] = @ + n]
  /\ UNCHANGED <<passthrough, served, peer, stream, put, out, taken>>

\* tcp_read returns an error.
ReadFails(d) ==
  /\ AtRead(d) /\ Fits(d) /\ NoMore(d)
  /\ LeaveLoop
  /\ UNCHANGED <<ring, state, remain, passthrough, served, netVars>>

-----------------------------------------------------------------------------
(* The write of direction d: the loop of tcp_write. *)

AtWrite(d)  == pc = "write" /\ turn = d
SendRoom(d) == SockCap - (Len(out[d]) - taken[d])
Writable(d) == peer[Other(d)] \in {"up", "fin"} /\ SendRoom(d) > 0

\* One send, of as much as the socket accepts; the last one empties the ring.
SendSome(d) ==
  /\ AtWrite(d) /\ Writable(d)
  /\ LET r    == ring[d]
         want == ReadAvail(r) - sent
         n    == Lesser(want, SendRoom(d))
     IN /\ out' = [out EXCEPT ![d] = @ \o [i \in 1 .. n |-> r.data[r.tail + sent + i - 1]]]
        /\ \/ n < want
              /\ sent' = sent + n
              /\ UNCHANGED <<pc, turn, ring>>
           \/ n = want
              /\ ring' = [ring EXCEPT ![d] = Drain(r, ReadAvail(r))]
              /\ NextTurn(d)
  /\ UNCHANGED <<state, remain, passthrough, served, peer, stream, put, got, taken>>

\* send reports that the connection failed.
SendFails(d) ==
  /\ AtWrite(d) /\ peer[Other(d)] = "rst"
  /\ LeaveLoop
  /\ UNCHANGED <<ring, state, remain, passthrough, served, netVars>>

\* select times out after 15 s: the other side does not read, or its
\* connection is still in progress.
SendTimesOut(d) ==
  /\ AtWrite(d)
  /\ peer[Other(d)] \in {"connecting", "up", "fin"} /\ ~ Writable(d)
  /\ LeaveLoop
  /\ UNCHANGED <<ring, state, remain, passthrough, served, netVars>>

\* send on a broken pipe raises SIGPIPE, which nothing in the program handles:
\* the process ends, and the kernel closes its sockets.
SendKills(d) ==
  /\ AtWrite(d) /\ peer[Other(d)] = "gone"
  /\ pc' = "killed"
  /\ peer' = [e \in Side |-> "none"]
  /\ UNCHANGED <<turn, sent, ring, state, remain, passthrough, served,
                 stream, put, got, out, taken>>

\* Both sockets are closed and the thread waits for the next client.
Close ==
  /\ pc = "close"
  /\ pc' = "wait"
  /\ peer' = [d \in Side |-> "none"]
  /\ UNCHANGED <<turn, sent, ring, state, remain, passthrough, served,
                 stream, put, got, out, taken>>

Thread ==
  \/ ConnectFails \/ ConnectStarts \/ Close
  \/ \E d \in Side :
       \/ NoRoom(d) \/ ReadNothing(d) \/ ReadSome(d) \/ ReadFails(d)
       \/ SendSome(d) \/ SendTimesOut(d) \/ SendFails(d) \/ SendKills(d)

-----------------------------------------------------------------------------
(* The peers and the network. *)

\* More of the stream arrives: a byte, or the four bytes of a header.
Segment(d) == IF ~ SplitHeaders /\ put[d] \in Ends(stream[d]) THEN 4 ELSE 1

PeerSends(d) ==
  /\ peer[d] = "up"
  /\ put[d] + Segment(d) <= Len(stream[d])
  /\ put[d] + Segment(d) - got[d] <= SockCap
  /\ put' = [put EXCEPT ![d] = @ + Segment(d)]
  /\ UNCHANGED <<threadVars, peer, stream, got, out, taken>>

\* A peer that hung up may still read (a half-closed connection).
PeerReads(d) ==
  /\ peer[Other(d)] \in {"up", "fin"}
  /\ taken[d] < Len(out[d])
  /\ taken' = [taken EXCEPT ![d] = Len(out[d])]
  /\ UNCHANGED <<threadVars, peer, stream, put, got, out>>

ServerAnswers ==
  /\ peer["server"] = "connecting"
  /\ \E s \in {"up", "rst"} : peer' = [peer EXCEPT !["server"] = s]
  /\ UNCHANGED <<threadVars, stream, put, got, out, taken>>

PeerHangsUp(d) ==
  /\ peer[d] = "up"
  /\ peer' = [peer EXCEPT ![d] = "fin"]
  /\ UNCHANGED <<threadVars, stream, put, got, out, taken>>

PeerResets(d) ==
  /\ peer[d] \in {"up", "fin"}
  /\ peer' = [peer EXCEPT ![d] = IF @ = "up" THEN "rst" ELSE "gone"]
  /\ UNCHANGED <<threadVars, stream, put, got, out, taken>>

Network ==
  \/ ServerAnswers
  \/ \E d \in Side : PeerSends(d) \/ PeerReads(d) \/ PeerHangsUp(d) \/ PeerResets(d)

\* The bound on connections is used up, or the process was killed.
Finished ==
  /\ pc = "killed" \/ (pc = "wait" /\ served = MaxSessions)
  /\ UNCHANGED vars

Next == NewClient \/ Thread \/ Network \/ Finished

Spec == Init /\ [][Next]_vars

\* The thread keeps running; the peers and the next client owe nothing.
FairSpec == Spec /\ WF_vars(Thread)

-----------------------------------------------------------------------------
(* Properties *)

\* What reached one peer is a prefix of what the other one sent, whatever the
\* pieces it arrived in, the partial sends and the connections before this one
\* (smbgw_thread's forwarding of the rings, the resets of smbgw_proxy_start).
StreamIntegrity ==
  \A d \in Side :
    /\ Len(out[d]) <= Len(stream[d])
    /\ \A i \in 1 .. Len(out[d]) : out[d][i] = stream[d][i]

\* How much of the stream had been handed on when the ring was last empty.
Base(d) == Len(out[d]) - (IF AtWrite(d) THEN sent ELSE 0)

\* The ring holds exactly the bytes received and not yet handed on, so that
\* dropping or resetting it between two messages would lose nothing
\* (smbgw.c:120-121 and 190-201 account for what recv and send moved).
RingHoldsStream ==
  /\ \A d \in Side : got[d] <= put[d] /\ put[d] <= Len(stream[d])
  /\ InSession => \A d \in Side :
       /\ got[d] = Base(d) + ring[d].count
       /\ \A i \in 0 .. ring[d].count - 1 : ring[d].data[i] = stream[d][Base(d) + i + 1]

\* The ring never wraps inside the loop: the message starts at index 0, so the
\* pointer given to smbproto_packet and to tcp_write covers all of it
\* (smbgw.c:164, 183).
RingAnchored ==
  InSession => \A d \in Side :
    /\ ring[d].tail = 0
    /\ ring[d].head = (IF ring[d].count = RingSize THEN 0 ELSE ring[d].count)

\* The thread never reads past the frame it is in: no byte of the next message
\* is in the ring while a message is read, validated or written, and none of a
\* connection before this one (smbgw.c:107, 136, 456).
OneFrame ==
  /\ pc = "connect" => \A d \in Side : ring[d].count = 0
  /\ Running => \A d \in Side :
       IF AtWrite(d)
       THEN /\ state[d] = "psHeader" /\ remain[d] = 4
            /\ sent < ring[d].count
       ELSE /\ ring[d].count <= remain[d]
            /\ state[d] = "psHeader" => remain[d] = 4 /\ ring[d].count < 4
            /\ state[d] = "psBody" => remain[d] >= 4 /\ ring[d].count >= 4

\* The body the thread waits for has the length the message's header announces
\* (smbgw.c:94: a 4 byte direct-TCP header, 1 byte 0 and 3 bytes length).
FramingSound ==
  Running => \A d \in Side :
    state[d] = "psBody" => remain[d] = HeaderAt(ring[d].data, 0) + 4

\* Between two writes each side has received whole messages only.
WholeMessages ==
  pc = "read" => \A d \in Side : Len(out[d]) \in Ends(stream[d])

\* No byte of a message that smbproto_packet refuses reaches the other side,
\* unless the connection passes everything through.
OnlyAccepted ==
  ~ passthrough =>
    \A d \in Side : \A e \in Ends(stream[d]) :
      e < Len(out[d]) =>
        PacketOK(SubSeq(stream[d], e + 5, e + 4 + HeaderAt(stream[d], e + 1)))

\* gwtcp.c:321: "0 count after select > 0 means socket closed".  A connection
\* is given up on a read only when its peer hung up or failed.
ZeroMeansClosed == [][\A d \in Side : ReadFails(d) => peer[d] # "up"]_vars

\* A message all of whose bytes were sent reaches the other side, or the
\* connection ends.
LongestStream == Max({0} \cup {Len(s[d]) : s \in Streams, d \in Side})

Arrived(d, n) == Running /\ n \in Ends(stream[d]) /\ n <= put[d]

Delivered ==
  \A d \in Side : \A n \in 1 .. LongestStream :
    Arrived(d, n) ~> (Len(out[d]) >= n \/ ~ Running)

\* A connection whose peer hung up or failed is torn down, and the thread is
\* free for another client.
HangUpFreesThread ==
  \A d \in Side : (peer[d] \in {"fin", "rst", "gone"}) ~> (peer[d] = "none")

\* A write ends, also when both peers have stopped reading because their own
\* sends are stuck behind it.
WriteEnds == (pc = "write") ~> (pc # "write")

\* The connection implements the two pipes of Relay.
Pipes == INSTANCE Relay WITH
  live <- pc \notin {"wait", "killed"}, source <- stream, pulled <- got, sink <- out

RelayRefined == Pipes!RelaySpec

=============================================================================
