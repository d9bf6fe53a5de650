------------------------------- MODULE MCPump -------------------------------
(***************************************************************************)
(* Small instances of Pump.  A byte has three values: 1 starts an SMB1 and *)
(* 2 an SMB2 message, 0 neither; lengths up to 8 pass the header check.    *)
(***************************************************************************)
EXTENDS Pump

\* A body behind its direct-TCP header.
Frame(body) == <<0, 0, Len(body) \div 3, Len(body) % 3>> \o body

Pair(c, s) == [client |-> c, server |-> s]

\* A request and its answer.
Exchange == Pair(Frame(<<2>>), Frame(<<1, 0>>))

\* Two requests in a row, and an announcement the peer never completes.
Pipelined == Pair(Frame(<<2>>) \o Frame(<<1, 2>>), <<0, 0>>)

\* An empty message, followed by another or not.
EmptyMessages == Pair(Frame(<<>>) \o Frame(<<2>>), Frame(<<>>))

\* A message that fills the ring to its last byte.
FullRing == Pair(Frame(<<1, 2, 0, 1, 2>>), <<>>)

\* A header that is accepted for a body no ring can hold, and an invalid header.
TooLong == Pair(<<0, 0, 2, 1, 2, 0, 0, 0, 0, 0>>, <<1, 0, 0, 0>>)

\* Messages smbproto_packet refuses: no SMB message, and a short SMB1 header.
Refused == Pair(Frame(<<2>>) \o Frame(<<0, 1>>), Frame(<<1>>))

AllStreams == {Exchange, Pipelined, EmptyMessages, FullRing, TooLong, Refused}

\* For two connections in a row.
ReuseStreams == {Exchange, EmptyMessages, FullRing, TooLong, Pair(<<0, 1>>, Frame(<<1>>))}
=============================================================================
