------------------------------ MODULE SmbProto ------------------------------
(***************************************************************************)
(* smbproto.c: the walk of smbproto_packet over one message, which decides *)
(* if the connection thread forwards it.  An SMB1 message has one header;  *)
(* its commands form a chain of ANDX blocks, each naming the command that  *)
(* follows and where its parameters are.  An SMB2 message is a compound of *)
(* headers, each telling how far the next one is.  One action is one       *)
(* iteration of a loop.                                                    *)
(*                                                                         *)
(* A message is a record: its length in bytes, and its headers and links   *)
(* by the offset they stand at.  Only what the walk reads is in it.  A     *)
(* link has its offset as the code reads it, two bytes, the high one first *)
(* (smbproto.c:411-413).  The code tests no offset: links may lead behind  *)
(* the end of the message, where the walk reads whatever the memory holds, *)
(* and those of a chain may lead back.  So the record describes the memory *)
(* from the message on, as far as the walk can come; nothing writes it     *)
(* during the call.                                                        *)
(***************************************************************************)
EXTENDS Integers, Sequences, FiniteSets

CONSTANTS
  Hdr1,       \* sizeof(struct smb_header): 32
  Hdr2,       \* sizeof(struct smb2_header): 64
  Andx,       \* the commands smbproto_is_andx_command knows
  Setup,      \* SMB_COM_SESSION_SETUP_ANDX
  End,        \* 0xFF, the command that ends a chain
  NonExt,     \* sizeof(struct smb_session_nonext_setup_request_params): 22
  Ext,        \* sizeof(struct smb_session_ext_setup_request_params): 20
  CountLimit, \* byte_count and word_count wrap there: 2^32
  Empty,      \* the place of the empty string, which no offset of two bytes names
  MaxVisits,  \* bound: how many commands of a chain are looked at
  Messages    \* the messages that may come

\* Where the parameters of the first SMB1 command are.
Start(m) == IF m.bytes > Hdr1 THEN Hdr1 + 1 ELSE Empty

\* The ANDX block of every command that the walk of a chain can come to is
\* described, wherever it is.
ChainClosed(m) ==
  /\ m.header[0].words \in 0 .. 255
  /\ m.bytes >= Hdr1 /\ m.header[0].command \in Andx => Start(m) \in DOMAIN m.link
  /\ \A o \in DOMAIN m.link : LET next == m.link[o] IN
       next.command # End => /\ next.offset \in Nat
                             /\ next.command \in Andx => next.offset \in DOMAIN m.link

\* So is every header that those of a compound lead to.  (The distance to the
\* next one is unsigned: they lead forward.)
CompoundClosed(m) ==
  \A o \in DOMAIN m.header : LET next == m.header[o].next IN
    /\ next \in Nat
    /\ next # 0 => o + next \in DOMAIN m.header

Message(m) ==
  /\ m.bytes \in 0 .. CountLimit - 1
  /\ 0 \in DOMAIN m.header /\ DOMAIN m.header \subseteq Nat /\ IsFiniteSet(DOMAIN m.header)
  /\ DOMAIN m.link \subseteq Nat /\ IsFiniteSet(DOMAIN m.link)
  /\ \A o \in DOMAIN m.header : m.header[o].id \in BOOLEAN
  /\ IF m.proto = "FF" THEN ChainClosed(m) ELSE CompoundClosed(m)

ASSUME SmbAssumption ==
  /\ Hdr1 \in Nat \ {0} /\ Hdr2 \in Nat \ {0} /\ NonExt \in Nat /\ Ext \in Nat
  /\ Setup \in Andx /\ End \notin Andx
  /\ CountLimit \in Nat \ {0} /\ Empty \in Nat /\ MaxVisits \in Nat
  /\ \A m \in Messages : Message(m)

VARIABLES
  msg,        \* the packet: pkt and bytes
  isclient,   \* it came from the client
  pc,         \* "packet", in the loop of "v1" or "v2", or "done"
  command,    \* next_command of the v1 loop
  params,     \* offset of the v1 parameters
  words,      \* word_count
  pktptr,     \* as an offset
  byteCount,  \* byte_count
  handled,    \* history: what was passed to the command handlers, in order
  result      \* what smbproto_packet returns

walk == <<command, params, words, pktptr, byteCount, handled>>
vars == <<msg, isclient, pc, walk, result>>

TypeOK ==
  /\ msg \in Messages /\ isclient \in BOOLEAN
  /\ pc \in {"packet", "v1", "v2", "done"} /\ result \in {0, -1}
  /\ params \in Nat /\ pktptr \in Nat
  /\ words \in 0 .. 255 /\ byteCount \in 0 .. CountLimit - 1

\* Faulty form of Minus: the difference keeps its sign.
Signed(a, b) == a - b
Minus(a, b)  == (a - b) % CountLimit

Init ==
  /\ msg \in Messages /\ isclient \in BOOLEAN
  /\ pc = "packet" /\ result = 0
  /\ command = End /\ params = 0 /\ words = 0 /\ pktptr = 0 /\ byteCount = 0
  /\ handled = <<>>

Return(r) == pc' = "done" /\ result' = r

\* Too few bytes for a look at the first one, or for a header.
TooShort ==
  /\ pc = "packet"
  /\ msg.bytes < 1 \/ msg.bytes < (IF msg.proto = "FF" THEN Hdr1 ELSE Hdr2)
  /\ Return(-1)
  /\ UNCHANGED <<msg, isclient, walk>>

Enough(size) == pc = "packet" /\ msg.bytes >= size

BadV1Header ==
  /\ msg.proto = "FF" /\ Enough(Hdr1) /\ ~ msg.header[0].id
  /\ Return(-1)
  /\ UNCHANGED <<msg, isclient, walk>>

\* The parameter block follows the header, if there are bytes left; it is a
\* count of words and the words.  If not, the parameters are the empty string.
EnterV1 ==
  /\ msg.proto = "FF" /\ Enough(Hdr1) /\ msg.header[0].id
  /\ pc' = "v1" /\ command' = msg.header[0].command
  /\ IF msg.bytes = Hdr1
     THEN /\ words' = 0 /\ byteCount' = 0
          /\ params' = Empty
          /\ pktptr' = Hdr1
     ELSE /\ words' = msg.header[0].words
          /\ params' = Hdr1 + 1
          /\ pktptr' = Hdr1 + 1 + 2 * words'
          /\ byteCount' = Minus(msg.bytes - Hdr1 - 1, 2 * words')
  /\ UNCHANGED <<msg, isclient, handled, result>>

EnterV2 ==
  /\ msg.proto # "FF" /\ Enough(Hdr2)
  /\ pc' = "v2" /\ byteCount' = msg.bytes
  /\ UNCHANGED <<msg, isclient, command, params, words, pktptr, handled, result>>

IsAndx(c) == c \in Andx

\* A session setup of the client with a parameter block of another length is
\* refused, and the refusal is not returned.
Refuses(c, bytes) == c = Setup /\ isclient /\ bytes \notin {NonExt, Ext}

ParamBytes(c) == IF IsAndx(c) THEN (words - 1) * 2 ELSE words * 2

\* Faulty form of Follow: the parameters of the next command are not looked for.
StaysAt(link) == command' = link.command /\ UNCHANGED params
Follow(link)  ==
  /\ command' = link.command
  /\ params' = IF link.command # End THEN link.offset ELSE params

\* Faulty form of EndChain: a command without a block does not end the chain.
Unended  == UNCHANGED <<command, params>>
EndChain == command' = End /\ UNCHANGED params

\* smbproto_handle_v1_command: nothing but a session setup is looked into.
V1Handler(c) == [at |-> params, command |-> c, rest |-> byteCount,
                 refused |-> Refuses(c, ParamBytes(c))]

V1Command ==
  /\ pc = "v1" /\ Len(handled) < MaxVisits
  /\ handled' = Append(handled, V1Handler(command))
  /\ IF IsAndx(command) THEN Follow(msg.link[params]) ELSE EndChain
  /\ IF command' = End THEN Return(0) ELSE UNCHANGED <<pc, result>>
  /\ UNCHANGED <<msg, isclient, words, pktptr, byteCount>>

BadV2Header ==
  /\ pc = "v2" /\ ~ msg.header[pktptr].id
  /\ Return(-1)
  /\ UNCHANGED <<msg, isclient, walk>>

\* Faulty form of Last: only the first header is looked at.
Single(next) == TRUE
Last(next)   == next = 0

\* smbproto_handle_v2_command returns 0 whatever the command is.
V2Handler(rest) == [at |-> pktptr, command |-> End, rest |-> rest]

V2Command ==
  /\ pc = "v2" /\ msg.header[pktptr].id
  /\ LET next == msg.header[pktptr].next IN
       /\ byteCount' = Minus(byteCount, Hdr2)
       /\ handled' = Append(handled, V2Handler(byteCount'))
       /\ pktptr' = pktptr + next
       /\ IF Last(next) THEN Return(0) ELSE UNCHANGED <<pc, result>>
  /\ UNCHANGED <<msg, isclient, command, params, words>>

\* The packet is judged, or its chain is followed as far as MaxVisits allows.
Finished ==
  /\ pc = "done" \/ (pc = "v1" /\ Len(handled) >= MaxVisits)
  /\ UNCHANGED vars

Next ==
  \/ TooShort \/ BadV1Header \/ EnterV1 \/ EnterV2
  \/ V1Command \/ BadV2Header \/ V2Command
  \/ Finished

\* Nothing in the walk waits: a thread that runs goes on with it.
Spec == Init /\ [][Next]_vars /\ WF_vars(Next)

-----------------------------------------------------------------------------
(* Properties *)

Header(m) == IF m.proto = "FF" THEN Hdr1 ELSE Hdr2

First(m) == IF m.proto = "FF" THEN [command |-> m.header[0].command, place |-> Start(m)]
                              ELSE [command |-> End, place |-> 0]

\* What the links of message m lead to from a command, the next one and the
\* place of its parameters, or from a header, the place of the next one.
Goals(m, at) ==
  IF m.proto = "FF"
  THEN IF at.command \in Andx /\ m.link[at.place].command # End
       THEN {[command |-> m.link[at.place].command, place |-> m.link[at.place].offset]}
       ELSE {}
  ELSE IF m.header[at.place].next # 0
       THEN {[command |-> End, place |-> at.place + m.header[at.place].next]}
       ELSE {}

\* A walk that does not come back to a place it has seen takes fewer steps.
Hops(m) == Cardinality(DOMAIN m.link) + Cardinality(DOMAIN m.header)

\* What they lead to from the first command or header on.
Linked(m) ==
  LET reach[n \in 0 .. Hops(m)] ==
        IF n = 0 THEN {First(m)}
        ELSE reach[n - 1] \cup UNION {Goals(m, at) : at \in reach[n - 1]}
  IN reach[Hops(m)]

\* A message is accepted if and only if it is as long as its header and every
\* header its links lead to has the protocol's mark, whatever the handlers say
\* of its commands (smbproto.c:326-508; its verdict drops the connection).
VerdictExact ==
  pc = "done" =>
    (result = 0 <=> /\ msg.bytes >= Header(msg)
                    /\ msg.proto = "FF" => msg.header[0].id
                    /\ msg.proto # "FF" => \A at \in Linked(msg) : msg.header[at.place].id)

\* What a handler was called for.
Node(visit) == [command |-> visit.command, place |-> visit.at]

\* The handlers are called along the links, from the first command or header
\* on.  When the message is accepted, each command the links lead to was given
\* to one once: none is left out and none comes twice, wherever the links point
\* (smbproto.c:396-426, 455-486).
HandledOnce ==
  /\ handled # <<>> => Node(handled[1]) = First(msg)
  /\ \A i \in 1 .. Len(handled) - 1 : Node(handled[i + 1]) \in Goals(msg, Node(handled[i]))
  /\ pc = "done" /\ result = 0 =>
       /\ {Node(handled[i]) : i \in 1 .. Len(handled)} = Linked(msg)
       /\ Len(handled) = Cardinality(Linked(msg))

\* The walk comes to an end unless the links of a chain lead in a circle: then
\* no command it comes to is the last one, and the loop has no other way out
\* (smbproto.c:396-426, 455-486).
WalkEnds == (\E at \in Linked(msg) : Goals(msg, at) = {}) ~> pc = "done"

\* smbproto.c:384 says word_count is the "number of parameter words (16 bits
\* each)", the two of the ANDX header among them (smbproto.c:400).  A session
\* setup with as many words as its structure has is understood.
SetupUnderstood ==
  \A i \in 1 .. Len(handled) :
    i = 1 /\ msg.proto = "FF" /\ handled[i].command = Setup
      /\ Start(msg) + 2 * words <= msg.bytes /\ 2 * words \in {4 + NonExt, 4 + Ext}
      => ~ handled[i].refused
=============================================================================
