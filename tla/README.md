# A verification development for oldsmbproxy

oldsmbproxy accepts SMB clients on a local port and relays each of them to one
SMB server. It reads both directions message by message (a 4 byte direct-TCP
header and the body it announces), looks at the SMB header of each message and
forwards the ones it accepts. The proxy is 12 files of C; it is multi-threaded
and uses no lock.

This directory holds TLA+ modules of the proxy, the configurations TLC checks
them with, and proofs checked by the TLA+ proof system. `PROJECT.json` ties every
definition to the lines it models, every run to its question, and every hazard of
the code to the properties that would catch it.

## 1. The system

| Component | Source | State | Operations |
|---|---|---|---|
| main loop | `main.cc`, `gwtcp.c:4-136` | listening socket, the socket just accepted | set up table and listener, accept with a 10 s timeout, hand the socket over, end on any failure |
| context table | `smbgw.c:373-474`, `smbgw.h` | `s_ctx[4]`: both sockets, the two rings, the passthrough flag, the thread | init, start (find a free context, create its thread, reset its rings, store the client) |
| connection thread | `smbgw.c:22-360`, `gwtcp.c:138-335` | its context, one frame state and one remaining length per direction | wait for a client, connect, read, frame, validate, write, tear down |
| io ring buffer | `butil.c:44-163` | head, tail, count, bytes | normalize, reset, contiguous write and read pointer |
| SMB message walk | `smbproto.c` | none between calls | verdict on one message; walk of ANDX chains and of SMB2 compounds |
| command line | `main.cc:30-149` | local port, log level, passthrough, URL | option loop |
| URL parser | `butil.c:526-925` | none | scheme, host, port and path of a URL |
| text conversions | `butil.c:165-524, 926-1425` | none | utf8, base64, dates, file types, host information |
| log | `butil.c:1-43` | level | print |

How they interact. The main thread calls `smbgw_proxy_start`, which writes into
a context that a connection thread polls (`client_socket`, every 100 ms). The
thread owns the context from the moment it sees the socket until it stores
`INVALID_SOCKET` there, and goes on using it a little longer (it still closes the
server socket). Sockets are process-wide numbers which the kernel reuses at once.
Inside the thread everything is sequential: it reads at most one chunk from the
client, then one from the server, and a complete message is written to the other
side before the next turn.

What is hard about it:

- the hand over of a context between two threads without a lock, with the number
  of a closed socket already reused elsewhere;
- the state of a torn down connection (half a message in a ring, a frame state,
  a flag) that must not reach the next connection through the same context;
- messages that arrive in arbitrary pieces, partial sends, peers that hang up,
  half-close or reset at any point, and both peers blocked on their own sends;
- the ring's indices at the wrap, and lengths at the limits (an empty message, a
  message that fills the ring, one that is longer).

What makes each component correct:

- ring: a first-in first-out queue of bytes; room and bytes are reported exactly;
- thread: each direction is a pipe that hands on a prefix of what it received, in
  whole, accepted messages; it frees itself of peers that are gone;
- table: every open socket has exactly one owner that will close it, a session
  joins a client with the server connection made for it, rings are touched by one
  thread at a time, and no client is forgotten;
- message walk: its verdict is that of all headers of the message, every command its
  links lead to is looked at once, in order, and it comes to an end;
- library: what one function writes its counterpart reads back.

## 2. The modules

| Module | Models | Role |
|---|---|---|
| `Ring` | `ioring_t` and its functions | operators, used by `Pump` and `RingQueue` |
| `RingQueue` | any legal sequence of ring calls | specification against a queue |
| `Relay` | (nothing in the code) | abstract specification: two pipes |
| `Pump` | one connection thread with its two peers | specification; implements `Relay` |
| `Service` | (nothing in the code) | abstract specification: clients come, are taken in order, get a server connection, are closed |
| `Pool` | start-up, main thread, all connection threads, descriptor table | specification; implements `Service`; the pump of a session is one step |
| `SmbProto` | `smbproto_packet` and its two walks | specification |
| `Args` | the option loop of `main.cc` | specification |
| `Url` | `butil_parse_url`, `butil_paste_url`, the scheme table | operators and calls |
| `Codec`, `Dates`, `Mime` | utf8 and base64, dates, file types of `butil.c` | operators |
| `Library` | calls of `Url`, `Codec`, `Dates` and `Mime` in any order | specification |
| `MCPump`, `MCSmbProto`, `MCArgs`, `MCLibrary` | | small instances for TLC |
| `PumpProofs`, `FramingProofs` | | theorems about `Pump` with their proofs; the second on messages and their headers |
| `PoolProofs` | | theorems about `Pool` with their proofs |
| `RingProofs` | | theorems about `RingQueue` with their proofs |
| `SmbProofs` | | theorems about `SmbProto` with their proofs |
| `ArgsProofs` | | theorems about `Args` with their proofs |
| `LibraryProofs` | | theorems about `Library` with their proofs |
| `Least` | | the lemmas that carry the inductions over data and the loops |

### Ring

A record with `head`, `tail`, `count` and `data`. `WriteRoom`, `ReadAvail`,
`Reset` and `Normalize` are the four functions of `butil.c`. `Fill` and `Drain` are the
statements every caller repeats after a transfer (`smbgw.c:120-125`, `190-201`):
advance and wrap the index, adjust the count, reset the ring when it is empty.
`Normalize` keeps the three ways of the code: `memmove` when the bytes do not wrap, a
temporary buffer when the caller has one, and otherwise the rotation by fours and
then by ones (a recursive function from the number of turns to the ring after them, so
that the module can be proved about). The modulo is only in `Rotate`, where the code saves and restores
the displaced bytes.

### Pump

The state is the thread's local variables and its context: `state` and `remain`
are `clientPacketState`/`serverPacketState` and `clientPacketRemain`/`serverPacketRemain`,
`ring` the two rings; `pc`, `turn` and `sent` say where it is. The code spells the two
directions out one after the other (`smbgw.c:106-215` and `216-324`); the model has one
copy with a parameter `d`, the side the bytes come from. The two copies were compared
line by line: they differ only in names.

An action is one system call together with the computation on its result, since
nothing else touches the thread's state in between:

- `ReadNothing`, `ReadSome`, `ReadFails`, `NoRoom`: the `tcp_read` of a turn and what it
  leads to. The code examines the frame after every read that is not an error,
  also after one that returned nothing, and so does `Framed`.
- `HeaderIn`, `HeaderInvalid`, `BodyIn`, `BodyRejected`, `Incomplete`: the alternatives after
  a read. A header is decoded from where the last `recv` stored its bytes.
- `SendSome`, `SendTimesOut`, `SendFails`, `SendKills`: one iteration of the loop of `tcp_write`.
- `NewClient`, `ConnectStarts`, `ConnectFails`, `Close`: the ends of a session.

The peers (`PeerSends`, `PeerReads`, `PeerHangsUp`, `PeerResets`, `ServerAnswers`) do as they
like, at any moment. `stream`, `put`, `got`, `out` and `taken` record what each peer
wants to send, has sent, what `recv` has returned, what was given to `send`, and what
the other peer has read. A connection is `connecting`, `up`, `fin` (the peer hung up, or
half-closed), `rst` (failed: the next call reports it) or `gone` (reset after it was
hung up: `send` raises SIGPIPE, which the program does not handle, so that the
process ends).

What is abstracted. A byte has `Radix` values instead of 256, and the lengths and
limits shrink with it (`HeaderAt` is the big-endian number in that radix). The
verdict on a message keeps the first of the four protocol id bytes and the length
checks (`PacketOK`); the messages have one command or header. For these it says what
`VerdictExact` says in `SmbProto`, which has the chains and compounds.
Waiting (`select` timeouts, `usleep`) takes no time; a timeout may happen whenever the
call could not proceed.

### Pool and Service

One action per access to a shared field or system call. `fd` maps descriptor numbers
to what is behind them, the lowest free one is handed out next. The main thread
first sets up the table and the listening socket (`TableReady`, `SocketOpens`,
`ListenerReady`; any of these may fail, `SetUpFails`). Then it accepts,
scans (`ContextTaken`, `ContextFound`), starts a thread (`ThreadStarts`), resets the rings
and makes its two last stores. These are plain stores with no call between them, so
that a compiler or processor may swap them: `pending` holds the ones not made yet, in
either order. Of all other stores the model assumes that they are seen in program order. For the resets
of the rings (`smbgw.c:456`, `457`) and the store of the socket (`459`) that is what the calls in between make of the
compiler's output, and what a processor does that keeps stores in order, as x86 does; no barrier in the code would keep
one with weaker ordering from showing the thread the socket first, with the rings as they were. The flag `passthrough`
may be stored after the socket, and a session may begin with what the context had before (`smbgw.c:459`, `460`). As the flag
is the same for all clients of a run, and no text says when it must be settled, no property is about it. The threads
go through connect, pump, and the four steps of the tear-down in the order of
`smbgw.c:330-340`. A `tcp_connect` that fails is one step with the close of the client behind it (`ConnectFails`): the
descriptor it may have opened and closed again (`gwtcp.c:154-226`) is in no field and in no table at the end. The session itself is `Pumps` (bytes of the current client enter the
rings) and two ways to end. Failures: `select`, no descriptor left, `accept` of a client that
already hung up, a socket that cannot be made non-blocking, `pthread_create`,
`tcp_connect`, a full table; each has the
consequence it has in the code, which for all but `tcp_connect` is the end of the process.

`Service` knows no thread, context or descriptor: clients are `queued`, `inside` and
`closed`, and some have a connection to the server. `Pool` implements it by what the
descriptor table shows (`Stage`, `ServerOf`). The refinement says that no interleaving of
the threads makes a client overtake another, gets it a second server connection, closes the
server's side before the client's, opens one for a client that is closed, or has more of
them than contexts, although a context takes a new client while the connection of its
last one is still open.

### SmbProto

One action per iteration of a loop: `V1Command` for a command of an ANDX chain,
`V2Command` for a header of a compound; `TooShort`, `BadV1Header`, `BadV2Header` for the ways
a message is refused. A message is a record of what the walk reads: its length, its
headers and its links, by the offset they stand at. `handled` records what the command
handlers are given. Of these only the one for session setups looks at anything
(`Refuses`), and its verdict is dropped. `Linked` is the reference: what the links of the
message lead to.

The code tests no offset. Links may lead behind the end of the message, where the walk reads what the buffer of the
context still holds, and those of a chain may lead back, as their offsets are absolute; those of a compound are unsigned
distances, and lead forward. So the record describes the memory from the message on, as far as the walk
can come (`ChainClosed`, `CompoundClosed` in the assumption of the module say that what it comes to is described, not where it is).
An offset is the number the code makes of its two bytes, the high one first. An SMB1 header without a parameter block has
`params` point to an empty string; what an ANDX command reads there is a block at the place `Empty`. What is left out is that a
read far behind the message may be of memory the process does not have.

A chain that leads in a circle is followed for ever, and is followed in the model for `MaxVisits` commands. The reference
for the order is the links again: `HandledOnce` says that the calls of the handlers go along them and that in an accepted message
they are all that the links lead to, each once; `WalkEnds`, that a walk ends if anything its links lead to is the last one, so
that a circle is the only way not to.

Three things it shows without a property about them: the later commands of a chain get the counts of the first one; the
byte count of a later header of a compound still has the bytes between the headers in it; and the count falls below zero,
to a number close to 2^32 (`Minus`), when a message has fewer words than it says or headers that overlap. Both are in the instance. The
count only goes to the handlers, which log it; that neither verdict nor calls depend on it is part of `VerdictExact` and `HandledOnce`.

### Args

`arg` is what the pointer of that name still has before it, `argi` the index, and
the `do ... while` around the `switch` is kept as two places, `switch` and `more`: it is
the loop's treatment of the rest of a word that is easy to get wrong. `strtoul` moves
`arg` behind the digits (`Rest`). A meaning is given to a command line on its own
(`Meaning`, `Proper`), from the usage text, and compared with what the loop made of it.
Numbers are decimal (no signs, blanks or base prefixes, which `strtoul` would also take), and a URL is short enough for its buffer. A line that ends in `-l` is
told "Use: -l [level]" and is run with level 0 all the same (`main.cc:91`; the case of `-p` sets
`result`): `NothingIgnored` has it as an exception. `EndsUnlessX` says that the loop ends or comes to an `x` where it looks for the
letter of an option, which is not only in the word `-x`: `-ux`, `-p1ux` and the word `1ux` behind a `-p` lead there as well, `-lx` does not.

### Library: Url, Codec, Dates, Mime

`user` is the table of user schemes, the one state that makes the result of a call
depend on the calls before it; `asked` and `result` are the last call, until the
caller has used it. Every call is followed by the one that undoes it: `Paste` by
`Parse`, encoding by decoding, reading a date by writing it, a path's type by its name.

Built-in scheme names are single characters, so that a short URL can have one. Not
properties, since nothing in the repository says what is meant: a URL
without a scheme that has `//` somewhere loses what is before it; an smb URL without
a port gets port 80; a URL pasted without a port gets 443, and 80 for https;
`butil_scheme_name` has no name for smb.

Bytes, code points and the characters of base64 are numbers, so that the bit
operations are divisions. `Encode64` follows the loop with its test for room before each group;
`hexescape` (where `+`, `/` and `=` become escapes) is called with room enough, and the
decoder stops at an escape. A date is a record; of the zone the code sees its offset 48
hours into 1970 (which it takes for the offset at all times) and the one `mktime` uses. When these differ the time is off by
their difference, and `DatesInverse` says by nothing else. Of a month that begins with a `j` and has no `a` behind it the
code looks at the third letter only, so that `jxn` is June: `DatesInverse` says of every other word that is no month that it is answered
with 0 (`ByItsEnds` are the excepted ones).

`butil_utf8_decode` answers a character that is cut at the end of the buffer with 0, but in the form of two bytes with
-1. It returns a `size_t` (`butil.h:208`), so that this is the largest one: `SizeLimit - 1`. No file of `src/` calls the decoder.
The caller of the model goes on while the answer is a number of bytes that are there (`Progress`), and `Utf8RoundTrip` says that
this finds the points and leaves what was cut; a caller that only asked for 0 would go on behind the end of its buffer.

The
rows of the file type table are those whose type, extension or name begins another's,
and two that stand for the rest; a name is a sequence of pieces, so that one can be
the beginning of another (`application/x-bzip`, `application/x-bzip2`).

### Faulty forms

Next to some operators stands a *faulty form* (`Rewound` by `Reset`, `Single` by
`Last`, ...): the operator with a plausible slip. No specification uses them. Put in
place of the operator, each makes one property of one run fail, which shows that
the property depends on that piece of code; `PROJECT.json` lists the pairs.

## 3. The runs

| Run | Question | Instance |
|---|---|---|
| `pump_safety` | Do the rings account for every byte, and stay anchored and within one message, however the bytes arrive? Does a second connection see anything of the first? Does the thread implement two pipes? | two connections, byte by byte |
| `pump_whole` | Are messages framed, checked, forwarded whole and delivered, when their headers arrive in one piece? Does the thread alone end every write and get rid of peers that are gone? | all streams, both values of the flag |
| `pool_service` | Are sockets, sessions and rings handed over properly, from start-up to the end? Is the whole the service of `Service`? Is every client answered, and everything closed for one that left? | 3 clients, 2 contexts, 5 descriptors |
| `ring_queue` | Do the ring functions keep a queue under any sequence of calls? | 8 slots of one bit, every content |
| `args_options` | Does a command line mean what the usage text says, and is any other refused? Does every index stay in its word? Does every step but that of `-x` come nearer to the end of the line, and does the loop end where it meets no `x`? | lines of up to 3 words out of 18 |
| `library` | Does what was pasted, encoded or written come back from its counterpart? Does base64 fail exactly when there is no room? Do the file type functions agree? Is every character of an accepted URL accounted for? | URLs of up to 5 characters, 2 user schemes; points, buffers, dates and paths at the limits |
| `smb_walk` | Is the verdict that of all headers, is each command handled once and in order, and does the walk end, wherever the links lead? | compounds of up to 4 headers, chains of up to 3 ANDX blocks, with links behind the end, back and in circles |
| `pump_header_split`, `pump_zero_read`, `pool_overflow`, `smb_setup`, `args_x` | (violations, section 4) | |

**Bounds of the pump.** `Radix` 3 gives a byte that starts an SMB1 message, one that starts
an SMB2 message and one that starts neither. `RingSize` 9 is the smallest ring with
room for a header and a body whose length needs two digits. `MaxHeader` 8 allows a body
that does not fit behind its header, as 0x1FFFFF does in 0x20008 bytes. `HdrV1` 2 and `HdrV2` 1
differ, so that a body can be long enough for one protocol and short for the other.
`SockCap` 4 lets a header arrive in one piece and makes the send of every message but an
empty one partial. The streams of `MCPump` are a request and its answer, two requests in a
row, empty messages, a message that fills the ring to the last byte, a header for a body
no ring can hold, an invalid header, refused messages, and a header whose message
never comes. `Stale` 1 makes memory that was never written recognisable as a wrong
header. Two connections suffice for reuse: whatever the second can inherit, it inherits
from the first. `pump_safety` leaves out the passthrough flag and some of the streams,
which `pump_whole` has, to afford two connections and every split of the bytes.

**Bounds of the pool.** Two contexts are the least for which a scan can pass one, two
threads close and connect at the same time, and a number closed by one is reused by
the other. Three clients make one context serve twice. Five descriptors are one fewer
than the listener, two sessions and a newcomer's client need, so that running out happens; a table of
contexts that is full happens as well. Clients are numbered in the order in which they connect,
which takes the place of symmetry. In `pool_overflow` no more than two of the three are
connected at a time (`Crowd`).

**The messages.** The real sizes of headers and structures. The places of the headers are side
by side, apart and overlapping, and the message ends behind the last one or with the first, so that all links lead
behind its end; every link to a later place is in some message, and so is every wrong protocol mark. Chains have
all ANDX links among three places, forward, back and to the place itself, two of which lie behind the end of the short
messages; first commands have the word counts of both session
setups, one that is short, none, and more words than the message has. Messages that are a
byte short of a header, or end with it, are there for both protocols, also with an ANDX command and no block. A chain among
three places that does not repeat itself has at most four commands; `MaxVisits` 6 lets every such chain come to its end and every
circle close. `CountLimit` 1000 takes the place of 2^32, and no offset is `Empty`.

**The ring.** Eight one-bit slots are two turns of the rotation by fours (tail 7: one turn by
four, three by one), and all 256 contents are initial states.

**The command line and the library.** Three words are a URL and an option with its number in a word
of its own; the eighteen words hold each option with and without a number, with text
behind the number, a number, an empty word, words that only look like options, and an `x` at each place a letter can have.
Five characters are a scheme with `://` and one more, or a host, a port and a path. The
limits (`PortLimit`, `MaxScheme`, `MaxHost`, `MaxPath`, `MaxPortSpec`, `NumUser`) are small enough
to be exceeded. Texts are pairs of the first and last points of each UTF-8 length and the first
beyond, cut at every byte of the last character; buffers are up to four bytes (a
group and a start of one) that reach both ends of both alphabets, with room for none, one
and two groups; dates have every month, the 29th of February of leap years and others
(1999, 2000), both ends of the time a signed 32-bit number holds, fields one out of range, and a zone
whose offset has changed; paths have dots before the extension.

**Fairness.** Each thread is scheduled: weak fairness of `Thread` in `Pump`; of `Main` and of
each `Worker` in `Pool`; of the loop's `Step` in `Args` and of `Next` in `SmbProto`, which are sequential code that waits for nothing. This is what a preemptive scheduler and the timeouts of all the
blocking calls (`select` with 0.1 s, 10 s and 15 s) give. The peers and clients owe nothing:
no fairness for sending, reading, hanging up, or answering a connection attempt, nor for
a session to fail (`SessionFails`), `select` on the listening socket to fail (`SelectFails`, which is not part of
`Main` for this reason), or for another client to arrive.

**Deadlock** is checked everywhere. `Finished` (of `Pump` and of `SmbProto`) and `Ended` are stuttering steps of a program
whose bound on connections is used up, or whose process has ended.

## 4. Where code and text disagree

- `pump_header_split`: a header is copied from where the last read stored its bytes
  (`smbgw.c:143`, `254`). If it arrived in two reads, the length is decoded from the wrong
  bytes, some never written. `smbgw.c:94` says what the four bytes are.
- `pump_zero_read`: after the header of an empty message `recv` is asked for zero bytes; its
  0 is taken for a hang-up (`gwtcp.c:321`) of a peer that is still there.
- `pool_overflow`: a client that connects while fewer than `max_connections` others are
  connected may still find no context, because a thread has not noticed yet that its
  client left. `smbgw.c:468` calls that an internal error, and the process ends.
- `args_x`: the case of `-x` neither moves `arg` nor `argi`, so that the inner loop comes back to the
  same letter for ever (`main.cc:97`), although the usage text has the option.
- `smb_setup`: of an ANDX command's parameters the header of two words is left out by pointer
  (`params + 4`) but only one word is taken off the length (`smbproto.c:400`). A session setup that has as
  many words as its structure is refused or taken for the other kind. `smbproto.c:384` says what
  a word is. As the handler's verdict is dropped, the message is forwarded all the same.

Without a run of its own: the header check of `smbgw.c:146` allows a length of `0x1FFFFF`, `main.cc:44` says
the payload is limited to `1FFFF`, and sizes the ring by that. A message between the two is agreed
to and dropped, with the connection, when its body does not fit; `pump_safety` has such a header.

`FramingSound`, `WholeMessages`, `OnlyAccepted` and `Delivered` are therefore stated for
streams whose headers arrive in one piece (`SplitHeaders = FALSE`, which constrains only how
the peers' bytes arrive). The safety of the rings, of the streams and of reuse holds
without that restriction, also when a length was decoded wrongly.

## 5. What is proved

The theorems hold for every value of the constants that satisfies the assumptions of the
modules: `RingAssumption` (a ring of at least 8 bytes, which the code has with 0x20008, and
bytes of a positive radix), `PumpAssumption`, `PoolAssumption` and `TempsAssumption` (types of
the other constants), `SmbAssumption` (what a walk comes to is described, wherever it is; types of the rest), `ArgsAssumption`, `UrlAssumption` (strings
end at their nul, ports are positive and in range, no colon in a scheme's name), `PartsAssumption` (what is
pasted has a host without delimiters, a port that can be printed, and lengths that can be parsed) and `LibraryAssumption` (types of the dates and paths, texts of one point or more that are shorter than the largest `size_t`, and bytes in buffers encoded into four characters of room or more). TLC checked every inductive invariant on the instances of the runs before it
was proved.

### `PumpProofs`: one connection, any number of times

`Invariance` (`Spec => []IInv`), and from it `TypeCorrect`, `Integrity` (`StreamIntegrity`),
`NothingElseInRings` (`RingHoldsStream`), `NeverWraps` (`RingAnchored`), `FrameByFrame` (`OneFrame`) and
`Refinement` (`Spec => RelayRefined`), with

    IInv == TypeOK /\ StreamIntegrity /\ RingHoldsStream /\ RingAnchored /\ OneFrame

The argument. `StreamIntegrity` is what matters, and is not inductive: what `send` gets
comes from a ring, so one has to know what the ring holds. `RingHoldsStream` says so: byte i
of the ring is the byte of the stream that follows those handed on. For that to
survive a read, the ring must be filled where its contents end, and for it to survive
a write, the ring must be drained from its start: `RingAnchored`, which holds because
a ring that is emptied is reset and is never filled before it is empty. For the write
to cover all of the ring without wrapping, and for `count` and `remain` to agree on
whether a read completes a frame, one needs `OneFrame`; in particular there is something
to send whenever the thread is in the write loop. The proof has one lemma per action
that changes a ring (`ReadStep`, with `FillAnchored` and `NormalizeAnchored`; `SendStep`, with
`DrainAll` and `Appended`; `NewClientStep`, `ConnectStep`), one for the actions that only end the
loop (`LeaveStep`) and one for the network (`NetworkStep`).

`Refinement` maps `Pump` to the two pipes of `Relay`. A read is the pull of the bytes that
`recv` returned (`PullStep`), an iteration of the send loop pushes the next bytes of what was
pulled (`PushStep`: by `StreamIntegrity` before and after it, the new output is a longer prefix of the same
stream, hence the old one followed by the bytes in between), and everything else changes
neither or starts a new connection (`RelayStep`). No step hands on what was not
pulled (`SinkBound`, from `RingHoldsStream` and the bound on `sent` in `OneFrame`).

A consequence worth noting: in this program `butil_normalize_ring` never moves
anything (`NormalizeAnchored`: on an anchored ring it is the identity). What other
callers would meet is proved of `RingQueue`.

### `FramingProofs`: messages

`Framing` (`FramingSound`), `Whole` (`WholeMessages`) and `Accepted` (`OnlyAccepted`), each as
`ASSUME ~ SplitHeaders PROVE Spec => []...`: headers arrive in one piece. That hypothesis is not a
convenience: without it the code decodes a length from the wrong bytes, and TLC shows
the violation (`pump_header_split`). It restricts `PeerSends` only, and the streams are arbitrary.

The boundaries of a stream (`Ends`) are a recursive function of the position. `EndsExist` and `EndsAre`
establish its defining equation; `EndsApart` says that between a boundary and any later one lies the
whole message that starts at the first, so that the boundaries form one chain. The
invariant, beside `IInv`:

    FInv == HeadersWhole /\ NothingYet /\ AtBoundary /\ FrameKnown /\ OneMessage /\ OnlyAccepted

No reader ever sees the middle of a header (`HeadersWhole`). A turn begins at a boundary of the stream
(`AtBoundary`) with an empty ring; a read of a header gets all four bytes, stored at index 0, where it
is decoded from, so that the remaining length is the announced one (`FrameKnown`). What is
written is then exactly the message at the boundary, and was accepted unless everything
is passed through (`OneMessage`); the last send of it ends at the next boundary (`NextEnd`). A byte that
a send adds to the output belongs to that message, since no boundary lies inside it
(`EndsApart`): that is `OnlyAccepted`.

### `PoolProofs`: the threads

`Invariance`, and from it `TypeCorrect`, `Ownership` (`DescriptorsOwned`), `Pairing` (`SessionPairing`),
`Exclusion` (`RingsExclusive`) and `Refinement` (`Spec => ServiceRefined`), for any number of
contexts, clients and descriptors. The invariant says, for each place of a thread and of
the main thread, which of its fields name a descriptor (`Places`, `MainPlace`), since a field goes on
naming one after it is closed; that what is held is open, by one holder, and nothing
else is (`HeldAreOpen`, `HeldOnce`, `EveryOpenHeld`: with these a `close` frees exactly the one meant, though
the kernel hands the number out again at once); that clients are taken in order and have
at most one descriptor for each end of their session (`QueueInOrder`, `OnlyForTaken`, `OpenOnce`); that a server
connection is that of its context's client and outlives it (`OfSameClient`); and that the rings
are reset before the socket that hands the context over is stored (`RingsClean`).

The steps are proved by what they do to the holders: most change none (`SameHolders`, with one lemma
for the main thread and one for the workers), one opens a descriptor (`OpensOne`), one closes
one (`ClosesOne`). For the refinement, `StageIs` reads a client's stage off the order of arrival and
the descriptor table; each visible step is one action of `Service` (`ComeStep`, `TakeStep`, `ReachStep`,
`DismissStep`, `LeaveStep`, `StopStep`), every other step a stutter (`UnseenStep`). That a connection to the server
is only made while fewer than `MaxConn` others are there is a matter of counting: the connections
map one to one into the contexts, and the one that connects has none yet (`ContextToSpare`).

### `RingProofs`: the ring under any calls

`Fifo` (`HoldsFifo`), `Room` (`RoomExact`) and `Straight` (the action property `Straightens`), for every ring
size and every sequence of calls. The invariant adds to the contents the agreement of the
indices with the count (`Agree`), which tells a full ring from an empty one, and admits the head that
stands behind the last slot (`Jammed`, `butil.c:74`). The rotation is an induction over the turns: one
turn by four or by one places is `RotatedOnce`, the function of the number of turns exists
(`TurnsExist`), and when all are made the bytes start at slot 0 (`RotatedDown`).

### `SmbProofs`: the walk of a message

`Invariance`, and from it `TypeCorrect` (`TypeOK`), `Verdict` (`VerdictExact`) and `EachOnce` (`HandledOnce`), for any set
of messages and wherever their links lead: behind the end, back, in a circle. What is said of the verdict and of all calls is
said when there is a verdict; that there is one unless the links lead in a circle (`WalkEnds`) is checked by TLC.

The invariant says that the visits so far are a path along the links, from the first command or
header on, and that the walk is where the last of them leads (`Path`); that what it reads is
described (`Described`); and why it ended (`Stage`).

`Linked` is a recursive function of the number of steps. `Closure`: a set with the start of a
message and all that its members lead to contains `Linked`; the visits of an accepted message are
such a set (`AllHandled`). `PathLinked`: a path of no more than `Hops` steps stays in `Linked`. The path of a compound is
short enough, because its places increase and are all places of headers (`Ascending`, `FewHeaders`). That of a chain may come back; but
each place leads to one other (`OneGoal`), so that a path that comes twice to a place can have no last one: in
an accepted message no place comes twice (`Distinct`), and the path is short enough again (`FewVisits`). So visits and linked commands are the
same, and there are as many.

### `ArgsProofs`: the option loop

`Invariance`, and from it `UsageRuns` (`Understood`), `OthersRefused` (`NothingIgnored`), `Inside` (`ReadsInside`) and
`NothingAfterX` (once `-x` is seen the loop is never left), for any set of lines over any characters that
do not include the nul. A line has a meaning that is built from its last word to its first
(`Says`), because what is said later counts; the loop goes the other way. The invariant joins the
two (`Agree`): the meaning of the words that are still to come, over the settings made so far, is the
meaning of the line. `HearPort`, `HearLevel` and `HearUrl` say that a setting made in the loop answers
for its word.

The rest of the invariant is about a word that is not taken to its end. Behind a number with text
after it, `arg` is not empty and the line is not legal; the character that is read as a letter is
one behind, so that a `p` or an `l` in that place finds no digits and leaves the text as it is
(`ValueRead`): the loop ends in `BadSwitch` or stays at an `x`, and never comes to the next word with
the text forgotten. The one way through for a line that is not legal is a `-l` at its end (`Stray`).

`NearerToTheEnd` (`Advances`): every step but that of `-x` comes nearer to the end of the line, for lines and words of
any length (`Nearer`). A word is taken (`WordNearer`), or the current one becomes shorter (`ValueShortens`, `ValueNearer`,
`LetterNearer`: wherever `strtoul` leaves `arg`, nothing is put back), or the line is refused, or else the loop is further in
its round (`Place`, `RoundNearer`). Fairness is needed only to make the steps happen (`EndsUnlessX`, checked by TLC).
`Number` is a fold over digits and is not looked into: the
proof needs that the loop and the usage text read the same digits, not their value.

### `LibraryProofs`: URLs, texts, dates and file types

A call keeps nothing but the table of user schemes, so that what is proved of an answer is an
invariant as it stands; the work is in the functions.

`UrlAccounted` (`Accounted`), for any URL and any table of schemes: the host, the digits of the port and the path
are found again in what follows the scheme, in this order, and nothing is left over.
`SpanIs` says where the loops over the characters stop, `SchemeEnds` where the scheme does, and `HostSpelled`
that the host, the colon, as many digits as the number has, and the rest make up the text. The port's number is
a fold that is not looked into: what counts is how many characters it took.

`PastedIsParsed` (`RoundTrip`), for any parts and any names that are registered, in any order. The inductive
invariant is `Table`: every slot holds a name without a colon that is short enough to be parsed (`RegisterFits`). Then "://" is
found behind the name and not before (`SchemeFound`), the name is that of the scheme it was pasted
for (`SchemeIs`, where the precondition is needed: no built-in name, and no prefix of it registered before), and the host ends at the first colon,
the port at the slash (`SpanEnds`, `DigitsEnd`, `HostFound`). That a port has a decimal form is
assumed of what is pasted (`Printings`); what the digits mean is not looked into here, since both sides read the same ones.

`PortsArePrinted` looks into it, and says that with the values of the code (`CodeLimits`: ten digits, ports of 16 bits,
`BUTIL_MAX_PORTSPEC`) that assumption holds of every port: `"%u"` makes at most five digits of it, without a leading zero, and
`strtoul` reads them as the port. `FoldLeft` is a fold over sets of indices, of which it takes the largest out first;
a function that does so exists (`FoldExists`) and passes through the characters in their order (`FoldPasses`), so that one more digit
is ten times the number and the digit (`OneMoreDigit`), and ten times as many numbers have a form of one more digit
(`MoreDigits`). The instance of `library` has two digits, and ports that these can print.

`DatesReadBack` (`DatesInverse`), for any set of years, days, zones: a date of the calendar is answered with the time that
is written as this date, or is off by the change of the zone's offset. Years and the months in a year are disjoint intervals of days that lie
side by side (`YearOrder`, `MonthOrder`, `MonthEnds`), so that what `gmtime_r` looks for is there once (`DateOfSeconds`);
the switch over the letters finds the month of its letters and no other (`MonthIs`), and none for words that are no month, without `ByItsEnds`; the second of the day and its clock are `Clock`.

`TypesAgree` (`MimeAgrees`), for any set of paths: what follows the last dot is the extension a path ends with
(`LastDot`). The table is looked into row by row only to see that no two rows have the same extension, that rows of
one type have one name (`RowsApart`, by `Kinds`, `Words` and `SameNames`), and that extensions have no dot (`Pieces`); the rest is about first
rows (`FirstIs`). It holds for the rows of `MimeTab`; those of the code that `Mime` leaves out are told from all others.

`TextsReadBack` (`Utf8RoundTrip`), for texts of any length and any points. A form is read back as its point, and half of it is answered
with no number of bytes that are there (`FormRead`, from the ranges of the first bytes, `TrailingIs`, and the bits put together again, `BitsBack`). The text of the
first k points only grows at its end, and the points that add no bytes are those without a form (`TextGrows`), so that
behind the bytes of some characters, and before the end, stands the next form whole or cut (`NextPoint`, `PassReads`). The invariant of the
caller's loop is `ReadSoFar`: the bytes read are those of the first characters, the points found are theirs, and the loop reads a byte a
pass at least, unless it has met what is left of the last character, so that it is over after as many passes as there are bytes (`DecodedAll`).

`BytesReadBack` (`Base64RoundTrip`) and `EncodedFits` (`Base64Fits`), for buffers of any length and any room: `SoFar` is the invariant
of the encoder's loop, which says after each pass how many groups are written, that there is no room for another one when
these are fewer than the passes, and, unless an escape is in the text, that the text is the sextets of these groups
with padding behind (`EncodingOf`). `OnePass` preserves it, group by group (`GroupIs`, `OneMoreGroup`), and `EncodeIs` has it
when the loop is over. The decoder stops where the padding begins (`AlphabetOf`) and takes sextets of zeros for
those that are not there (`ZerosBehind`), as the encoder did for bytes; four sextets hold three bytes (`SextetsAre`,
`BytesAre`), and as many characters as there are hold as many bytes as there were (`Counted`).

### Inductions over data

The induction theorems of the library take an operator as a parameter, which the
provers cannot instantiate. `Least` has the substitute, `LeastNat`: a set of natural numbers that is not
empty has a least element, from the well-foundedness of inclusion on finite sets. A property of all
positions is proved by taking the least one without it, and a recursive
function, which is a `CHOOSE`, gets its equation from the existence of a function on `0 .. n` for every n. For a
loop whose passes keep a set of states that is `LoopDefined`.

### Only model-checked

Liveness (`Delivered`, `HangUpFreesThread`, `WriteEnds`, `ClientAnswered`, `LeaverReleased`, `WalkEnds` and the end of the option
loop), which needs fairness and ENABLED and is out of the prover's reach. Every invariant, action property and
refinement of a passing run is stated by a theorem.

## 6. What is not modelled

- `smbgw_proxy_exit`, which does nothing, and the Windows and GUI variants of the code.
- `butil_get_host_info` (asks the operating system for its interfaces), the tests of single characters
  and the comparisons regardless of case of `butil.c`. The log: nothing reads it back.
- URLs and words longer than the buffers they are copied to, base64 with `hexescape` in a buffer that is too
  small: the code takes for granted that they do not come.
- Reads of memory the process does not have, behind a message whose links lead there. The contents of a
  session setup's parameters: they are copied and not looked at.
- The static storage `gethostbyname` shares between threads (`gwtcp.c:182`).
- `passthrough` may be true in the models because `smbgw_proxy_start` takes it as an argument;
  through `main` it cannot be, since the option loop does not move past `-x` (`main.cc:97`).

## 7. Plan

The modules were written in the order ring, thread, pool, command line, URL, then the
start-up of the pool and the service it implements, the message walk, and the rest of the
library. Every safety property is proved. What is left:

1. The safety half of the liveness that is left to TLC, as `Advances` is for the option loop: a measure that the
   steps of the walk of a message, and of the send loop, make smaller.
2. `"%u"` is modelled as any text that `strtoul` reads as the number; that there is only one without a leading zero
   is not proved, and nothing depends on it.
