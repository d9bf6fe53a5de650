-------------------------------- MODULE Pool --------------------------------
(***************************************************************************)
(* The main thread of main.cc and the connection threads of smbgw.c around *)
(* the table of contexts s_ctx they share without a lock.  The main thread *)
(* sets up the table and the listening socket; then, again and again, it   *)
(* accepts a client, scans the table for a context whose client_socket is  *)
(* INVALID_SOCKET, starts its thread the first time, resets its rings and  *)
(* stores the client; the thread polls client_socket, connects to the      *)
(* server, pumps the bytes (module Pump, here one step), closes both       *)
(* sockets and marks the context free.  Descriptors are numbers that the   *)
(* kernel hands out again, the lowest free one first.                      *)
(*                                                                         *)
(* An action reads or writes one shared field or makes one system call.    *)
(* It is assumed that stores are seen in program order, except that the    *)
(* two plain stores at the end of smbgw_proxy_start, with no call between  *)
(* them, may be swapped.  Calls keep the compiler from moving the resets   *)
(* of the rings behind the store of the socket (smbgw.c:456-459); no       *)
(* barrier there keeps a processor that reorders stores from it.           *)
(***************************************************************************)
EXTENDS Integers, Sequences, FiniteSets

CONSTANTS
  MaxConn,      \* max_connections: contexts in the table (4)
  NumClients,   \* clients that connect, each once
  Crowd,        \* how many clients are connected at a time
  NumFd,        \* descriptors the process may have open
  Passthrough   \* the flag main passes to smbgw_proxy_start

ASSUME PoolAssumption ==
  /\ MaxConn \in Nat \ {0}
  /\ NumClients \in Nat /\ Crowd \in Nat
  /\ NumFd \in Nat
  /\ Passthrough \in BOOLEAN

Ctx     == 1 .. MaxConn
Fd      == 1 .. NumFd
Invalid == 0                  \* INVALID_SOCKET
Clients == 1 .. NumClients    \* in the order in which they connect
Nobody  == 0                  \* no client: the rings were just reset

\* What an open descriptor refers to: the connection from client c, or the
\* one opened to the server on behalf of client c.
Ends == {"client", "server"} \X Clients
Free == <<>>

\* The socket the main thread listens on.
Listener == <<"listener", Nobody>>

VARIABLES
  arrived,      \* how many clients connected
  gone,         \* clients that hung up
  backlog,      \* connections waiting to be accepted
  fd,           \* the descriptor table of the process
  main,         \* where the main thread is
  listenSock,   \* its server_socket
  fresh,        \* its client_socket: the descriptor just accepted
  idx,          \* its index i into the table
  pending,      \* stores of smbgw_proxy_start not yet made
  wpc,          \* where the thread of each context is
  clientSock,   \* client_socket of each context
  serverSock,   \* server_socket of each context
  pass,         \* passthrough of each context
  residue       \* whose bytes the rings of each context hold

clientVars == <<arrived, gone, backlog>>
mainVars   == <<main, listenSock, fresh, idx, pending>>
ctxVars    == <<wpc, clientSock, serverSock, pass, residue>>
vars       == <<clientVars, fd, mainVars, ctxVars>>

Alive == main # "exit"

TypeOK ==
  /\ arrived \in 0 .. NumClients /\ gone \subseteq 1 .. arrived
  /\ backlog \in Seq(Clients)
  /\ fd \in [Fd -> Ends \cup {Free, Listener}]
  /\ main \in {"init", "socket", "options", "bind", "listen", "accept",
               "scan", "create", "reset", "hand", "exit"}
  /\ listenSock \in Fd \cup {Invalid}
  /\ fresh \in Fd \cup {Invalid}
  /\ idx \in (IF main \in {"create", "reset", "hand"} THEN Ctx ELSE 1 .. MaxConn + 1)
  /\ pending \subseteq {"socket", "mode"}
  /\ wpc \in [Ctx -> {"none", "wait", "connect", "failed", "pump",
                      "closeC", "clearC", "closeS", "clearS"}]
  /\ clientSock \in [Ctx -> Fd \cup {Invalid}]
  /\ serverSock \in [Ctx -> Fd \cup {Invalid}]
  /\ pass \in [Ctx -> BOOLEAN]
  /\ residue \in [Ctx -> Clients \cup {Nobody}]

\* The options are read, the table is not allocated yet: no thread, no socket.
Init ==
  /\ arrived = 0 /\ gone = {} /\ backlog = <<>>
  /\ fd = [k \in Fd |-> Free]
  /\ main = "init" /\ listenSock = Invalid /\ fresh = Invalid /\ idx = 1 /\ pending = {}
  /\ wpc = [s \in Ctx |-> "none"]
  /\ clientSock = [s \in Ctx |-> Invalid]
  /\ serverSock = [s \in Ctx |-> Invalid]
  /\ pass = [s \in Ctx |-> FALSE]
  /\ residue = [s \in Ctx |-> Nobody]

-----------------------------------------------------------------------------
(* The clients and the kernel. *)

Listening == main \notin {"init", "socket", "options", "bind", "listen", "exit"}

\* The kernel completes the connection; listen gave it room for MaxConn.
ClientConnects ==
  /\ Listening /\ arrived < NumClients
  /\ arrived - Cardinality(gone) < Crowd
  /\ Len(backlog) <= MaxConn
  /\ arrived' = arrived + 1
  /\ backlog' = Append(backlog, arrived')
  /\ UNCHANGED <<gone, fd, mainVars, ctxVars>>

ClientLeaves(c) ==
  /\ c \in (1 .. arrived) \ gone
  /\ gone' = gone \cup {c}
  /\ UNCHANGED <<arrived, backlog, fd, mainVars, ctxVars>>

\* The descriptor the kernel hands out next.
LowestFree(k) == k \in Fd /\ fd[k] = Free /\ \A j \in 1 .. k - 1 : fd[j] # Free

-----------------------------------------------------------------------------
(* The main thread. *)

\* main returns: the process ends with every thread, the kernel closes all.
Exit ==
  /\ main' = "exit"
  /\ fd' = [k \in Fd |-> Free]
  /\ backlog' = <<>>
  /\ UNCHANGED <<arrived, gone, listenSock, fresh, idx, pending, ctxVars>>

\* smbgw_proxy_init has the memory it asks for, and Init's contexts are set.
TableReady ==
  /\ main = "init" /\ main' = "socket"
  /\ UNCHANGED <<clientVars, fd, listenSock, fresh, idx, pending, ctxVars>>

\* tcp_listen_on_port: socket, ...
SocketOpens ==
  /\ main = "socket" /\ main' = "options"
  /\ \E k \in Fd : LowestFree(k) /\ fd' = [fd EXCEPT ![k] = Listener] /\ listenSock' = k
  /\ UNCHANGED <<clientVars, fresh, idx, pending, ctxVars>>

\* ... SO_REUSEADDR and FIONBIO, bind, listen.
SetUp(step, next) ==
  /\ main = step /\ main' = next
  /\ UNCHANGED <<clientVars, fd, listenSock, fresh, idx, pending, ctxVars>>

ListenerReady == SetUp("options", "bind") \/ SetUp("bind", "listen") \/ SetUp("listen", "accept")

\* Any of these steps fails, whatever it closes or frees first: main returns.
SetUpFails ==
  /\ main \in {"init", "socket", "options", "bind", "listen"}
  /\ Exit

\* tcp_accept_connection: select times out after 10 s.
AcceptTimesOut ==
  /\ main = "accept" /\ backlog = <<>>
  /\ UNCHANGED vars

\* select fails: the listening socket is closed, and main returns.
SelectFails ==
  /\ main = "accept"
  /\ Exit

Accept ==
  /\ main = "accept" /\ backlog # <<>>
  /\ \E k \in Fd :
       /\ LowestFree(k)
       /\ fd' = [fd EXCEPT ![k] = <<"client", Head(backlog)>>]
       /\ fresh' = k
  /\ backlog' = Tail(backlog)
  /\ main' = "scan" /\ idx' = 1
  /\ UNCHANGED <<arrived, gone, listenSock, pending, ctxVars>>

\* accept fails, with no descriptor left or because the waiting client hung
\* up, or the accepted socket cannot be made non-blocking and is closed: any
\* failure makes main return.
AcceptFails ==
  /\ main = "accept" /\ backlog # <<>>
  /\ Exit

ContextFree(s) == clientSock[s] = Invalid

NextIndex == idx + 1

\* smbgw_proxy_start: look for a context to use, in order.
ContextTaken ==
  /\ main = "scan" /\ idx \in Ctx /\ ~ ContextFree(idx)
  /\ idx' = NextIndex
  /\ UNCHANGED <<clientVars, fd, main, listenSock, fresh, pending, ctxVars>>

\* Faulty form of NeedsThread: no thread is ever started.
NeedsNone(s)   == FALSE
NeedsThread(s) == wpc[s] = "none"

ContextFound ==
  /\ main = "scan" /\ idx \in Ctx /\ ContextFree(idx)
  /\ main' = IF NeedsThread(idx) THEN "create" ELSE "reset"
  /\ UNCHANGED <<clientVars, fd, listenSock, fresh, idx, pending, ctxVars>>

\* Faulty form of TableFull: the index is used without a test.
PastEnd ==
  /\ main = "scan" /\ idx \notin Ctx
  /\ main' = "create"
  /\ UNCHANGED <<clientVars, fd, listenSock, fresh, idx, pending, ctxVars>>

\* "Can't find context to handle connection, internal error".
TableFull ==
  /\ main = "scan" /\ idx \notin Ctx
  /\ Exit

ThreadStarts ==
  /\ main = "create"
  /\ wpc' = [wpc EXCEPT ![idx] = "wait"]
  /\ main' = "reset"
  /\ UNCHANGED <<clientVars, fd, listenSock, fresh, idx, pending,
                 clientSock, serverSock, pass, residue>>

ThreadFails ==
  /\ main = "create"
  /\ Exit

\* Faulty form of Resets: the rings keep what the last client left.
KeepsRings(s) == UNCHANGED residue
Resets(s)     == residue' = [residue EXCEPT ![s] = Nobody]

ResetRings ==
  /\ main = "reset"
  /\ Resets(idx)
  /\ main' = "hand" /\ pending' = {"socket", "mode"}
  /\ UNCHANGED <<clientVars, fd, listenSock, fresh, idx, wpc, clientSock, serverSock, pass>>

\* After the last of the two stores smbgw_proxy_start returns 0.
Stored(field) ==
  /\ main = "hand" /\ field \in pending
  /\ pending' = pending \ {field}
  /\ IF pending' = {}
     THEN main' = "accept" /\ fresh' = Invalid
     ELSE UNCHANGED <<main, fresh>>
  /\ UNCHANGED <<clientVars, fd, listenSock, idx, wpc, serverSock, residue>>

StoreSocket ==
  /\ Stored("socket")
  /\ clientSock' = [clientSock EXCEPT ![idx] = fresh]
  /\ UNCHANGED pass

StoreMode ==
  /\ Stored("mode")
  /\ pass' = [pass EXCEPT ![idx] = Passthrough]
  /\ UNCHANGED clientSock

Main ==
  \/ TableReady \/ SocketOpens \/ ListenerReady \/ SetUpFails
  \/ AcceptTimesOut \/ Accept \/ AcceptFails
  \/ ContextTaken \/ ContextFound \/ TableFull
  \/ ThreadStarts \/ ThreadFails \/ ResetRings \/ StoreSocket \/ StoreMode

-----------------------------------------------------------------------------
(* The thread of context s: smbgw_thread.  Its own tests that a socket is  *)
(* not INVALID_SOCKET before it closes it always succeed (Owned below).    *)

At(s, from, to) ==
  /\ Alive /\ wpc[s] = from
  /\ wpc' = [wpc EXCEPT ![s] = to]

\* Faulty form of Closes: the socket is not closed.
LeavesOpen(k) == UNCHANGED fd
Closes(k)     == fd' = [fd EXCEPT ![k] = Free]

\* The client behind descriptor k.
Behind(k) == fd[k][2]

SeesClient(s) ==
  /\ At(s, "wait", "connect") /\ clientSock[s] # Invalid
  /\ UNCHANGED <<clientVars, fd, mainVars, clientSock, serverSock, pass, residue>>

Connects(s) ==
  /\ At(s, "connect", "pump")
  /\ \E k \in Fd :
       /\ LowestFree(k)
       /\ fd' = [fd EXCEPT ![k] = <<"server", Behind(clientSock[s])>>]
       /\ serverSock' = [serverSock EXCEPT ![s] = k]
  /\ UNCHANGED <<clientVars, mainVars, clientSock, pass, residue>>

\* Faulty form of ConnectFails: the result of tcp_connect is not looked at.
GoesOn(s) ==
  /\ At(s, "connect", "pump")
  /\ UNCHANGED <<clientVars, fd, mainVars, clientSock, serverSock, pass, residue>>

\* tcp_connect fails: no descriptor, no address, or a refused connection.  A
\* socket it may have opened is closed again; then the client is closed.
ConnectFails(s) ==
  /\ At(s, "connect", "failed")
  /\ Closes(clientSock[s])
  /\ UNCHANGED <<clientVars, mainVars, clientSock, serverSock, pass, residue>>

FreeAfterFailure(s) ==
  /\ At(s, "failed", "wait")
  /\ clientSock' = [clientSock EXCEPT ![s] = Invalid]
  /\ UNCHANGED <<clientVars, fd, mainVars, serverSock, pass, residue>>

\* Bytes of this connection enter the rings.
Pumps(s) ==
  /\ Alive /\ wpc[s] = "pump"
  /\ residue[s] # Behind(clientSock[s])
  /\ residue' = [residue EXCEPT ![s] = Behind(clientSock[s])]
  /\ UNCHANGED <<clientVars, fd, mainVars, wpc, clientSock, serverSock, pass>>

\* Faulty form of SeesHangUp: the pump goes on.
HangUpUnseen(s) == FALSE

\* A read or a write of the pump fails: because the client hung up, ...
SeesHangUp(s) ==
  /\ At(s, "pump", "closeC") /\ Behind(clientSock[s]) \in gone
  /\ UNCHANGED <<clientVars, fd, mainVars, clientSock, serverSock, pass, residue>>

\* Faulty form of SessionFails: only the server's socket is closed.
KeepsClient(s) ==
  /\ At(s, "pump", "closeS")
  /\ UNCHANGED <<clientVars, fd, mainVars, clientSock, serverSock, pass, residue>>

\* ... or for any other reason: the server, a bad message, a blocked write.
SessionFails(s) ==
  /\ At(s, "pump", "closeC")
  /\ UNCHANGED <<clientVars, fd, mainVars, clientSock, serverSock, pass, residue>>

CloseClient(s) ==
  /\ At(s, "closeC", "clearC")
  /\ Closes(clientSock[s])
  /\ UNCHANGED <<clientVars, mainVars, clientSock, serverSock, pass, residue>>

\* From here on the main thread may give the context another client.
ClearClient(s) ==
  /\ At(s, "clearC", "closeS")
  /\ clientSock' = [clientSock EXCEPT ![s] = Invalid]
  /\ UNCHANGED <<clientVars, fd, mainVars, serverSock, pass, residue>>

CloseServer(s) ==
  /\ At(s, "closeS", "clearS")
  /\ Closes(serverSock[s])
  /\ UNCHANGED <<clientVars, mainVars, clientSock, serverSock, pass, residue>>

ClearServer(s) ==
  /\ At(s, "clearS", "wait")
  /\ serverSock' = [serverSock EXCEPT ![s] = Invalid]
  /\ UNCHANGED <<clientVars, fd, mainVars, clientSock, pass, residue>>

Worker(s) ==
  \/ SeesClient(s) \/ Connects(s) \/ ConnectFails(s) \/ FreeAfterFailure(s)
  \/ Pumps(s) \/ SeesHangUp(s)
  \/ CloseClient(s) \/ ClearClient(s) \/ CloseServer(s) \/ ClearServer(s)

-----------------------------------------------------------------------------
\* The process has ended.
Ended ==
  /\ main = "exit"
  /\ UNCHANGED vars

Next ==
  \/ ClientConnects
  \/ \E c \in Clients : ClientLeaves(c)
  \/ Main \/ SelectFails
  \/ \E s \in Ctx : Worker(s) \/ SessionFails(s)
  \/ Ended

Spec == Init /\ [][Next]_vars

\* The threads keep running; a session with both peers in place may last, and
\* select need not fail.
FairSpec == Spec /\ WF_vars(Main) /\ \A s \in Ctx : WF_vars(Worker(s))

-----------------------------------------------------------------------------
(* Properties *)

\* The main thread still holds the descriptor it accepted.
HoldsFresh == main \in {"scan", "create", "reset"} \/ (main = "hand" /\ "socket" \in pending)

\* The thread of s, or the one that will see it, has yet to close the socket.
HoldsClient(s) == clientSock[s] # Invalid /\ wpc[s] \notin {"failed", "clearC"}
HoldsServer(s) == serverSock[s] # Invalid /\ wpc[s] # "clearS"

HoldsListener == main \notin {"init", "socket", "exit"}

HoldsAny(k) ==
  \/ HoldsListener /\ listenSock = k
  \/ HoldsFresh /\ fresh = k
  \/ \E s \in Ctx : HoldsClient(s) /\ clientSock[s] = k
  \/ \E s \in Ctx : HoldsServer(s) /\ serverSock[s] = k

\* A held descriptor is open, and of the kind its holder takes it for.
HeldAreOpen ==
  /\ HoldsListener => fd[listenSock] = Listener
  /\ HoldsFresh => fd[fresh] \in {"client"} \X Clients
  /\ \A s \in Ctx :
       /\ HoldsClient(s) => fd[clientSock[s]] \in {"client"} \X Clients
       /\ HoldsServer(s) => fd[serverSock[s]] \in {"server"} \X Clients

HeldOnce ==
  \A s \in Ctx :
    /\ HoldsFresh /\ HoldsClient(s) => clientSock[s] # fresh
    /\ \A t \in Ctx \ {s} :
         /\ HoldsClient(s) /\ HoldsClient(t) => clientSock[s] # clientSock[t]
         /\ HoldsServer(s) /\ HoldsServer(t) => serverSock[s] # serverSock[t]

\* Every open descriptor is held by exactly one thread, which will close it,
\* and nobody holds a closed one, although the kernel hands the numbers out
\* again while a context still names them (smbgw.c:332, 333: closesocket, then
\* the store; gwtcp.c:101, 154: accept and socket of other threads in between).
\* The listening socket stays the main thread's from socket to the end.
DescriptorsOwned ==
  Alive => HeldAreOpen /\ HeldOnce /\ \A k \in Fd : fd[k] # Free => HoldsAny(k)

\* A thread pumps between a client and the server connection opened for that
\* client, also when the context got its client while the thread was still
\* closing the last one (smbgw.c:336-340 after 333).
SessionPairing ==
  Alive => \A s \in Ctx : wpc[s] = "pump" =>
    /\ clientSock[s] # Invalid /\ serverSock[s] # Invalid
    /\ \E c \in Clients : /\ fd[clientSock[s]] = <<"client", c>>
                          /\ fd[serverSock[s]] = <<"server", c>>

\* The main thread resets the rings of a context only when its thread neither
\* uses them nor may come to use them, and they are empty or hold bytes of
\* the current client when the thread does (smbgw.c:444-459 against 106-322).
RingsExclusive ==
  Alive =>
    /\ main \in {"create", "reset"} \/ (main = "hand" /\ "socket" \in pending) =>
         /\ clientSock[idx] = Invalid
         /\ wpc[idx] \in {"none", "wait", "closeS", "clearS"}
    /\ \A s \in Ctx : wpc[s] = "pump" => residue[s] \in {Nobody, Behind(clientSock[s])}

Open(c)   == \E k \in Fd : fd[k] = <<"client", c>>
Served(c) == \E s \in Ctx : wpc[s] = "pump" /\ fd[clientSock[s]] = <<"client", c>>

Waiting(c) == \E i \in 1 .. Len(backlog) : backlog[i] = c

ServerOf == {c \in Clients : \E k \in Fd : fd[k] = <<"server", c>>}

Stage(c) ==
  IF c > arrived THEN "away"
  ELSE IF Waiting(c) THEN "queued"
  ELSE IF Open(c) THEN "inside" ELSE "closed"

Abstract == INSTANCE Service WITH
  Visitors <- Clients,
  Capacity <- MaxConn,
  running  <- IF main = "exit" THEN "stopped" ELSE IF Listening THEN "open" ELSE "setup",
  queue    <- backlog,
  stage    <- [c \in Clients |-> Stage(c)],
  upstream <- ServerOf

\* Whatever the threads' interleaving, clients and server see the service that
\* module Service describes: first come first served, one server connection per
\* client, opened while the client is open and closed after it and never again,
\* no more of them than contexts, nothing left at the end (main.cc:162-181,
\* smbgw.c:44-345 and 427-474 through the descriptors alone).
ServiceRefined == Abstract!ServiceSpec

\* Every client that connects gets a server connection of its own or is
\* closed (main.cc:162: accept connections and hand them off to a handling
\* thread); nobody is left in the backlog, in the main thread's hands or in a
\* context whose thread does not run.
ClientAnswered ==
  \A c \in Clients : c <= arrived ~> (Served(c) \/ (~ Waiting(c) /\ ~ Open(c)))

\* A context is given back after its client hung up, and so is everything that
\* was opened for the client.
LeaverReleased ==
  \A c \in Clients :
    (c \in gone /\ Open(c)) ~> \A k \in Fd : fd[k] = Free \/ Behind(k) # c

\* smbgw.c:468 calls it an internal error that no context is found.  It should
\* not be one as long as no more clients are connected than there are contexts.
NoInternalError == main = "scan" => idx \in Ctx

=============================================================================
