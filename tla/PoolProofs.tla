----------------------------- MODULE PoolProofs -----------------------------
(***************************************************************************)
(* Theorems of Pool for any number of contexts, clients and descriptors:   *)
(* who holds which descriptor, that a session joins a client with its own  *)
(* server connection, that the main thread and a connection thread never   *)
(* use the same rings, and that the whole implements module Service.       *)
(***************************************************************************)
EXTENDS Pool, FiniteSetTheorems, TLAPS

-----------------------------------------------------------------------------
(* The inductive invariant. *)

\* Where the thread of a context is tells which of its sockets are set.
Places ==
  \A s \in Ctx :
    /\ wpc[s] = "none" => clientSock[s] = Invalid
    /\ wpc[s] \in {"connect", "failed", "pump", "closeC", "clearC"} => clientSock[s] # Invalid
    /\ serverSock[s] # Invalid <=> wpc[s] \in {"pump", "closeC", "clearC", "closeS", "clearS"}

\* Where the main thread is tells which sockets it has; smbgw_proxy_start goes
\* on with a context that is free and stays free.
MainPlace ==
  /\ HoldsListener => listenSock # Invalid
  /\ HoldsFresh => fresh # Invalid
  /\ main = "create" => wpc[idx] = "none"
  /\ main \in {"reset", "hand"} => wpc[idx] # "none"
  /\ HoldsFresh /\ main # "scan" => clientSock[idx] = Invalid
  /\ main = "hand" <=> pending # {}

EveryOpenHeld == \A k \in Fd : fd[k] # Free => HoldsAny(k)

\* How many clients were accepted: those who came and do not wait.
Taken == arrived - Len(backlog)

\* The last ones wait, in the order in which they came.
QueueInOrder ==
  /\ Len(backlog) <= arrived
  /\ \A i \in 1 .. Len(backlog) : backlog[i] = Taken + i

\* Descriptors are opened for accepted clients only, ...
OnlyForTaken == \A k \in Fd : fd[k] \in Ends => fd[k][2] <= Taken

\* ... and one for each end of a client's session.
OpenOnce == \A j, k \in Fd : fd[j] # Free /\ fd[j] = fd[k] => j = k

\* A server connection is its session's client's, and outlives it: so there is
\* no other for that client.
OfSameClient ==
  \A s \in Ctx :
    /\ wpc[s] \in {"pump", "closeC"} => fd[serverSock[s]] = <<"server", Behind(clientSock[s])>>
    /\ wpc[s] \in {"clearC", "closeS"} =>
         \A k \in Fd : fd[k] # <<"client", Behind(serverSock[s])>>

\* The rings were reset before the context got the client it has, and the
\* thread puts bytes of that client into them only.
RingsClean ==
  /\ main = "hand" /\ "socket" \in pending => residue[idx] = Nobody
  /\ \A s \in Ctx :
       /\ clientSock[s] # Invalid /\ wpc[s] \in {"wait", "connect", "closeS", "clearS"}
            => residue[s] = Nobody
       /\ wpc[s] = "pump" => residue[s] \in {Nobody, Behind(clientSock[s])}

IInv ==
  /\ TypeOK /\ Places
  /\ Alive => /\ MainPlace /\ RingsClean
              /\ HeldAreOpen /\ HeldOnce /\ EveryOpenHeld
              /\ QueueInOrder /\ OnlyForTaken /\ OpenOnce /\ OfSameClient

USE DEF Ctx, Fd, Invalid, Clients, Nobody, Ends, Free, Listener, Behind

-----------------------------------------------------------------------------
(* Descriptors and their holders. *)

\* A pair is neither a free descriptor nor the listening socket.
LEMMA EndsApart ==
  \A e \in Ends : /\ e = <<e[1], e[2]>> /\ e[1] \in {"client", "server"} /\ e[2] \in Clients
                  /\ e # Free /\ e # Listener
<1> SUFFICES ASSUME NEW a \in {"client", "server"}, NEW c \in Clients
             PROVE  <<a, c>> # Free /\ <<a, c>> # Listener
  OBVIOUS
<1>1. a # "listener"
  OBVIOUS
<1> QED BY <1>1

\* Two holders never hold the same descriptor.
LEMMA HoldersApart ==
  ASSUME HeldAreOpen
  PROVE  \A s, t \in Ctx :
           /\ HoldsClient(s) /\ HoldsServer(t) => clientSock[s] # serverSock[t]
           /\ HoldsListener /\ HoldsClient(s) => clientSock[s] # listenSock
           /\ HoldsListener /\ HoldsServer(s) => serverSock[s] # listenSock
           /\ HoldsFresh /\ HoldsServer(s) => serverSock[s] # fresh
BY DEF HeldAreOpen

\* What a thread holds is open.
LEMMA HeldClient ==
  ASSUME IInv, Alive, NEW s \in Ctx, HoldsClient(s)
  PROVE  /\ clientSock[s] \in Fd /\ fd[clientSock[s]] # Free
         /\ fd[clientSock[s]] \in Ends /\ Behind(clientSock[s]) \in Clients
         /\ fd[clientSock[s]] = <<"client", Behind(clientSock[s])>>
<1>1. clientSock[s] \in Fd /\ fd[clientSock[s]] \in {"client"} \X Clients
  BY DEF IInv, TypeOK, HeldAreOpen, HoldsClient
<1> QED BY <1>1, EndsApart

LEMMA HeldServer ==
  ASSUME IInv, Alive, NEW s \in Ctx, HoldsServer(s)
  PROVE  /\ serverSock[s] \in Fd /\ fd[serverSock[s]] # Free
         /\ fd[serverSock[s]] \in Ends /\ Behind(serverSock[s]) \in Clients
         /\ fd[serverSock[s]] = <<"server", Behind(serverSock[s])>>
<1>1. serverSock[s] \in Fd /\ fd[serverSock[s]] \in {"server"} \X Clients
  BY DEF IInv, TypeOK, HeldAreOpen, HoldsServer
<1> QED BY <1>1, EndsApart

\* In a session the thread holds both, until it closes them.
LEMMA SessionHolds ==
  ASSUME IInv, Alive, NEW s \in Ctx
  PROVE  /\ wpc[s] \in {"connect", "pump", "closeC"} => HoldsClient(s)
         /\ wpc[s] \in {"pump", "closeC", "clearC", "closeS"} <=> HoldsServer(s)
BY DEF IInv, Places, HoldsClient, HoldsServer

\* A step that opens and closes nothing and leaves every descriptor with its
\* holder disturbs nothing that is said of descriptors.
LEMMA SameHolders ==
  ASSUME IInv, Alive, UNCHANGED <<arrived, backlog, fd>>,
         HoldsListener' <=> HoldsListener, HoldsListener => listenSock' = listenSock,
         HoldsFresh' <=> HoldsFresh, HoldsFresh => fresh' = fresh,
         \A s \in Ctx : /\ HoldsClient(s)' <=> HoldsClient(s)
                        /\ HoldsClient(s) => clientSock'[s] = clientSock[s]
                        /\ HoldsServer(s)' <=> HoldsServer(s)
                        /\ HoldsServer(s) => serverSock'[s] = serverSock[s]
  PROVE  /\ HeldAreOpen' /\ HeldOnce' /\ EveryOpenHeld'
         /\ QueueInOrder' /\ OnlyForTaken' /\ OpenOnce'
<1>1. HeldAreOpen'
  BY DEF IInv, HeldAreOpen
<1>2. HeldOnce'
  BY DEF IInv, HeldOnce
<1>3. EveryOpenHeld'
  <2> SUFFICES ASSUME NEW k \in Fd, fd[k] # Free PROVE HoldsAny(k)'
    BY DEF EveryOpenHeld
  <2>1. HoldsAny(k)
    BY DEF IInv, EveryOpenHeld
  <2> QED BY <2>1 DEF HoldsAny
<1>4. QueueInOrder' /\ OnlyForTaken' /\ OpenOnce'
  BY DEF IInv, QueueInOrder, OnlyForTaken, OpenOnce, Taken
<1> QED BY <1>1, <1>2, <1>3, <1>4

\* A step that opens descriptor k as e, of which there is no other one.
LEMMA OpensOne ==
  ASSUME IInv, Alive, NEW k \in Fd, fd[k] = Free, NEW e, \A j \in Fd : fd[j] # e,
         fd' = [fd EXCEPT ![k] = e],
         Taken' \in Int, Taken <= Taken', e = Listener \/ (e \in Ends /\ e[2] <= Taken')
  PROVE  OnlyForTaken' /\ OpenOnce'
<1>1. fd \in [Fd -> Ends \cup {Free, Listener}] /\ Taken \in Int
  BY DEF IInv, TypeOK, Taken
<1>2. /\ \A j \in Fd : fd'[j] = IF j = k THEN e ELSE fd[j]
      /\ Listener \notin Ends
  BY <1>1
<1>3. OpenOnce'
  BY <1>2 DEF IInv, OpenOnce
<1>4. OnlyForTaken'
  <2> SUFFICES ASSUME NEW j \in Fd, fd'[j] \in Ends PROVE fd'[j][2] <= Taken'
    BY DEF OnlyForTaken
  <2>1. CASE j = k
    BY <2>1, <1>2
  <2>2. CASE j # k
    <3>1. fd'[j] = fd[j] /\ fd[j][2] <= Taken /\ fd[j][2] \in Int
      BY <2>2, <1>2 DEF IInv, OnlyForTaken
    <3> QED BY <3>1, <1>1
  <2> QED BY <2>1, <2>2
<1> QED BY <1>3, <1>4

\* A step that closes descriptor k.
LEMMA ClosesOne ==
  ASSUME IInv, Alive, NEW k \in Fd, Closes(k), UNCHANGED <<arrived, backlog>>
  PROVE  OnlyForTaken' /\ OpenOnce' /\ QueueInOrder'
BY DEF IInv, TypeOK, Closes, OnlyForTaken, OpenOnce, QueueInOrder, Taken
-----------------------------------------------------------------------------
(* Steps that open and close nothing. *)

\* The main thread sets up its table, looks for a context, starts its thread,
\* resets its rings and stores the flag.
LEMMA MainKeepsHolders ==
  ASSUME IInv, Alive,
         TableReady \/ ListenerReady \/ ContextTaken \/ ContextFound \/ ThreadStarts
           \/ ResetRings \/ StoreMode
  PROVE  IInv'
<1> USE DEF Alive, HoldsFresh, HoldsListener, HoldsClient, HoldsServer, mainVars, ctxVars, clientVars
<1>1. ASSUME TableReady PROVE IInv'
  <2>1. TypeOK'
    BY <1>1 DEF IInv, TypeOK, Places, TableReady
  <2>2. Places' /\ MainPlace' /\ RingsClean'
    BY <1>1 DEF IInv, TypeOK, Places, MainPlace, RingsClean, TableReady
  <2>3. OfSameClient'
    BY <1>1 DEF IInv, TypeOK, Places, OfSameClient, TableReady
  <2>4. /\ HeldAreOpen' /\ HeldOnce' /\ EveryOpenHeld'
        /\ QueueInOrder' /\ OnlyForTaken' /\ OpenOnce'
    BY <1>1, SameHolders DEF IInv, TypeOK, Places, MainPlace, TableReady
  <2> QED BY <2>1, <2>2, <2>3, <2>4 DEF IInv
<1>2. ASSUME ListenerReady PROVE IInv'
  <2>1. TypeOK'
    BY <1>2 DEF IInv, TypeOK, Places, ListenerReady, SetUp
  <2>2. Places' /\ MainPlace' /\ RingsClean'
    BY <1>2 DEF IInv, TypeOK, Places, MainPlace, RingsClean, ListenerReady, SetUp
  <2>3. OfSameClient'
    BY ZenonT(60), <1>2 DEF IInv, TypeOK, Places, OfSameClient, ListenerReady, SetUp
  <2>4. /\ HeldAreOpen' /\ HeldOnce' /\ EveryOpenHeld'
        /\ QueueInOrder' /\ OnlyForTaken' /\ OpenOnce'
    BY <1>2, SameHolders DEF IInv, TypeOK, Places, MainPlace, ListenerReady, SetUp
  <2> QED BY <2>1, <2>2, <2>3, <2>4 DEF IInv
<1>3. ASSUME ContextTaken PROVE IInv'
  <2>1. TypeOK'
    <3>1. idx \in 1 .. MaxConn /\ idx' = idx + 1 /\ main = "scan" /\ main' = "scan"
      BY <1>3 DEF ContextTaken, NextIndex
    <3>2. idx' \in 1 .. MaxConn + 1
      BY <3>1, PoolAssumption
    <3> QED BY <1>3, <3>1, <3>2 DEF IInv, TypeOK, ContextTaken
  <2>2. Places' /\ MainPlace' /\ RingsClean'
    BY <1>3 DEF IInv, TypeOK, Places, MainPlace, RingsClean, ContextTaken, ContextFree, NextIndex
  <2>3. OfSameClient'
    BY <1>3 DEF IInv, TypeOK, Places, OfSameClient, ContextTaken, ContextFree, NextIndex
  <2>4. /\ HeldAreOpen' /\ HeldOnce' /\ EveryOpenHeld'
        /\ QueueInOrder' /\ OnlyForTaken' /\ OpenOnce'
    BY <1>3, SameHolders DEF IInv, TypeOK, Places, MainPlace, ContextTaken, ContextFree, NextIndex
  <2> QED BY <2>1, <2>2, <2>3, <2>4 DEF IInv
<1>4. ASSUME ContextFound PROVE IInv'
  <2>1. TypeOK'
    BY <1>4 DEF IInv, TypeOK, Places, ContextFound, ContextFree, NeedsThread
  <2>2. Places' /\ MainPlace' /\ RingsClean'
    BY <1>4 DEF IInv, TypeOK, Places, MainPlace, RingsClean, ContextFound, ContextFree, NeedsThread
  <2>3. OfSameClient'
    BY <1>4 DEF IInv, TypeOK, Places, OfSameClient, ContextFound, ContextFree, NeedsThread
  <2>4. /\ HeldAreOpen' /\ HeldOnce' /\ EveryOpenHeld'
        /\ QueueInOrder' /\ OnlyForTaken' /\ OpenOnce'
    BY <1>4, SameHolders DEF IInv, TypeOK, Places, MainPlace, ContextFound, ContextFree, NeedsThread
  <2> QED BY <2>1, <2>2, <2>3, <2>4 DEF IInv
<1>5. ASSUME ThreadStarts PROVE IInv'
  <2>1. TypeOK'
    BY <1>5 DEF IInv, TypeOK, Places, ThreadStarts
  <2>2. Places' /\ MainPlace' /\ RingsClean'
    BY <1>5 DEF IInv, TypeOK, Places, MainPlace, RingsClean, ThreadStarts
  <2>3. OfSameClient'
    BY <1>5 DEF IInv, TypeOK, Places, OfSameClient, ThreadStarts
  <2>4. /\ HeldAreOpen' /\ HeldOnce' /\ EveryOpenHeld'
        /\ QueueInOrder' /\ OnlyForTaken' /\ OpenOnce'
    BY <1>5, SameHolders DEF IInv, TypeOK, Places, MainPlace, ThreadStarts
  <2> QED BY <2>1, <2>2, <2>3, <2>4 DEF IInv
<1>6. ASSUME ResetRings PROVE IInv'
  <2>1. TypeOK'
    BY <1>6 DEF IInv, TypeOK, Places, ResetRings, Resets
  <2>2. Places' /\ MainPlace' /\ RingsClean'
    BY <1>6 DEF IInv, TypeOK, Places, MainPlace, RingsClean, ResetRings, Resets
  <2>3. OfSameClient'
    BY <1>6 DEF IInv, TypeOK, Places, OfSameClient, ResetRings, Resets
  <2>4. /\ HeldAreOpen' /\ HeldOnce' /\ EveryOpenHeld'
        /\ QueueInOrder' /\ OnlyForTaken' /\ OpenOnce'
    BY <1>6, SameHolders DEF IInv, TypeOK, Places, MainPlace, ResetRings, Resets
  <2> QED BY <2>1, <2>2, <2>3, <2>4 DEF IInv
<1>7. ASSUME StoreMode PROVE IInv'
  <2>1. TypeOK'
    <3>1. /\ main = "hand" /\ idx \in Ctx /\ main' \in {"hand", "accept"}
          /\ pending' \subseteq {"socket", "mode"} /\ fresh' \in Fd \cup {Invalid}
      BY <1>7 DEF IInv, TypeOK, StoreMode, Stored
    <3>2. pass' \in [Ctx -> BOOLEAN]
      BY <1>7, PoolAssumption DEF IInv, TypeOK, StoreMode
    <3> QED BY SMTT(60), PoolAssumption, <1>7, <3>1, <3>2 DEF IInv, TypeOK, StoreMode, Stored
  <2>2. Places' /\ MainPlace' /\ RingsClean'
    BY <1>7 DEF IInv, TypeOK, Places, MainPlace, RingsClean, StoreMode, Stored
  <2>3. OfSameClient'
    BY <1>7 DEF IInv, TypeOK, Places, OfSameClient, StoreMode, Stored
  <2>4. /\ HeldAreOpen' /\ HeldOnce' /\ EveryOpenHeld'
        /\ QueueInOrder' /\ OnlyForTaken' /\ OpenOnce'
    BY <1>7, SameHolders DEF IInv, TypeOK, Places, MainPlace, StoreMode, Stored
  <2> QED BY <2>1, <2>2, <2>3, <2>4 DEF IInv
<1> QED BY <1>1, <1>2, <1>3, <1>4, <1>5, <1>6, <1>7

\* A connection thread sees its client, pumps, sees the session end, and
\* marks its sockets invalid after it closed them.
LEMMA WorkerKeepsHolders ==
  ASSUME IInv, NEW s \in Ctx,
         SeesClient(s) \/ FreeAfterFailure(s) \/ Pumps(s) \/ SeesHangUp(s) \/ SessionFails(s)
           \/ ClearClient(s) \/ ClearServer(s)
  PROVE  IInv'
<1> USE DEF Alive, HoldsFresh, HoldsListener, HoldsClient, HoldsServer, mainVars, ctxVars, clientVars
<1>0. Alive
  BY DEF SeesClient, FreeAfterFailure, Pumps, SeesHangUp, SessionFails, ClearClient, ClearServer, At
<1>1. ASSUME SeesClient(s) PROVE IInv'
  <2>1. TypeOK'
    BY <1>0, <1>1 DEF IInv, TypeOK, Places, SeesClient, At
  <2>2. Places' /\ MainPlace' /\ RingsClean'
    BY <1>0, <1>1 DEF IInv, TypeOK, Places, MainPlace, RingsClean, SeesClient, At
  <2>3. OfSameClient'
    BY <1>0, <1>1 DEF IInv, TypeOK, Places, OfSameClient, SeesClient, At
  <2>4. /\ HeldAreOpen' /\ HeldOnce' /\ EveryOpenHeld'
        /\ QueueInOrder' /\ OnlyForTaken' /\ OpenOnce'
    BY <1>1, <1>0, SameHolders DEF IInv, TypeOK, Places, MainPlace, SeesClient, At
  <2> QED BY <2>1, <2>2, <2>3, <2>4 DEF IInv
<1>2. ASSUME FreeAfterFailure(s) PROVE IInv'
  <2>1. TypeOK'
    BY <1>0, <1>2 DEF IInv, TypeOK, Places, FreeAfterFailure, At
  <2>2. Places' /\ MainPlace' /\ RingsClean'
    BY <1>0, <1>2 DEF IInv, TypeOK, Places, MainPlace, RingsClean, FreeAfterFailure, At
  <2>3. OfSameClient'
    BY <1>0, <1>2 DEF IInv, TypeOK, Places, OfSameClient, FreeAfterFailure, At
  <2>4. /\ HeldAreOpen' /\ HeldOnce' /\ EveryOpenHeld'
        /\ QueueInOrder' /\ OnlyForTaken' /\ OpenOnce'
    BY <1>2, <1>0, SameHolders DEF IInv, TypeOK, Places, MainPlace, FreeAfterFailure, At
  <2> QED BY <2>1, <2>2, <2>3, <2>4 DEF IInv
<1>3. ASSUME Pumps(s) PROVE IInv'
  <2>1. TypeOK'
    <3>1. fd[clientSock[s]] \in {"client"} \X Clients
      BY <1>0, <1>3 DEF IInv, HeldAreOpen, Places, Pumps
    <3> QED BY <1>3, <3>1 DEF IInv, TypeOK, Pumps
  <2>2. Places' /\ MainPlace' /\ RingsClean'
    BY <1>0, <1>3 DEF IInv, TypeOK, Places, MainPlace, RingsClean, Pumps
  <2>3. OfSameClient'
    BY <1>0, <1>3 DEF IInv, TypeOK, Places, OfSameClient, Pumps
  <2>4. /\ HeldAreOpen' /\ HeldOnce' /\ EveryOpenHeld'
        /\ QueueInOrder' /\ OnlyForTaken' /\ OpenOnce'
    BY <1>3, <1>0, SameHolders DEF IInv, TypeOK, Places, MainPlace, Pumps
  <2> QED BY <2>1, <2>2, <2>3, <2>4 DEF IInv
<1>4. ASSUME SeesHangUp(s) PROVE IInv'
  <2>1. TypeOK'
    BY <1>0, <1>4 DEF IInv, TypeOK, Places, SeesHangUp, At
  <2>2. Places' /\ MainPlace' /\ RingsClean'
    BY <1>0, <1>4 DEF IInv, TypeOK, Places, MainPlace, RingsClean, SeesHangUp, At
  <2>3. OfSameClient'
    BY <1>0, <1>4 DEF IInv, TypeOK, Places, OfSameClient, SeesHangUp, At
  <2>4. /\ HeldAreOpen' /\ HeldOnce' /\ EveryOpenHeld'
        /\ QueueInOrder' /\ OnlyForTaken' /\ OpenOnce'
    BY SMTT(60), <1>4, <1>0, SameHolders DEF IInv, TypeOK, Places, MainPlace, SeesHangUp, At
  <2> QED BY <2>1, <2>2, <2>3, <2>4 DEF IInv
<1>5. ASSUME SessionFails(s) PROVE IInv'
  <2>1. TypeOK'
    BY <1>0, <1>5 DEF IInv, TypeOK, Places, SessionFails, At
  <2>2. Places' /\ MainPlace' /\ RingsClean'
    BY <1>0, <1>5 DEF IInv, TypeOK, Places, MainPlace, RingsClean, SessionFails, At
  <2>3. OfSameClient'
    BY <1>0, <1>5 DEF IInv, TypeOK, Places, OfSameClient, SessionFails, At
  <2>4. /\ HeldAreOpen' /\ HeldOnce' /\ EveryOpenHeld'
        /\ QueueInOrder' /\ OnlyForTaken' /\ OpenOnce'
    BY <1>5, <1>0, SameHolders DEF IInv, TypeOK, Places, MainPlace, SessionFails, At
  <2> QED BY <2>1, <2>2, <2>3, <2>4 DEF IInv
<1>6. ASSUME ClearClient(s) PROVE IInv'
  <2>1. TypeOK'
    BY <1>0, <1>6 DEF IInv, TypeOK, Places, ClearClient, At
  <2>2. Places' /\ MainPlace' /\ RingsClean'
    BY <1>0, <1>6 DEF IInv, TypeOK, Places, MainPlace, RingsClean, ClearClient, At
  <2>3. OfSameClient'
    BY <1>0, <1>6 DEF IInv, TypeOK, Places, OfSameClient, ClearClient, At
  <2>4. /\ HeldAreOpen' /\ HeldOnce' /\ EveryOpenHeld'
        /\ QueueInOrder' /\ OnlyForTaken' /\ OpenOnce'
    BY <1>6, <1>0, SameHolders DEF IInv, TypeOK, Places, MainPlace, ClearClient, At
  <2> QED BY <2>1, <2>2, <2>3, <2>4 DEF IInv
<1>7. ASSUME ClearServer(s) PROVE IInv'
  <2>1. TypeOK'
    BY <1>0, <1>7 DEF IInv, TypeOK, Places, ClearServer, At
  <2>2. Places' /\ MainPlace' /\ RingsClean'
    BY <1>0, <1>7 DEF IInv, TypeOK, Places, MainPlace, RingsClean, ClearServer, At
  <2>3. OfSameClient'
    BY <1>0, <1>7 DEF IInv, TypeOK, Places, OfSameClient, ClearServer, At
  <2>4. /\ HeldAreOpen' /\ HeldOnce' /\ EveryOpenHeld'
        /\ QueueInOrder' /\ OnlyForTaken' /\ OpenOnce'
    BY <1>7, <1>0, SameHolders DEF IInv, TypeOK, Places, MainPlace, ClearServer, At
  <2> QED BY <2>1, <2>2, <2>3, <2>4 DEF IInv
<1> QED BY <1>1, <1>2, <1>3, <1>4, <1>5, <1>6, <1>7

-----------------------------------------------------------------------------
(* Steps that open a descriptor, hand it on, or close it. *)

\* The kernel and the clients: the queue grows at its end.
LEMMA ClientsKeepInvariant ==
  ASSUME IInv, ClientConnects \/ \E c \in Clients : ClientLeaves(c)
  PROVE  IInv'
<1> USE DEF Alive, HoldsFresh, HoldsListener, HoldsClient, HoldsServer, mainVars, ctxVars
<1>1. CASE ClientConnects
  <2>1. /\ Alive /\ arrived \in Nat /\ arrived' = arrived + 1 /\ arrived' \in 1 .. NumClients
        /\ backlog \in Seq(1 .. NumClients) /\ backlog' = Append(backlog, arrived')
        /\ UNCHANGED <<gone, fd, mainVars, ctxVars>>
    BY <1>1, PoolAssumption DEF ClientConnects, Listening, IInv, TypeOK
  <2>2. /\ backlog' \in Seq(1 .. NumClients) /\ Len(backlog') = Len(backlog) + 1
        /\ Len(backlog) \in Nat /\ backlog'[Len(backlog) + 1] = arrived'
        /\ \A i \in 1 .. Len(backlog) : backlog'[i] = backlog[i]
    BY <2>1
  <2>3. TypeOK'
    BY <2>1, <2>2 DEF IInv, TypeOK
  <2>4. Taken' = Taken
    BY <2>1, <2>2 DEF Taken
  <2>5. QueueInOrder'
    <3>1. \A i \in 1 .. Len(backlog') : i \in 1 .. Len(backlog) \/ i = Len(backlog) + 1
      BY <2>2
    <3>2. arrived' = Taken + Len(backlog) + 1
      BY <2>1, <2>2 DEF Taken
    <3>3. Len(backlog) <= arrived /\ \A i \in 1 .. Len(backlog) : backlog[i] = Taken + i
      BY <2>1 DEF IInv, QueueInOrder
    <3>4. Taken \in Int
      BY <2>1, <2>2 DEF Taken
    <3>5. \A i \in 1 .. Len(backlog') : backlog'[i] = Taken + i
      BY SMTT(60), <2>1, <2>2, <3>1, <3>2, <3>3, <3>4
    <3>6. Len(backlog') <= arrived'
      BY <2>1, <2>2, <3>3
    <3> QED BY <2>4, <3>5, <3>6 DEF QueueInOrder
  <2>6. /\ Places' /\ MainPlace' /\ RingsClean'
        /\ HeldAreOpen' /\ HeldOnce' /\ OpenOnce' /\ OfSameClient'
    BY <2>1 DEF IInv, Places, MainPlace, RingsClean, HeldAreOpen, HeldOnce,
                OpenOnce, OfSameClient
  <2>7. EveryOpenHeld'
    BY <2>1 DEF IInv, EveryOpenHeld, HoldsAny
  <2>8. OnlyForTaken'
    BY <2>1, <2>4 DEF IInv, OnlyForTaken
  <2> QED BY <2>3, <2>5, <2>6, <2>7, <2>8 DEF IInv
<1>2. ASSUME NEW c \in Clients, ClientLeaves(c) PROVE IInv'
  <2>1. gone' \subseteq 1 .. arrived' /\ UNCHANGED <<arrived, backlog, fd, mainVars, ctxVars>>
    BY <1>2 DEF ClientLeaves, IInv, TypeOK
  <2>2. TypeOK' /\ Places'
    BY <2>1 DEF IInv, TypeOK, Places
  <2>3. Alive => MainPlace' /\ RingsClean' /\ OfSameClient'
    BY <2>1 DEF IInv, MainPlace, RingsClean, OfSameClient
  <2>4. Alive => /\ HeldAreOpen' /\ HeldOnce' /\ EveryOpenHeld'
                 /\ QueueInOrder' /\ OnlyForTaken' /\ OpenOnce'
    BY <2>1, SameHolders
  <2> QED BY <2>1, <2>2, <2>3, <2>4 DEF IInv
<1> QED BY <1>1, <1>2

\* A time-out of select, and the end.
LEMMA StutterKeepsInvariant ==
  ASSUME IInv, UNCHANGED vars
  PROVE  IInv'
<1> USE DEF vars, clientVars, mainVars, ctxVars
<1>1. TypeOK' /\ Places' /\ (Alive' <=> Alive)
  BY DEF IInv, TypeOK, Places, Alive
<1>2. Alive => MainPlace' /\ RingsClean' /\ OfSameClient'
  BY DEF IInv, MainPlace, RingsClean, OfSameClient, HoldsListener, HoldsFresh
<1>3. Alive => /\ HeldAreOpen' /\ HeldOnce' /\ EveryOpenHeld'
               /\ QueueInOrder' /\ OnlyForTaken' /\ OpenOnce'
  BY SameHolders DEF HoldsListener, HoldsFresh, HoldsClient, HoldsServer
<1> QED BY <1>1, <1>2, <1>3 DEF IInv

\* main returns: nothing is said of descriptors any more.
LEMMA ExitKeepsInvariant ==
  ASSUME IInv, Exit, main # "hand"
  PROVE  IInv'
<1>1. TypeOK'
  <2>1. idx \in 1 .. MaxConn + 1
    BY PoolAssumption DEF IInv, TypeOK
  <2> QED BY <2>1 DEF IInv, TypeOK, Exit, ctxVars
<1>2. Places'
  BY DEF IInv, Places, Exit, ctxVars
<1> QED BY <1>1, <1>2 DEF IInv, Alive, Exit

\* tcp_listen_on_port opens the first descriptor there is.
LEMMA SocketOpensStep ==
  ASSUME IInv, SocketOpens
  PROVE  IInv'
<1> USE DEF Alive, HoldsFresh, HoldsListener, HoldsClient, HoldsServer, mainVars, ctxVars, clientVars
<1>1. PICK k \in Fd : LowestFree(k) /\ fd' = [fd EXCEPT ![k] = Listener] /\ listenSock' = k
  BY DEF SocketOpens
<1>2. /\ main = "socket" /\ main' = "options" /\ fd[k] = Free
      /\ UNCHANGED <<clientVars, fresh, idx, pending, ctxVars>>
  BY <1>1 DEF SocketOpens, LowestFree
<1>3. /\ fd \in [Fd -> Ends \cup {Free, Listener}]
      /\ \A j \in Fd : fd'[j] = IF j = k THEN Listener ELSE fd[j]
  BY <1>1 DEF IInv, TypeOK
<1>4. TypeOK'
  BY <1>1, <1>2, PoolAssumption DEF IInv, TypeOK
<1>5. Places' /\ MainPlace' /\ QueueInOrder' /\ Taken' = Taken
  BY <1>1, <1>2 DEF IInv, Places, MainPlace, QueueInOrder, Taken
<1>6. HeldAreOpen' /\ HeldOnce'
  BY <1>1, <1>2, <1>3 DEF IInv, HeldAreOpen, HeldOnce
<1>7. EveryOpenHeld'
  <2> SUFFICES ASSUME NEW j \in Fd, fd'[j] # Free PROVE HoldsAny(j)'
    BY DEF EveryOpenHeld
  <2>1. CASE j = k
    BY <2>1, <1>1, <1>2 DEF HoldsAny
  <2>2. CASE j # k
    <3>1. HoldsAny(j)
      BY <2>2, <1>2, <1>3 DEF IInv, EveryOpenHeld
    <3> QED BY <3>1, <1>2 DEF HoldsAny
  <2> QED BY <2>1, <2>2
<1>8. \A j \in Fd : fd[j] # Listener
  <2> SUFFICES ASSUME NEW j \in Fd, fd[j] = Listener PROVE FALSE
    OBVIOUS
  <2>1. HoldsAny(j)
    BY <1>2 DEF IInv, EveryOpenHeld
  <2>2. ~ HoldsListener /\ ~ HoldsFresh
    BY <1>2
  <2> QED BY <2>1, <2>2, <1>2 DEF HoldsAny, IInv, HeldAreOpen
<1>9. OnlyForTaken' /\ OpenOnce'
  <2>1. Taken \in Int
    BY DEF IInv, TypeOK, Taken
  <2>2. Taken' \in Int /\ Taken <= Taken'
    BY <2>1, <1>5
  <2>3. Alive /\ fd[k] = Free /\ fd' = [fd EXCEPT ![k] = Listener]
    BY <1>1, <1>2
  <2> HIDE DEF Listener, Free, Alive, Fd
  <2> QED BY <2>2, <2>3, <1>8, OpensOne
<1>10. RingsClean' /\ OfSameClient'
  <2>1. \A s \in Ctx : wpc[s] \in {"pump", "closeC", "clearC", "closeS"}
                        => serverSock[s] \in Fd /\ serverSock[s] # k
    BY <1>2, SessionHolds, HeldServer
  <2>2. \A s \in Ctx : wpc[s] \in {"pump", "closeC"} => clientSock[s] \in Fd /\ clientSock[s] # k
    BY <1>2, SessionHolds, HeldClient
  <2>3. RingsClean'
    BY <2>2, <1>2, <1>3 DEF IInv, RingsClean
  <2>4. OfSameClient'
    BY SMTT(60), <2>1, <2>2, <1>2, <1>3 DEF IInv, OfSameClient
  <2> QED BY <2>3, <2>4
<1> QED BY <1>4, <1>5, <1>6, <1>7, <1>9, <1>10 DEF IInv

\* tcp_accept_connection opens a descriptor for the first in the queue, for
\* whom there is none yet.
LEMMA AcceptStep ==
  ASSUME IInv, Accept
  PROVE  IInv'
<1> USE DEF Alive, HoldsFresh, HoldsListener, HoldsClient, HoldsServer, mainVars, ctxVars, clientVars
<1> DEFINE c == Head(backlog)
<1>1. PICK k \in Fd : LowestFree(k) /\ fd' = [fd EXCEPT ![k] = <<"client", c>>] /\ fresh' = k
  BY DEF Accept
<1>2. /\ main = "accept" /\ main' = "scan" /\ fd[k] = Free /\ idx' = 1
      /\ backlog # <<>> /\ backlog' = Tail(backlog)
      /\ UNCHANGED <<arrived, gone, listenSock, pending, ctxVars>>
  BY <1>1 DEF Accept, LowestFree
<1>3. /\ backlog \in Seq(Clients) /\ backlog' \in Seq(Clients) /\ c \in Clients
      /\ Len(backlog) \in Nat \ {0} /\ Len(backlog') = Len(backlog) - 1
      /\ c = backlog[1] /\ \A i \in 1 .. Len(backlog') : backlog'[i] = backlog[i + 1]
      /\ arrived \in Nat /\ Taken \in Int
  <2>1. backlog \in Seq(Clients) /\ arrived \in Nat
    BY PoolAssumption DEF IInv, TypeOK
  <2> HIDE DEF Clients
  <2> QED BY <2>1, <1>2 DEF Taken
<1>4. Taken' = Taken + 1 /\ c = Taken + 1 /\ Len(backlog) <= arrived
      /\ \A i \in 1 .. Len(backlog) : backlog[i] = Taken + i
  BY <1>2, <1>3 DEF IInv, QueueInOrder, Taken
<1> HIDE DEF c
<1>5. /\ fd \in [Fd -> Ends \cup {Free, Listener}]
      /\ \A j \in Fd : fd'[j] = IF j = k THEN <<"client", c>> ELSE fd[j]
  BY <1>1 DEF IInv, TypeOK
<1>6. TypeOK'
  BY SMTT(60), <1>1, <1>2, <1>3, PoolAssumption DEF IInv, TypeOK
<1>7. Places' /\ MainPlace'
  BY <1>1, <1>2 DEF IInv, Places, MainPlace
<1>8. QueueInOrder'
  <2>1. ASSUME NEW i \in 1 .. Len(backlog') PROVE backlog'[i] = Taken' + i
    <3>1. backlog'[i] = backlog[i + 1] /\ i + 1 \in 1 .. Len(backlog)
      BY <1>3
    <3> QED BY <3>1, <1>3, <1>4
  <2>2. Len(backlog') <= arrived'
    BY <1>2, <1>3, <1>4
  <2> QED BY <2>1, <2>2 DEF QueueInOrder
<1>9. \A j \in Fd : /\ fd[j] \in Ends => fd[j][2] # c
                    /\ fd[j] # <<"client", c>>
  <2>1. \A j \in Fd : fd[j] \in Ends => fd[j][2] \in Int /\ fd[j][2] <= Taken
    BY <1>2 DEF IInv, OnlyForTaken
  <2>2. \A j \in Fd : fd[j] \in Ends => fd[j][2] # c
    BY <2>1, <1>3, <1>4
  <2>3. <<"client", c>> \in Ends /\ <<"client", c>>[2] = c
    BY <1>3
  <2> QED BY <2>2, <2>3
<1>10. OnlyForTaken' /\ OpenOnce'
  <2> DEFINE e == <<"client", c>>
  <2>1. e \in Ends /\ e[2] = c /\ c \in Int
    BY <1>3
  <2>2. Taken' \in Int /\ Taken <= Taken' /\ e[2] <= Taken'
    BY <2>1, <1>3, <1>4
  <2>3. Alive /\ fd[k] = Free /\ fd' = [fd EXCEPT ![k] = e] /\ \A j \in Fd : fd[j] # e
    BY <1>1, <1>2, <1>9
  <2> HIDE DEF e, Free, Alive, Fd
  <2> QED BY <2>1, <2>2, <2>3, OpensOne
<1>11. \A s \in Ctx : /\ HoldsClient(s) => clientSock[s] \in Fd /\ clientSock[s] # k
                      /\ HoldsServer(s) => serverSock[s] \in Fd /\ serverSock[s] # k
  BY <1>2, HeldClient, HeldServer
<1>12. HeldAreOpen'
  <2>1. listenSock # k
    BY SMTT(60), <1>2 DEF IInv, HeldAreOpen
  <2>2. listenSock \in Fd
    BY <1>2 DEF IInv, MainPlace, TypeOK
  <2> QED BY ZenonT(60), <2>1, <2>2, <1>1, <1>2, <1>3, <1>5, <1>11 DEF IInv, HeldAreOpen
<1>13. HeldOnce'
  BY <1>1, <1>2, <1>11 DEF IInv, HeldOnce
<1>14. EveryOpenHeld'
  <2> SUFFICES ASSUME NEW j \in Fd, fd'[j] # Free PROVE HoldsAny(j)'
    BY DEF EveryOpenHeld
  <2>1. CASE j = k
    BY <2>1, <1>1, <1>2 DEF HoldsAny
  <2>2. CASE j # k
    <3>1. HoldsAny(j)
      BY <2>2, <1>2, <1>5 DEF IInv, EveryOpenHeld
    <3> QED BY <3>1, <1>2 DEF HoldsAny
  <2> QED BY <2>1, <2>2
<1>15. RingsClean'
  BY <1>2, <1>5, <1>11, SessionHolds DEF IInv, RingsClean
<1>16. OfSameClient'
  <2>1. ASSUME NEW s \in Ctx, wpc[s] \in {"pump", "closeC"}
        PROVE  fd'[serverSock[s]] = <<"server", fd'[clientSock[s]][2]>>
    BY <2>1, <1>2, <1>5, <1>11, SessionHolds DEF IInv, OfSameClient
  <2>2. ASSUME NEW s \in Ctx, wpc[s] \in {"clearC", "closeS"}, NEW j \in Fd
        PROVE  fd'[j] # <<"client", fd'[serverSock[s]][2]>>
    <3>1. fd'[serverSock[s]] = fd[serverSock[s]] /\ fd[serverSock[s]] \in Ends
      BY <2>2, <1>2, <1>5, <1>11, SessionHolds, HeldServer
    <3>2. CASE j = k
      BY <3>1, <3>2, <1>5, <1>9, <1>11, <1>2, <2>2, SessionHolds
    <3>3. CASE j # k
      BY <3>1, <3>3, <1>2, <1>5, <2>2 DEF IInv, OfSameClient
    <3> QED BY <3>2, <3>3
  <2> QED BY <2>1, <2>2, <1>2 DEF OfSameClient
<1> QED BY <1>6, <1>7, <1>8, <1>10, <1>12, <1>13, <1>14, <1>15, <1>16 DEF IInv

\* smbgw_proxy_start stores the socket: the thread of the context holds it now.
LEMMA StoreSocketStep ==
  ASSUME IInv, StoreSocket
  PROVE  IInv'
<1> USE DEF Alive, HoldsFresh, HoldsListener, HoldsClient, HoldsServer, mainVars, ctxVars, clientVars
<1>1. /\ main = "hand" /\ "socket" \in pending /\ pending' = pending \ {"socket"}
      /\ main' = (IF pending' = {} THEN "accept" ELSE "hand") /\ fresh' \in {fresh, Invalid}
      /\ clientSock' = [clientSock EXCEPT ![idx] = fresh]
      /\ UNCHANGED <<clientVars, fd, listenSock, idx, wpc, serverSock, pass, residue>>
  BY DEF StoreSocket, Stored
<1>2. /\ idx \in Ctx /\ clientSock[idx] = Invalid /\ wpc[idx] # "none" /\ fresh \in Fd
      /\ fd[fresh] \in {"client"} \X Clients
      /\ \A s \in Ctx : clientSock'[s] = IF s = idx THEN fresh ELSE clientSock[s]
  BY <1>1 DEF IInv, TypeOK, MainPlace, HeldAreOpen
<1>3. wpc[idx] \in {"wait", "closeS", "clearS"}
  BY <1>1, <1>2 DEF IInv, TypeOK, Places
<1>4. TypeOK'
  BY SMTT(60), <1>1, <1>2, PoolAssumption DEF IInv, TypeOK
<1>6. Places' /\ MainPlace'
  BY <1>1, <1>2, <1>3 DEF IInv, TypeOK, Places, MainPlace
<1>7. RingsClean' /\ OfSameClient'
  BY <1>1, <1>2, <1>3 DEF IInv, RingsClean, OfSameClient
<1>8. HeldAreOpen' /\ HeldOnce'
  BY <1>1, <1>2, <1>3 DEF IInv, HeldAreOpen, HeldOnce
<1>9. EveryOpenHeld'
  <2> SUFFICES ASSUME NEW j \in Fd, fd[j] # Free PROVE HoldsAny(j)'
    BY <1>1 DEF EveryOpenHeld
  <2>1. HoldsAny(j)
    BY <1>1 DEF IInv, EveryOpenHeld
  <2>2. CASE fresh = j
    <3>1. HoldsClient(idx)' /\ clientSock'[idx] = j
      BY <2>2, <1>1, <1>2, <1>3
    <3> QED BY <3>1, <1>1, <1>2 DEF HoldsAny
  <2>3. CASE \E s \in Ctx : HoldsClient(s) /\ clientSock[s] = j
    BY <2>3, <1>1, <1>2 DEF HoldsAny
  <2>4. CASE \E s \in Ctx : HoldsServer(s) /\ serverSock[s] = j
    BY <2>4, <1>1 DEF HoldsAny
  <2>5. CASE listenSock = j
    BY <2>5, <1>1 DEF HoldsAny
  <2> QED BY <2>1, <2>2, <2>3, <2>4, <2>5 DEF HoldsAny
<1>10. QueueInOrder' /\ OnlyForTaken' /\ OpenOnce'
  BY <1>1 DEF IInv, QueueInOrder, OnlyForTaken, OpenOnce, Taken
<1> QED BY <1>4, <1>6, <1>7, <1>8, <1>9, <1>10 DEF IInv
\* Before tcp_connect the client of a context has no server connection: there
\* would be another context with the same client, or one that has closed it.
LEMMA NoServerYet ==
  ASSUME IInv, Alive, NEW s \in Ctx, wpc[s] = "connect", NEW j \in Fd
  PROVE  fd[j] # <<"server", Behind(clientSock[s])>>
<1> DEFINE c == Behind(clientSock[s])
           e == <<"server", c>>
<1>1. /\ HoldsClient(s) /\ clientSock[s] \in Fd /\ c \in Clients
      /\ fd[clientSock[s]] = <<"client", c>>
  BY SessionHolds, HeldClient
<1>2. e # Listener /\ e # Free /\ e \notin {"client"} \X Clients /\ e[2] = c
  BY <1>1, EndsApart
<1> SUFFICES ASSUME fd[j] = e PROVE FALSE
  OBVIOUS
<1>3. HoldsAny(j)
  BY <1>2 DEF IInv, EveryOpenHeld
<1>4. PICK t \in Ctx : HoldsServer(t) /\ serverSock[t] = j
  <2> HIDE DEF e
  <2> QED BY <1>2, <1>3 DEF HoldsAny, IInv, HeldAreOpen
<1>5. wpc[t] \in {"pump", "closeC", "clearC", "closeS"} /\ Behind(serverSock[t]) = c /\ t # s
  BY <1>2, <1>4, SessionHolds
<1>6. CASE wpc[t] \in {"clearC", "closeS"}
  BY <1>1, <1>5, <1>6 DEF IInv, OfSameClient
<1>7. CASE wpc[t] \in {"pump", "closeC"}
  <2>1. /\ HoldsClient(t) /\ clientSock[t] \in Fd
        /\ fd[clientSock[t]] = <<"client", Behind(clientSock[t])>>
    BY <1>7, SessionHolds, HeldClient
  <2>2. fd[serverSock[t]] = <<"server", Behind(clientSock[t])>>
    BY <1>7 DEF IInv, OfSameClient
  <2>3. Behind(clientSock[t]) = c
    BY <1>5, <2>2
  <2>4. fd[clientSock[t]] = fd[clientSock[s]] /\ fd[clientSock[t]] # Free
    BY <1>1, <2>1, <2>3, HeldClient
  <2>5. clientSock[t] = clientSock[s]
    BY <1>1, <2>1, <2>4 DEF IInv, OpenOnce
  <2> QED BY <1>1, <1>5, <2>1, <2>5 DEF IInv, HeldOnce
<1> QED BY <1>5, <1>6, <1>7

\* tcp_connect opens a descriptor to the server for the client of the context.
LEMMA ConnectsStep ==
  ASSUME IInv, NEW s \in Ctx, Connects(s)
  PROVE  IInv'
<1> USE DEF Alive, HoldsFresh, HoldsListener, HoldsClient, HoldsServer, mainVars, ctxVars, clientVars
<1> DEFINE c == Behind(clientSock[s])
           e == <<"server", c>>
<1>1. PICK k \in Fd : LowestFree(k) /\ fd' = [fd EXCEPT ![k] = e]
                      /\ serverSock' = [serverSock EXCEPT ![s] = k]
  BY DEF Connects
<1>2. /\ Alive /\ wpc[s] = "connect" /\ wpc' = [wpc EXCEPT ![s] = "pump"] /\ fd[k] = Free
      /\ UNCHANGED <<clientVars, mainVars, clientSock, pass, residue>>
  BY <1>1 DEF Connects, At, LowestFree
<1>3. /\ fd \in [Fd -> Ends \cup {Free, Listener}]
      /\ \A j \in Fd : fd'[j] = IF j = k THEN e ELSE fd[j]
      /\ \A t \in Ctx : /\ serverSock'[t] = IF t = s THEN k ELSE serverSock[t]
                        /\ wpc'[t] = IF t = s THEN "pump" ELSE wpc[t]
  BY <1>1, <1>2 DEF IInv, TypeOK
<1>4. /\ HoldsClient(s) /\ clientSock[s] \in Fd /\ c \in Clients
      /\ fd[clientSock[s]] = <<"client", c>>
  BY <1>2, SessionHolds, HeldClient
<1>5. /\ e \in Ends /\ e # Listener /\ e # Free /\ e[2] = c
      /\ c <= Taken /\ Taken \in Int /\ Taken' = Taken
  <2>1. e \in Ends /\ e[2] = c /\ fd[clientSock[s]] \in Ends
    BY <1>4
  <2>2. c <= Taken
    BY <1>2, <1>4, <2>1 DEF IInv, OnlyForTaken
  <2>3. Taken \in Int /\ Taken' = Taken
    BY <1>2, PoolAssumption DEF IInv, TypeOK, Taken
  <2> QED BY <2>1, <2>2, <2>3, EndsApart
<1>6. \A j \in Fd : fd[j] # e
  BY <1>2, NoServerYet
<1> HIDE DEF e
<1>7. OnlyForTaken' /\ OpenOnce'
  <2>1. e[2] <= Taken' /\ Taken <= Taken' /\ Taken' \in Int
    BY <1>5
  <2> HIDE DEF Free, Alive, Fd, c
  <2> QED BY <2>1, <1>1, <1>2, <1>5, <1>6, OpensOne
<1>8. TypeOK' /\ QueueInOrder'
  BY <1>1, <1>2, <1>5 DEF IInv, TypeOK, QueueInOrder, Taken
<1>9. Places' /\ MainPlace'
  BY <1>1, <1>2, <1>3 DEF IInv, Places, MainPlace
<1>10. \A t \in Ctx : /\ HoldsClient(t) => clientSock[t] \in Fd /\ clientSock[t] # k
                      /\ HoldsServer(t) => serverSock[t] \in Fd /\ serverSock[t] # k
  BY <1>2, HeldClient, HeldServer
<1>11. /\ HoldsListener => listenSock \in Fd /\ listenSock # k
       /\ HoldsFresh => fresh \in Fd /\ fresh # k
  <2>1. HoldsListener => listenSock \in Fd
    BY <1>2 DEF IInv, TypeOK, MainPlace
  <2>2. HoldsFresh => fresh \in Fd
    BY <1>2 DEF IInv, TypeOK, MainPlace
  <2>3. HoldsFresh => fd[fresh] # Free
    BY <1>2, EndsApart DEF IInv, HeldAreOpen
  <2>4. HoldsListener => fd[listenSock] # Free
    BY SMTT(60), <1>2 DEF IInv, HeldAreOpen
  <2> QED BY <2>1, <2>2, <2>3, <2>4, <1>2
<1>12. \A t \in Ctx : /\ HoldsClient(t)' <=> HoldsClient(t)
                      /\ t # s => (HoldsServer(t)' <=> HoldsServer(t))
  BY <1>2, <1>3
<1>13. HeldAreOpen'
  <2>1. fd'[k] \in {"server"} \X Clients
    BY <1>3, <1>4 DEF e
  <2>2. ASSUME NEW t \in Ctx
        PROVE  /\ HoldsClient(t)' => fd'[clientSock'[t]] \in {"client"} \X Clients
               /\ HoldsServer(t)' => fd'[serverSock'[t]] \in {"server"} \X Clients
    BY SMTT(60), <2>1, <1>2, <1>3, <1>10, <1>12 DEF IInv, HeldAreOpen
  <2>3. /\ HoldsListener' => fd'[listenSock'] = Listener
        /\ HoldsFresh' => fd'[fresh'] \in {"client"} \X Clients
    BY <1>2, <1>3, <1>11 DEF IInv, HeldAreOpen
  <2> QED BY <2>2, <2>3 DEF HeldAreOpen
<1>14. HeldOnce'
  BY <1>2, <1>3, <1>10, <1>12 DEF IInv, HeldOnce
<1>15. EveryOpenHeld'
  <2> SUFFICES ASSUME NEW j \in Fd, fd'[j] # Free PROVE HoldsAny(j)'
    BY DEF EveryOpenHeld
  <2>1. CASE j = k
    <3>1. HoldsServer(s)' /\ serverSock'[s] = j
      BY <2>1, <1>2, <1>3
    <3> QED BY <3>1 DEF HoldsAny
  <2>2. CASE j # k
    <3>1. HoldsAny(j)
      BY <2>2, <1>2, <1>3 DEF IInv, EveryOpenHeld
    <3>2. CASE \E t \in Ctx : HoldsServer(t) /\ serverSock[t] = j
      <4>1. PICK t \in Ctx : HoldsServer(t) /\ serverSock[t] = j
        BY <3>2
      <4>2. t # s
        BY <4>1, <1>2 DEF IInv, Places
      <4> QED BY <4>1, <4>2, <1>3, <1>12 DEF HoldsAny
    <3>3. CASE \E t \in Ctx : HoldsClient(t) /\ clientSock[t] = j
      BY <3>3, <1>2, <1>12 DEF HoldsAny
    <3>4. CASE (HoldsListener /\ listenSock = j) \/ (HoldsFresh /\ fresh = j)
      BY <3>4, <1>2 DEF HoldsAny
    <3> QED BY <3>1, <3>2, <3>3, <3>4 DEF HoldsAny
  <2> QED BY <2>1, <2>2
<1>16. RingsClean'
  BY <1>2, <1>3, <1>10, SessionHolds DEF IInv, RingsClean
<1>17. OfSameClient'
  <2>1. ASSUME NEW t \in Ctx, wpc'[t] \in {"pump", "closeC"}
        PROVE  fd'[serverSock'[t]] = <<"server", fd'[clientSock'[t]][2]>>
    <3>1. CASE t = s
      BY <3>1, <1>2, <1>3, <1>4, <1>10 DEF e
    <3>2. CASE t # s
      BY SMTT(60), <3>2, <2>1, <1>2, <1>3, <1>10, SessionHolds DEF IInv, OfSameClient
    <3> QED BY <3>1, <3>2
  <2>2. ASSUME NEW t \in Ctx, wpc'[t] \in {"clearC", "closeS"}, NEW j \in Fd
        PROVE  fd'[j] # <<"client", fd'[serverSock'[t]][2]>>
    <3>1. t # s /\ wpc[t] \in {"clearC", "closeS"}
      BY <2>2, <1>3
    <3>2. fd'[serverSock'[t]] = fd[serverSock[t]]
      BY <3>1, <1>2, <1>3, <1>10, SessionHolds
    <3>3. CASE j = k
      BY <3>3, <1>3 DEF e
    <3>4. CASE j # k
      BY <3>1, <3>2, <3>4, <1>2, <1>3 DEF IInv, OfSameClient
    <3> QED BY <3>3, <3>4
  <2> QED BY <2>1, <2>2 DEF OfSameClient
<1> QED BY <1>7, <1>8, <1>9, <1>13, <1>14, <1>15, <1>16, <1>17 DEF IInv

\* The client's socket is closed, by its thread alone: the other threads keep
\* theirs.
LEMMA ClientClosed ==
  ASSUME IInv, NEW s \in Ctx, ConnectFails(s) \/ CloseClient(s)
  PROVE  IInv'
<1> USE DEF Alive, HoldsFresh, HoldsListener, HoldsClient, HoldsServer, mainVars, ctxVars, clientVars
<1> DEFINE k == clientSock[s]
<1>1. /\ Alive /\ fd' = [fd EXCEPT ![k] = Free]
      /\ \/ wpc[s] = "connect" /\ wpc' = [wpc EXCEPT ![s] = "failed"]
         \/ wpc[s] = "closeC" /\ wpc' = [wpc EXCEPT ![s] = "clearC"]
      /\ UNCHANGED <<clientVars, mainVars, clientSock, serverSock, pass, residue>>
  BY DEF ConnectFails, CloseClient, At, Closes
<1>2. /\ HoldsClient(s) /\ k \in Fd /\ fd[k] \in Ends /\ fd[k] = <<"client", Behind(k)>>
  BY <1>1, SessionHolds, HeldClient
<1>3. /\ fd \in [Fd -> Ends \cup {Free, Listener}]
      /\ \A j \in Fd : fd'[j] = IF j = k THEN Free ELSE fd[j]
      /\ \A t \in Ctx \ {s} : wpc'[t] = wpc[t]
      /\ wpc'[s] \in {"failed", "clearC"} /\ (wpc'[s] = "clearC" <=> wpc[s] = "closeC")
  BY <1>1, <1>2 DEF IInv, TypeOK
<1>4. \A t \in Ctx : /\ t # s => (HoldsClient(t)' <=> HoldsClient(t))
                     /\ HoldsServer(t)' <=> HoldsServer(t)
  BY <1>1, <1>3
<1>5. ~ HoldsClient(s)'
  BY <1>3
<1>6. /\ \A t \in Ctx \ {s} : HoldsClient(t) => clientSock[t] \in Fd /\ clientSock[t] # k
      /\ \A t \in Ctx : HoldsServer(t) => serverSock[t] \in Fd /\ serverSock[t] # k
  <2>1. \A t \in Ctx \ {s} : HoldsClient(t) => clientSock[t] \in Fd
    BY <1>1, HeldClient
  <2>2. \A t \in Ctx \ {s} : HoldsClient(t) => clientSock[t] # k
    BY <1>1, <1>2 DEF IInv, HeldOnce
  <2>3. \A t \in Ctx : HoldsServer(t) => serverSock[t] \in Fd
    BY <1>1, HeldServer
  <2>4. \A t \in Ctx : HoldsServer(t) => serverSock[t] # k
    BY <1>1, <1>2, HoldersApart DEF IInv
  <2> QED BY <2>1, <2>2, <2>3, <2>4
<1>7. /\ HoldsListener => listenSock \in Fd /\ listenSock # k
      /\ HoldsFresh => fresh \in Fd /\ fresh # k
  <2>1. (HoldsListener => listenSock \in Fd) /\ (HoldsFresh => fresh \in Fd)
    BY <1>1 DEF IInv, TypeOK, MainPlace
  <2>2. HoldsListener => listenSock # k
    BY <1>1, <1>2, EndsApart DEF IInv, HeldAreOpen
  <2>3. HoldsFresh => fresh # k
    BY <1>1, <1>2 DEF IInv, HeldOnce
  <2> QED BY <2>1, <2>2, <2>3
<1>8. OnlyForTaken' /\ OpenOnce' /\ QueueInOrder'
  BY <1>1, <1>2, ClosesOne DEF Closes
<1> HIDE DEF k
<1>9. TypeOK'
  BY <1>1 DEF IInv, TypeOK
<1>10. Places' /\ MainPlace'
  <2>1. Places'
    BY <1>1, <1>3 DEF IInv, Places
  <2>2. MainPlace'
    BY <1>1, <1>3 DEF IInv, TypeOK, MainPlace
  <2> QED BY <2>1, <2>2
<1>11. HeldAreOpen'
  BY <1>1, <1>3, <1>4, <1>5, <1>6, <1>7 DEF IInv, HeldAreOpen
<1>12. HeldOnce'
  BY <1>1, <1>4, <1>5 DEF IInv, HeldOnce
<1>13. EveryOpenHeld'
  <2> SUFFICES ASSUME NEW j \in Fd, fd'[j] # Free PROVE HoldsAny(j)'
    BY DEF EveryOpenHeld
  <2>1. j # k /\ HoldsAny(j)
    BY <1>1, <1>3 DEF IInv, EveryOpenHeld
  <2>2. CASE \E t \in Ctx : HoldsClient(t) /\ clientSock[t] = j
    <3>1. PICK t \in Ctx : HoldsClient(t) /\ clientSock[t] = j
      BY <2>2
    <3>2. t # s
      BY <2>1, <3>1 DEF k
    <3> QED BY <3>1, <3>2, <1>1, <1>4 DEF HoldsAny
  <2>3. CASE \E t \in Ctx : HoldsServer(t) /\ serverSock[t] = j
    BY <2>3, <1>1, <1>4 DEF HoldsAny
  <2>4. CASE (HoldsListener /\ listenSock = j) \/ (HoldsFresh /\ fresh = j)
    BY <2>4, <1>1 DEF HoldsAny
  <2> QED BY <2>1, <2>2, <2>3, <2>4 DEF HoldsAny
<1>14. RingsClean'
  <2>1. \A t \in Ctx : wpc'[t] = "pump" => fd'[clientSock[t]] = fd[clientSock[t]]
    BY <1>1, <1>3, <1>6, SessionHolds
  <2> QED BY <2>1, <1>1, <1>3 DEF IInv, RingsClean
<1>15. OfSameClient'
  <2>1. ASSUME NEW t \in Ctx, wpc'[t] \in {"pump", "closeC"}
        PROVE  fd'[serverSock'[t]] = <<"server", fd'[clientSock'[t]][2]>>
    BY <2>1, <1>1, <1>3, <1>6, SessionHolds DEF IInv, OfSameClient
  <2>2. ASSUME NEW t \in Ctx, wpc'[t] \in {"clearC", "closeS"}, NEW j \in Fd
        PROVE  fd'[j] # <<"client", fd'[serverSock'[t]][2]>>
    <3>1. wpc[t] \in {"closeC", "clearC", "closeS"} /\ fd'[serverSock'[t]] = fd[serverSock[t]]
      BY <2>2, <1>1, <1>3, <1>6, SessionHolds
    <3>2. CASE j = k
      <4>1. fd'[j] = Free
        BY <3>2, <1>3
      <4>2. \A x : Free # <<"client", x>>
        OBVIOUS
      <4> QED BY <4>1, <4>2
    <3>3. CASE j # k /\ t # s
      BY <3>1, <3>3, <2>2, <1>1, <1>3 DEF IInv, OfSameClient
    <3>4. CASE j # k /\ t = s
      <4>1. fd[serverSock[t]] = <<"server", Behind(k)>>
        BY <3>4, <2>2, <1>1, <1>3 DEF IInv, OfSameClient, k
      <4>2. fd[j] # fd[k] /\ fd'[j] = fd[j]
        BY <3>4, <1>1, <1>2, <1>3, EndsApart DEF IInv, OpenOnce
      <4> QED BY <4>1, <4>2, <3>1, <1>2
    <3> QED BY <3>2, <3>3, <3>4
  <2> QED BY <2>1, <2>2 DEF OfSameClient
<1> QED BY <1>8, <1>9, <1>10, <1>11, <1>12, <1>13, <1>14, <1>15 DEF IInv

\* The server's socket is closed, by its thread alone.
LEMMA ServerClosed ==
  ASSUME IInv, NEW s \in Ctx, CloseServer(s)
  PROVE  IInv'
<1> USE DEF Alive, HoldsFresh, HoldsListener, HoldsClient, HoldsServer, mainVars, ctxVars, clientVars
<1> DEFINE k == serverSock[s]
<1>1. /\ Alive /\ fd' = [fd EXCEPT ![k] = Free]
      /\ wpc[s] = "closeS" /\ wpc' = [wpc EXCEPT ![s] = "clearS"]
      /\ UNCHANGED <<clientVars, mainVars, clientSock, serverSock, pass, residue>>
  BY DEF CloseServer, At, Closes
<1>2. /\ HoldsServer(s) /\ k \in Fd /\ fd[k] \in Ends /\ fd[k] = <<"server", Behind(k)>>
  BY <1>1, SessionHolds, HeldServer
<1>3. /\ fd \in [Fd -> Ends \cup {Free, Listener}]
      /\ \A j \in Fd : fd'[j] = IF j = k THEN Free ELSE fd[j]
      /\ \A t \in Ctx : wpc'[t] = IF t = s THEN "clearS" ELSE wpc[t]
  BY <1>1, <1>2 DEF IInv, TypeOK
<1>4. \A t \in Ctx : /\ HoldsClient(t)' <=> HoldsClient(t)
                     /\ t # s => (HoldsServer(t)' <=> HoldsServer(t))
  BY <1>1, <1>3
<1>5. ~ HoldsServer(s)'
  BY <1>3
<1>6. /\ \A t \in Ctx : HoldsClient(t) => clientSock[t] \in Fd /\ clientSock[t] # k
      /\ \A t \in Ctx \ {s} : HoldsServer(t) => serverSock[t] \in Fd /\ serverSock[t] # k
  <2>1. \A t \in Ctx : HoldsClient(t) => clientSock[t] \in Fd
    BY <1>1, HeldClient
  <2>2. \A t \in Ctx : HoldsClient(t) => clientSock[t] # k
    BY <1>1, <1>2, HoldersApart DEF IInv
  <2>3. \A t \in Ctx \ {s} : HoldsServer(t) => serverSock[t] \in Fd
    BY <1>1, HeldServer
  <2>4. \A t \in Ctx \ {s} : HoldsServer(t) => serverSock[t] # k
    BY <1>1, <1>2 DEF IInv, HeldOnce
  <2> QED BY <2>1, <2>2, <2>3, <2>4
<1>7. /\ HoldsListener => listenSock \in Fd /\ listenSock # k
      /\ HoldsFresh => fresh \in Fd /\ fresh # k
  <2>1. (HoldsListener => listenSock \in Fd) /\ (HoldsFresh => fresh \in Fd)
    BY <1>1 DEF IInv, TypeOK, MainPlace
  <2>2. (HoldsListener => listenSock # k) /\ (HoldsFresh => fresh # k)
    BY <1>1, <1>2, HoldersApart DEF IInv
  <2> QED BY <2>1, <2>2
<1>8. OnlyForTaken' /\ OpenOnce' /\ QueueInOrder'
  BY <1>1, <1>2, ClosesOne DEF Closes
<1> HIDE DEF k
<1>9. TypeOK'
  BY <1>1 DEF IInv, TypeOK
<1>10. Places' /\ MainPlace'
  BY <1>1, <1>3 DEF IInv, Places, MainPlace
<1>11. HeldAreOpen'
  BY <1>1, <1>3, <1>4, <1>5, <1>6, <1>7 DEF IInv, HeldAreOpen
<1>12. HeldOnce'
  BY <1>1, <1>4, <1>5 DEF IInv, HeldOnce
<1>13. EveryOpenHeld'
  <2> SUFFICES ASSUME NEW j \in Fd, fd'[j] # Free PROVE HoldsAny(j)'
    BY DEF EveryOpenHeld
  <2>1. j # k /\ HoldsAny(j)
    BY <1>1, <1>3 DEF IInv, EveryOpenHeld
  <2>2. CASE \E t \in Ctx : HoldsServer(t) /\ serverSock[t] = j
    <3>1. PICK t \in Ctx : HoldsServer(t) /\ serverSock[t] = j
      BY <2>2
    <3>2. t # s
      BY <2>1, <3>1 DEF k
    <3> QED BY <3>1, <3>2, <1>1, <1>4 DEF HoldsAny
  <2>3. CASE \E t \in Ctx : HoldsClient(t) /\ clientSock[t] = j
    BY <2>3, <1>1, <1>4 DEF HoldsAny
  <2>4. CASE (HoldsListener /\ listenSock = j) \/ (HoldsFresh /\ fresh = j)
    BY <2>4, <1>1 DEF HoldsAny
  <2> QED BY <2>1, <2>2, <2>3, <2>4 DEF HoldsAny
<1>14. RingsClean'
  <2>1. \A t \in Ctx : wpc'[t] = "pump" => fd'[clientSock[t]] = fd[clientSock[t]]
    BY <1>1, <1>3, <1>6, SessionHolds
  <2> QED BY <2>1, <1>1, <1>3 DEF IInv, RingsClean
<1>15. OfSameClient'
  <2>1. ASSUME NEW t \in Ctx, wpc'[t] \in {"pump", "closeC"}
        PROVE  fd'[serverSock'[t]] = <<"server", fd'[clientSock'[t]][2]>>
    BY <2>1, <1>1, <1>3, <1>6, SessionHolds DEF IInv, OfSameClient
  <2>2. ASSUME NEW t \in Ctx, wpc'[t] \in {"clearC", "closeS"}, NEW j \in Fd
        PROVE  fd'[j] # <<"client", fd'[serverSock'[t]][2]>>
    <3>1. t # s /\ wpc[t] \in {"clearC", "closeS"} /\ fd'[serverSock'[t]] = fd[serverSock[t]]
      BY <2>2, <1>1, <1>3, <1>6, SessionHolds
    <3>2. CASE j = k
      BY SMTT(60), <3>2, <1>3
    <3>3. CASE j # k
      BY <3>1, <3>3, <1>1, <1>3 DEF IInv, OfSameClient
    <3> QED BY <3>2, <3>3
  <2> QED BY <2>1, <2>2 DEF OfSameClient
<1> QED BY <1>8, <1>9, <1>10, <1>11, <1>12, <1>13, <1>14, <1>15 DEF IInv

-----------------------------------------------------------------------------
(* The theorems. *)

\* Before the table is set up nothing is open and nothing is held.
LEMMA InitInvariant == Init => IInv
<1> SUFFICES ASSUME Init PROVE IInv
  OBVIOUS
<1> USE DEF Init
<1>1. TypeOK
  BY PoolAssumption DEF TypeOK
<1>2. Places /\ MainPlace /\ RingsClean
  BY DEF Places, MainPlace, RingsClean, HoldsListener, HoldsFresh
<1>3. HeldAreOpen /\ HeldOnce /\ EveryOpenHeld
  BY DEF HeldAreOpen, HeldOnce, EveryOpenHeld, HoldsListener, HoldsFresh, HoldsClient, HoldsServer
<1>4. QueueInOrder /\ OnlyForTaken /\ OpenOnce /\ OfSameClient
  BY EndsApart DEF QueueInOrder, OnlyForTaken, OpenOnce, OfSameClient
<1> QED BY <1>1, <1>2, <1>3, <1>4 DEF IInv

\* The main thread.
LEMMA MainKeepsInvariant == IInv /\ (Main \/ SelectFails) => IInv'
<1> SUFFICES ASSUME IInv, Main \/ SelectFails PROVE IInv'
  OBVIOUS
<1>1. CASE TableReady \/ ListenerReady \/ ContextTaken \/ ContextFound \/ ThreadStarts
             \/ ResetRings \/ StoreMode
  <2>1. Alive
    BY <1>1 DEF Alive, TableReady, ListenerReady, SetUp, ContextTaken, ContextFound,
                ThreadStarts, ResetRings, StoreMode, Stored
  <2> QED BY <1>1, <2>1, MainKeepsHolders
<1>2. CASE SetUpFails \/ SelectFails \/ AcceptFails \/ TableFull \/ ThreadFails
  <2>1. Exit /\ main # "hand"
    BY <1>2 DEF SetUpFails, SelectFails, AcceptFails, TableFull, ThreadFails
  <2> QED BY <2>1, ExitKeepsInvariant
<1>3. CASE AcceptTimesOut
  BY <1>3, StutterKeepsInvariant DEF AcceptTimesOut
<1> QED BY <1>1, <1>2, <1>3, SocketOpensStep, AcceptStep, StoreSocketStep DEF Main

\* A connection thread.
LEMMA WorkerKeepsInvariant ==
  ASSUME IInv, NEW s \in Ctx, Worker(s) \/ SessionFails(s)
  PROVE  IInv'
BY WorkerKeepsHolders, ConnectsStep, ClientClosed, ServerClosed DEF Worker

\* The invariant holds however the threads' steps interleave (main.cc:83-185,
\* smbgw.c:44-345 and 427-474).
THEOREM Invariance == Spec => []IInv
<1>1. IInv /\ [Next]_vars => IInv'
  BY ClientsKeepInvariant, MainKeepsInvariant, WorkerKeepsInvariant, StutterKeepsInvariant
     DEF Next, Ended
<1> QED BY <1>1, InitInvariant, PTL DEF Spec

\* The variables keep their types: no index leaves the table and no descriptor
\* is a number the process does not have.
THEOREM TypeCorrect == Spec => []TypeOK
BY Invariance, PTL DEF IInv

\* Every open descriptor has one holder, which will close it, and no thread
\* uses one that is closed, whoever was given its number since (smbgw.c:332-343).
THEOREM Ownership == Spec => []DescriptorsOwned
<1>1. IInv => DescriptorsOwned
  BY DEF IInv, DescriptorsOwned, EveryOpenHeld
<1> QED BY <1>1, Invariance, PTL

\* The pump copies between a client and the server connection opened for that
\* client, never another's (smbgw.c:106-322).
THEOREM Pairing == Spec => []SessionPairing
<1>1. IInv => SessionPairing
  <2> SUFFICES ASSUME IInv, Alive, NEW s \in Ctx, wpc[s] = "pump"
               PROVE  /\ clientSock[s] # Invalid /\ serverSock[s] # Invalid
                      /\ \E c \in Clients : /\ fd[clientSock[s]] = <<"client", c>>
                                            /\ fd[serverSock[s]] = <<"server", c>>
    BY DEF SessionPairing
  <2>1. HoldsClient(s) /\ HoldsServer(s)
    BY SessionHolds
  <2>2. fd[serverSock[s]] = <<"server", Behind(clientSock[s])>>
    BY DEF IInv, OfSameClient
  <2> QED BY <2>1, <2>2, HeldClient DEF HoldsClient, HoldsServer
<1> QED BY <1>1, Invariance, PTL

\* The main thread resets rings that no thread uses, and a session starts with
\* clean ones (smbgw.c:444-459).
THEOREM Exclusion == Spec => []RingsExclusive
<1>1. IInv => RingsExclusive
  <2> SUFFICES ASSUME IInv, Alive PROVE RingsExclusive
    BY DEF RingsExclusive
  <2>1. ASSUME main \in {"create", "reset"} \/ (main = "hand" /\ "socket" \in pending)
        PROVE  clientSock[idx] = Invalid /\ wpc[idx] \in {"none", "wait", "closeS", "clearS"}
    <3>1. idx \in Ctx /\ clientSock[idx] = Invalid
      BY <2>1 DEF IInv, TypeOK, MainPlace, HoldsFresh
    <3> QED BY <3>1 DEF IInv, TypeOK, Places
  <2> QED BY <2>1 DEF IInv, RingsClean, RingsExclusive
<1> QED BY <1>1, Invariance, PTL

-----------------------------------------------------------------------------
(* Pool implements Service. *)

\* Who waits: those who came after the ones that were accepted; before a step
\* and after it.
StageByOrder ==
  \A c \in Clients : Stage(c) = IF c > arrived THEN "away"
                                ELSE IF c > Taken THEN "queued"
                                ELSE IF Open(c) THEN "inside" ELSE "closed"

LEMMA StageIs == TypeOK /\ QueueInOrder => StageByOrder
<1> SUFFICES ASSUME TypeOK, QueueInOrder, NEW c \in Clients
             PROVE  Stage(c) = IF c > arrived THEN "away"
                               ELSE IF c > Taken THEN "queued"
                               ELSE IF Open(c) THEN "inside" ELSE "closed"
  BY DEF StageByOrder
<1>1. Len(backlog) \in Nat /\ arrived \in Nat /\ Taken = arrived - Len(backlog)
  BY PoolAssumption DEF TypeOK, Taken
<1>2. \A i \in 1 .. Len(backlog) : backlog[i] = Taken + i
  BY DEF QueueInOrder
<1>3. ASSUME c <= arrived PROVE Waiting(c) <=> c > Taken
  <2>1. ASSUME c > Taken PROVE Waiting(c)
    <3>1. c - Taken \in 1 .. Len(backlog) /\ backlog[c - Taken] = Taken + (c - Taken)
      BY <1>1, <1>2, <1>3, <2>1
    <3> QED BY <3>1, <1>1 DEF Waiting
  <2>2. ASSUME Waiting(c) PROVE c > Taken
    BY <2>2, <1>1, <1>2 DEF Waiting
  <2> QED BY <2>1, <2>2
<1> QED BY <1>1, <1>3 DEF Stage

LEMMA StagesInStep ==
  ASSUME IInv, IInv', Alive, Alive'
  PROVE  StageByOrder /\ StageByOrder'
<1>1. TypeOK /\ QueueInOrder /\ TypeOK' /\ QueueInOrder'
  BY DEF IInv
<1>2. StageByOrder
  BY <1>1, StageIs
<1>3. TypeOK' /\ QueueInOrder' => StageByOrder'
  BY StageIs, PTL
<1> QED BY <1>1, <1>2, <1>3

\* The client has no server connection: one of the contexts has none.
LEMMA ContextToSpare ==
  ASSUME IInv, Alive, NEW s \in Ctx, wpc[s] = "connect"
  PROVE  Cardinality(ServerOf) < MaxConn
<1> DEFINE Others == Ctx \ {s}
           h == [c \in ServerOf |->
                   CHOOSE t \in Others : HoldsServer(t) /\ fd[serverSock[t]] = <<"server", c>>]
<1>1. ASSUME NEW c \in ServerOf
      PROVE  \E t \in Others : HoldsServer(t) /\ fd[serverSock[t]] = <<"server", c>>
  <2>1. PICK k \in Fd : fd[k] = <<"server", c>> /\ c \in Clients
    BY DEF ServerOf
  <2>2. fd[k] # Free /\ fd[k] # Listener /\ fd[k] \notin {"client"} \X Clients
    BY <2>1, EndsApart
  <2>3. HoldsAny(k)
    BY <2>2 DEF IInv, EveryOpenHeld
  <2>4. PICK t \in Ctx : HoldsServer(t) /\ serverSock[t] = k
    BY <2>2, <2>3 DEF HoldsAny, IInv, HeldAreOpen
  <2>5. t # s
    BY <2>4, SessionHolds
  <2> QED BY <2>1, <2>4, <2>5
<1>2. \A c \in ServerOf : h[c] \in Others /\ fd[serverSock[h[c]]] = <<"server", c>>
  BY <1>1
<1>3. h \in [ServerOf -> Others]
  BY <1>2
<1> HIDE DEF h
<1>4. \A a, b \in ServerOf : h[a] = h[b] => a = b
  BY <1>2
<1>5. IsFiniteSet(Ctx) /\ Cardinality(Ctx) = MaxConn
  BY PoolAssumption, FS_Interval
<1>6. IsFiniteSet(Others) /\ Cardinality(Others) = MaxConn - 1
  BY <1>5, FS_RemoveElement
<1>7. IsFiniteSet(ServerOf) /\ Cardinality(ServerOf) <= Cardinality(Others)
  <2>1. h \in Injection(ServerOf, Others)
    BY <1>3, <1>4 DEF Injection, IsInjective
  <2> HIDE DEF Others
  <2> QED BY <1>6, <2>1, FS_Injection
<1>8. Cardinality(ServerOf) \in Nat
  BY <1>7, FS_CardinalityType
<1> QED BY <1>6, <1>7, <1>8, PoolAssumption
\* The state of module Service that a state of Pool stands for.
ARunning == IF main = "exit" THEN "stopped" ELSE IF Listening THEN "open" ELSE "setup"
AStage   == [c \in Clients |-> Stage(c)]

\* Steps that open and close nothing are not seen, unless the socket starts
\* to listen.
LEMMA UnseenStep ==
  ASSUME UNCHANGED <<arrived, backlog, fd>>, ARunning' = ARunning
  PROVE  UNCHANGED Abstract!svars
<1>1. AStage' = AStage /\ ServerOf' = ServerOf
  BY DEF AStage, Stage, Waiting, Open, ServerOf
<1> QED BY <1>1 DEF Abstract!svars, ARunning, AStage

\* listen succeeds.
LEMMA StartStep ==
  ASSUME UNCHANGED <<arrived, backlog, fd>>, main = "listen", main' = "accept"
  PROVE  Abstract!Start
<1>1. AStage' = AStage /\ ServerOf' = ServerOf
  BY DEF AStage, Stage, Waiting, Open, ServerOf
<1>2. ARunning = "setup" /\ ARunning' = "open"
  BY DEF ARunning, Listening
<1> QED BY <1>1, <1>2 DEF Abstract!Start, ARunning, AStage

\* A client comes and waits.
LEMMA ComeStep ==
  ASSUME IInv, IInv', ClientConnects
  PROVE  \E c \in Clients : Abstract!Come(c)
<1>1. /\ Alive /\ Alive' /\ Listening /\ Listening' /\ arrived \in Nat /\ arrived' = arrived + 1
      /\ arrived' \in Clients /\ backlog \in Seq(Clients) /\ backlog' = Append(backlog, arrived')
      /\ UNCHANGED fd
  BY PoolAssumption DEF ClientConnects, Listening, Alive, IInv, TypeOK, mainVars
<1>2. Taken' = Taken /\ Taken \in Int /\ Taken <= arrived
  <2>1. Len(backlog') = Len(backlog) + 1 /\ Len(backlog) \in Nat
    BY <1>1
  <2> QED BY <1>1, <2>1 DEF Taken
<1>3. \A c \in Clients : Stage(c)' = IF c = arrived' THEN "queued" ELSE Stage(c)
  <2> SUFFICES ASSUME NEW c \in Clients
               PROVE  Stage(c)' = IF c = arrived' THEN "queued" ELSE Stage(c)
    OBVIOUS
  <2>1. Stage(c) = IF c > arrived THEN "away" ELSE IF c > Taken THEN "queued"
                   ELSE IF Open(c) THEN "inside" ELSE "closed"
    BY <1>1, StagesInStep DEF StageByOrder
  <2>2. Stage(c)' = IF c > arrived' THEN "away" ELSE IF c > Taken' THEN "queued"
                    ELSE IF Open(c)' THEN "inside" ELSE "closed"
    BY <1>1, StagesInStep DEF StageByOrder
  <2>3. Open(c)' = Open(c)
    BY <1>1 DEF Open
  <2> QED BY <1>1, <1>2, <2>1, <2>2, <2>3
<1>4. Stage(arrived') = "away"
  BY <1>1 DEF Stage
<1>5. AStage[arrived'] = "away" /\ AStage' = [AStage EXCEPT ![arrived'] = "queued"]
  BY <1>1, <1>3, <1>4 DEF AStage
<1>6. ARunning = "open" /\ ARunning' = "open" /\ ServerOf' = ServerOf
  BY <1>1 DEF ARunning, Alive, ServerOf
<1> QED BY <1>1, <1>5, <1>6 DEF Abstract!Come, Abstract!Moves, ARunning, AStage

\* accept takes the first one out of the queue.
LEMMA TakeStep ==
  ASSUME IInv, IInv', Accept
  PROVE  Abstract!Take
<1> DEFINE c == Head(backlog)
<1>1. PICK k \in Fd : LowestFree(k) /\ fd' = [fd EXCEPT ![k] = <<"client", c>>]
  BY DEF Accept
<1>2. /\ main = "accept" /\ main' = "scan" /\ Alive /\ Alive' /\ fd[k] = Free
      /\ backlog # <<>> /\ backlog' = Tail(backlog) /\ arrived' = arrived
      /\ fd \in [Fd -> Ends \cup {Free, Listener}] /\ backlog \in Seq(Clients) /\ arrived \in Nat
  BY <1>1, PoolAssumption DEF Accept, LowestFree, Alive, IInv, TypeOK
<1>3. /\ c \in Clients /\ c = backlog[1] /\ Len(backlog) \in Nat \ {0}
      /\ Len(backlog') = Len(backlog) - 1
  <2> HIDE DEF Clients
  <2> QED BY <1>2
<1>4. c = Taken + 1 /\ Taken' = Taken + 1 /\ Taken \in Int /\ c <= arrived
  BY <1>2, <1>3 DEF IInv, QueueInOrder, Taken
<1> HIDE DEF c
<1>5. \A j \in Fd : fd'[j] = IF j = k THEN <<"client", c>> ELSE fd[j]
  BY <1>1, <1>2
<1>6. \A x \in Clients : Open(x)' <=> (x = c \/ Open(x))
  <2> SUFFICES ASSUME NEW x \in Clients PROVE Open(x)' <=> (x = c \/ Open(x))
    OBVIOUS
  <2>1. CASE x = c
    <3>1. fd'[k] = <<"client", x>>
      BY <2>1, <1>5
    <3> QED BY <2>1, <3>1 DEF Open
  <2>2. CASE x # c
    <3>1. \A j \in Fd : fd'[j] = <<"client", x>> <=> fd[j] = <<"client", x>>
      BY <2>2, <1>2, <1>5
    <3> QED BY <2>2, <3>1 DEF Open
  <2> QED BY <2>1, <2>2
<1>7. \A x \in Clients : Stage(x)' = IF x = c THEN "inside" ELSE Stage(x)
  <2> SUFFICES ASSUME NEW x \in Clients PROVE Stage(x)' = IF x = c THEN "inside" ELSE Stage(x)
    OBVIOUS
  <2>1. Stage(x) = IF x > arrived THEN "away" ELSE IF x > Taken THEN "queued"
                   ELSE IF Open(x) THEN "inside" ELSE "closed"
    BY <1>2, StagesInStep DEF StageByOrder
  <2>2. Stage(x)' = IF x > arrived' THEN "away" ELSE IF x > Taken' THEN "queued"
                    ELSE IF Open(x)' THEN "inside" ELSE "closed"
    BY <1>2, StagesInStep DEF StageByOrder
  <2>3. Taken' = Taken + 1 /\ c = Taken + 1 /\ x \in Int
    BY <1>4
  <2>4. Open(x)' <=> (x = c \/ Open(x))
    BY <1>6
  <2> QED BY <1>2, <1>4, <2>1, <2>2, <2>3, <2>4
<1>8. Stage(c) = "queued"
  BY <1>2, <1>3, <1>4, StagesInStep DEF StageByOrder
<1>9. AStage[c] = "queued" /\ AStage' = [AStage EXCEPT ![c] = "inside"]
  BY <1>3, <1>7, <1>8 DEF AStage
<1>10. ServerOf' = ServerOf
  <2>1. \A x \in Clients, j \in Fd : fd'[j] = <<"server", x>> <=> fd[j] = <<"server", x>>
    BY SMTT(60), <1>2, <1>5
  <2> QED BY <2>1 DEF ServerOf
<1>11. ARunning' = ARunning
  BY <1>2 DEF ARunning, Listening
<1> QED BY <1>2, <1>9, <1>10, <1>11 DEF Abstract!Take, Abstract!Moves, ARunning, AStage, c

\* tcp_connect succeeds.
LEMMA ReachStep ==
  ASSUME IInv, IInv', NEW s \in Ctx, Connects(s)
  PROVE  \E c \in Clients : Abstract!ReachServer(c)
<1> DEFINE c == Behind(clientSock[s])
<1>1. PICK k \in Fd : LowestFree(k) /\ fd' = [fd EXCEPT ![k] = <<"server", c>>]
  BY DEF Connects
<1>2. /\ Alive /\ wpc[s] = "connect" /\ Alive' /\ UNCHANGED <<arrived, backlog, main>>
      /\ fd[k] = Free /\ fd \in [Fd -> Ends \cup {Free, Listener}]
  BY <1>1 DEF Connects, At, LowestFree, Alive, IInv, TypeOK, clientVars, mainVars
<1>3. /\ clientSock[s] \in Fd /\ c \in Clients /\ fd[clientSock[s]] \in Ends
      /\ fd[clientSock[s]] = <<"client", c>>
  BY <1>2, SessionHolds, HeldClient
<1>4. c <= Taken /\ Taken' = Taken /\ Taken \in Int /\ Taken <= arrived /\ arrived \in Int
  BY <1>2, <1>3, PoolAssumption DEF IInv, TypeOK, OnlyForTaken, QueueInOrder, Taken
<1>5. \A j \in Fd : fd[j] # <<"server", c>>
  BY <1>2, NoServerYet
<1> HIDE DEF c
<1>6. \A j \in Fd : fd'[j] = IF j = k THEN <<"server", c>> ELSE fd[j]
  BY <1>1, <1>2
<1>7. \A x \in Clients : Open(x)' <=> Open(x)
  BY <1>2, <1>6 DEF Open
<1>8. AStage' = AStage
  <2>1. \A x \in Clients : Stage(x)' = Stage(x)
    BY <1>2, <1>7 DEF Stage, Waiting
  <2> QED BY <2>1 DEF AStage
<1>9. AStage[c] = "inside"
  <2>1. Open(c)
    BY <1>3 DEF Open
  <2> QED BY <2>1, <1>2, <1>3, <1>4, StagesInStep DEF StageByOrder, AStage
<1>10. ServerOf' = ServerOf \cup {c} /\ c \notin ServerOf
  <2>1. c \notin ServerOf
    BY <1>5 DEF ServerOf
  <2>2. ASSUME NEW x \in Clients
        PROVE  (\E j \in Fd : fd'[j] = <<"server", x>>) <=>
                 (x = c \/ \E j \in Fd : fd[j] = <<"server", x>>)
    BY <1>2, <1>6
  <2> QED BY <2>1, <2>2, <1>3 DEF ServerOf
<1>11. Cardinality(ServerOf) < MaxConn
  BY <1>2, ContextToSpare
<1>12. ARunning' = ARunning
  BY <1>2 DEF ARunning, Listening
<1> SUFFICES Abstract!ReachServer(c)
  BY <1>3
<1>13. /\ AStage[c] = "inside" /\ c \notin ServerOf /\ Cardinality(ServerOf) < MaxConn
       /\ ServerOf' = ServerOf \cup {c} /\ UNCHANGED <<ARunning, backlog, AStage>>
  BY <1>2, <1>8, <1>9, <1>10, <1>11, <1>12
<1>14. Abstract!Cardinality(ServerOf) = Cardinality(ServerOf)
  BY DEF Abstract!Cardinality, Cardinality
<1> QED BY <1>13, <1>14 DEF Abstract!ReachServer, ARunning, AStage

\* The client is closed.
LEMMA DismissStep ==
  ASSUME IInv, IInv', NEW s \in Ctx, ConnectFails(s) \/ CloseClient(s)
  PROVE  \E c \in Clients : Abstract!Dismiss(c)
<1> DEFINE k == clientSock[s]
           c == Behind(k)
<1>1. /\ Alive /\ wpc[s] \in {"connect", "closeC"} /\ fd' = [fd EXCEPT ![k] = Free]
      /\ Alive' /\ UNCHANGED <<arrived, backlog, main>>
  BY DEF ConnectFails, CloseClient, At, Closes, Alive, clientVars, mainVars
<1>2. k \in Fd /\ c \in Clients /\ fd[k] \in Ends /\ fd[k] # Free /\ fd[k] = <<"client", c>>
  BY <1>1, SessionHolds, HeldClient
<1>3. c <= Taken /\ Taken' = Taken /\ Taken \in Int /\ Taken <= arrived /\ arrived \in Int
  BY <1>1, <1>2, PoolAssumption DEF IInv, TypeOK, OnlyForTaken, QueueInOrder, Taken
<1>4. \A j \in Fd : fd'[j] = IF j = k THEN Free ELSE fd[j]
  BY <1>1 DEF IInv, TypeOK
<1>5. \A j \in Fd \ {k} : fd[j] # <<"client", c>>
  BY <1>1, <1>2 DEF IInv, OpenOnce
<1> HIDE DEF k, c
<1>6. \A x \in Clients : /\ Open(x)' <=> (x # c /\ Open(x))
                         /\ x = c => Open(x)
  <2> SUFFICES ASSUME NEW x \in Clients
               PROVE  /\ Open(x)' <=> (x # c /\ Open(x))
                      /\ x = c => Open(x)
    OBVIOUS
  <2>1. CASE x = c
    <3>1. \A j \in Fd : fd'[j] # <<"client", x>>
      BY SMTT(60), <2>1, <1>4, <1>5
    <3> QED BY <2>1, <3>1, <1>2 DEF Open
  <2>2. CASE x # c
    <3>1. \A j \in Fd : fd'[j] = <<"client", x>> <=> fd[j] = <<"client", x>>
      BY <2>2, <1>2, <1>4
    <3> QED BY <2>2, <3>1 DEF Open
  <2> QED BY <2>1, <2>2
<1>7. \A x \in Clients : Stage(x)' = IF x = c THEN "closed" ELSE Stage(x)
  <2> SUFFICES ASSUME NEW x \in Clients PROVE Stage(x)' = IF x = c THEN "closed" ELSE Stage(x)
    OBVIOUS
  <2>1. Stage(x) = IF x > arrived THEN "away" ELSE IF x > Taken THEN "queued"
                   ELSE IF Open(x) THEN "inside" ELSE "closed"
    BY <1>1, StagesInStep DEF StageByOrder
  <2>2. Stage(x)' = IF x > arrived' THEN "away" ELSE IF x > Taken' THEN "queued"
                    ELSE IF Open(x)' THEN "inside" ELSE "closed"
    BY <1>1, StagesInStep DEF StageByOrder
  <2> QED BY <1>1, <1>3, <1>6, <2>1, <2>2
<1>8. Stage(c) = "inside"
  BY <1>1, <1>2, <1>3, <1>6, StagesInStep DEF StageByOrder
<1>9. AStage[c] = "inside" /\ AStage' = [AStage EXCEPT ![c] = "closed"]
  BY <1>2, <1>7, <1>8 DEF AStage
<1>10. ServerOf' = ServerOf
  <2>1. ASSUME NEW x \in Clients
        PROVE  (\E j \in Fd : fd'[j] = <<"server", x>>) <=> (\E j \in Fd : fd[j] = <<"server", x>>)
    BY <1>2, <1>4
  <2> QED BY <2>1 DEF ServerOf
<1>11. ARunning' = ARunning
  BY <1>1 DEF ARunning, Listening
<1> SUFFICES Abstract!Dismiss(c)
  BY <1>2
<1> QED BY <1>1, <1>2, <1>9, <1>10, <1>11 DEF Abstract!Dismiss, Abstract!Moves, ARunning, AStage

\* The server connection is closed, after the client's.
LEMMA LeaveStep ==
  ASSUME IInv, IInv', NEW s \in Ctx, CloseServer(s)
  PROVE  \E c \in Clients : Abstract!LeaveServer(c)
<1> DEFINE k == serverSock[s]
           c == Behind(k)
<1>1. /\ Alive /\ wpc[s] = "closeS" /\ fd' = [fd EXCEPT ![k] = Free]
      /\ Alive' /\ UNCHANGED <<arrived, backlog, main>>
  BY DEF CloseServer, At, Closes, Alive, clientVars, mainVars
<1>2. k \in Fd /\ c \in Clients /\ fd[k] \in Ends /\ fd[k] # Free /\ fd[k] = <<"server", c>>
  BY <1>1, SessionHolds, HeldServer
<1>3. c <= Taken /\ Taken' = Taken /\ Taken \in Int /\ Taken <= arrived /\ arrived \in Int
  BY <1>1, <1>2, PoolAssumption DEF IInv, TypeOK, OnlyForTaken, QueueInOrder, Taken
<1>4. \A j \in Fd : fd'[j] = IF j = k THEN Free ELSE fd[j]
  BY <1>1 DEF IInv, TypeOK
<1>5. \A j \in Fd : /\ j # k => fd[j] # <<"server", c>>
                    /\ fd[j] # <<"client", c>>
  BY <1>1, <1>2 DEF IInv, OpenOnce, OfSameClient
<1> HIDE DEF k, c
<1>6. \A x \in Clients : Open(x)' <=> Open(x)
  BY <1>2, <1>4 DEF Open
<1>7. AStage' = AStage
  <2>1. \A x \in Clients : Stage(x)' = Stage(x)
    BY <1>1, <1>6 DEF Stage, Waiting
  <2> QED BY <2>1 DEF AStage
<1>8. AStage[c] = "closed"
  <2>1. ~ Open(c)
    BY <1>5 DEF Open
  <2> QED BY <2>1, <1>1, <1>2, <1>3, StagesInStep DEF StageByOrder, AStage
<1>9. ServerOf' = ServerOf \ {c} /\ c \in ServerOf
  <2>1. ASSUME NEW x \in Clients
        PROVE  (\E j \in Fd : fd'[j] = <<"server", x>>) <=>
                 (x # c /\ \E j \in Fd : fd[j] = <<"server", x>>)
    BY SMTT(60), <1>2, <1>4, <1>5
  <2> QED BY <2>1, <1>2 DEF ServerOf
<1>10. ARunning' = ARunning
  BY <1>1 DEF ARunning, Listening
<1> SUFFICES Abstract!LeaveServer(c)
  BY <1>2
<1> QED BY <1>1, <1>2, <1>7, <1>8, <1>9, <1>10 DEF Abstract!LeaveServer, ARunning, AStage

\* main returns, and the kernel closes everything.
LEMMA StopStep ==
  ASSUME IInv, Exit, Alive
  PROVE  Abstract!Stop
<1>1. /\ backlog' = <<>> /\ main' = "exit" /\ main # "exit" /\ arrived' = arrived
      /\ \A k \in Fd : fd'[k] = Free
  BY DEF Exit, Alive
<1>2. ServerOf' = {} /\ \A c \in Clients : ~ Open(c)'
  BY <1>1, EndsApart DEF ServerOf, Open
<1>3. \A c \in Clients : ~ Waiting(c)'
  BY <1>1 DEF Waiting
<1>4. AStage' = [c \in Clients |-> IF AStage[c] = "away" THEN "away" ELSE "closed"]
  BY <1>1, <1>2, <1>3 DEF AStage, Stage
<1>5. ARunning # "stopped" /\ ARunning' = "stopped"
  BY <1>1 DEF ARunning
<1> QED BY <1>1, <1>2, <1>4, <1>5 DEF Abstract!Stop, ARunning, AStage

\* Every step of the threads, the clients and the kernel is one of the service
\* or not seen.
LEMMA ServiceStep ==
  ASSUME IInv, IInv', [Next]_vars
  PROVE  [Abstract!ServiceNext]_(Abstract!svars)
<1>1. CASE ClientConnects
  BY <1>1, ComeStep DEF Abstract!ServiceNext
<1>2. CASE Accept
  BY <1>2, TakeStep DEF Abstract!ServiceNext
<1>3. ASSUME NEW s \in Ctx, Connects(s) PROVE Abstract!ServiceNext
  BY <1>3, ReachStep DEF Abstract!ServiceNext
<1>4. ASSUME NEW s \in Ctx, ConnectFails(s) \/ CloseClient(s) PROVE Abstract!ServiceNext
  BY <1>4, DismissStep DEF Abstract!ServiceNext
<1>5. ASSUME NEW s \in Ctx, CloseServer(s) PROVE Abstract!ServiceNext
  BY <1>5, LeaveStep DEF Abstract!ServiceNext
<1>6. CASE SetUpFails \/ SelectFails \/ AcceptFails \/ TableFull \/ ThreadFails
  <2>1. Exit /\ Alive
    BY <1>6 DEF SetUpFails, SelectFails, AcceptFails, TableFull, ThreadFails, Alive
  <2> QED BY <2>1, StopStep DEF Abstract!ServiceNext
<1>7. CASE SetUp("listen", "accept")
  BY <1>7, StartStep DEF SetUp, clientVars, Abstract!ServiceNext
<1>8. CASE TableReady \/ SetUp("options", "bind") \/ SetUp("bind", "listen")
           \/ ContextTaken \/ ContextFound \/ ThreadStarts \/ ResetRings \/ StoreSocket \/ StoreMode
  <2>1. UNCHANGED <<arrived, backlog, fd>> /\ ARunning' = ARunning
    BY <1>8 DEF TableReady, SetUp, ContextTaken, ContextFound, ThreadStarts, ResetRings,
                StoreSocket, StoreMode, Stored, clientVars, ARunning, Listening
  <2> QED BY <2>1, UnseenStep
<1>9. CASE SocketOpens
  <2>1. PICK k \in Fd : fd[k] = Free /\ fd' = [fd EXCEPT ![k] = Listener]
    BY <1>9 DEF SocketOpens, LowestFree
  <2>2. \A j \in Fd, e \in Ends : fd'[j] = e <=> fd[j] = e
    BY <2>1, EndsApart DEF IInv, TypeOK
  <2>3. UNCHANGED <<arrived, backlog>> /\ ARunning' = ARunning
    BY <1>9 DEF SocketOpens, clientVars, ARunning, Listening
  <2>4. ServerOf' = ServerOf /\ AStage' = AStage
    <3>1. \A c \in Clients : Open(c)' <=> Open(c)
      BY <2>2 DEF Open
    <3>2. \A c \in Clients : Stage(c)' = Stage(c)
      BY <2>3, <3>1 DEF Stage, Waiting
    <3> QED BY <2>2, <3>2 DEF ServerOf, AStage
  <2> QED BY <2>3, <2>4 DEF Abstract!svars, ARunning, AStage
<1>10. ASSUME NEW s \in Ctx,
              SeesClient(s) \/ FreeAfterFailure(s) \/ Pumps(s) \/ SeesHangUp(s) \/ SessionFails(s)
                \/ ClearClient(s) \/ ClearServer(s)
       PROVE  UNCHANGED Abstract!svars
  <2>1. UNCHANGED <<arrived, backlog, fd, main>>
    BY <1>10 DEF SeesClient, FreeAfterFailure, Pumps, SeesHangUp, SessionFails, ClearClient,
                 ClearServer, clientVars, mainVars
  <2> QED BY <2>1, UnseenStep DEF ARunning, Listening
<1>11. ASSUME NEW c \in Clients, ClientLeaves(c) PROVE UNCHANGED Abstract!svars
  <2>1. UNCHANGED <<arrived, backlog, fd, main>>
    BY <1>11 DEF ClientLeaves, mainVars
  <2> QED BY <2>1, UnseenStep DEF ARunning, Listening
<1>12. CASE UNCHANGED vars
  <2>1. UNCHANGED <<arrived, backlog, fd, main>>
    BY <1>12 DEF vars, clientVars, mainVars
  <2> QED BY <2>1, UnseenStep DEF ARunning, Listening
<1> QED
  BY <1>1, <1>2, <1>3, <1>4, <1>5, <1>6, <1>7, <1>8, <1>9, <1>10, <1>11, <1>12
     DEF Next, Main, ListenerReady, AcceptTimesOut, Worker, Ended

\* Whatever the number of contexts, clients and descriptors, the program is the
\* service of module Service (main.cc:162-181, smbgw.c:44-345 and 427-474).
THEOREM Refinement == Spec => ServiceRefined
<1>1. Init => Abstract!ServiceInit
  <2> SUFFICES ASSUME Init PROVE Abstract!ServiceInit
    OBVIOUS
  <2>1. \A c \in Clients : Stage(c) = "away"
    BY DEF Init, Stage
  <2>2. ServerOf = {}
    BY EndsApart DEF Init, ServerOf
  <2> QED BY <2>1, <2>2 DEF Init, Listening, Abstract!ServiceInit
<1> QED BY <1>1, ServiceStep, Invariance, PTL DEF Spec, ServiceRefined, Abstract!ServiceSpec
=============================================================================
