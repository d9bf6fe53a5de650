------------------------------ MODULE Service ------------------------------
(***************************************************************************)
(* What the gateway is to its clients and to the SMB server: clients are   *)
(* taken in the order in which they came, each of them gets at most one    *)
(* connection to the server, which is opened while the client is there and *)
(* ends after it, at most Capacity of them exist at a time, and when the   *)
(* gateway stops nothing is left.  Threads, contexts and descriptors are   *)
(* not mentioned; module Pool implements it.                               *)
(***************************************************************************)
EXTENDS Naturals, Sequences, FiniteSets

CONSTANTS
  Visitors,   \* the clients
  Capacity    \* server connections there may be

VARIABLES
  running,    \* "setup", "open" to clients, or "stopped"
  queue,      \* clients that connected and were not taken yet
  stage,      \* of each client: "away", "queued", "inside" or "closed"
  upstream    \* clients with a server connection

svars == <<running, queue, stage, upstream>>

ServiceInit ==
  /\ running = "setup" /\ queue = <<>>
  /\ stage = [c \in Visitors |-> "away"]
  /\ upstream = {}

Start ==
  /\ running = "setup" /\ running' = "open"
  /\ UNCHANGED <<queue, stage, upstream>>

Moves(c, from, to) == stage[c] = from /\ stage' = [stage EXCEPT ![c] = to]

Come(c) ==
  /\ running = "open" /\ Moves(c, "away", "queued")
  /\ queue' = Append(queue, c)
  /\ UNCHANGED <<running, upstream>>

Take ==
  /\ queue # <<>> /\ Moves(Head(queue), "queued", "inside")
  /\ queue' = Tail(queue)
  /\ UNCHANGED <<running, upstream>>

\* Only once, as a client that was closed does not come back.
ReachServer(c) ==
  /\ stage[c] = "inside" /\ c \notin upstream /\ Cardinality(upstream) < Capacity
  /\ upstream' = upstream \cup {c}
  /\ UNCHANGED <<running, queue, stage>>

Dismiss(c) ==
  /\ Moves(c, "inside", "closed")
  /\ UNCHANGED <<running, queue, upstream>>

LeaveServer(c) ==
  /\ stage[c] = "closed" /\ c \in upstream
  /\ upstream' = upstream \ {c}
  /\ UNCHANGED <<running, queue, stage>>

Stop ==
  /\ running # "stopped" /\ running' = "stopped"
  /\ queue' = <<>> /\ upstream' = {}
  /\ stage' = [c \in Visitors |-> IF stage[c] = "away" THEN "away" ELSE "closed"]

ServiceNext ==
  \/ Start \/ Take \/ Stop
  \/ \E c \in Visitors : Come(c) \/ ReachServer(c) \/ Dismiss(c) \/ LeaveServer(c)

ServiceSpec == ServiceInit /\ [][ServiceNext]_svars
=============================================================================
