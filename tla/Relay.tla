------------------------------- MODULE Relay -------------------------------
(***************************************************************************)
(* What one proxy connection promises, independently of how the bytes are  *)
(* buffered and framed: two one-way pipes between the client and the       *)
(* server, opened together and dropped together.  A pipe hands on a prefix *)
(* of what its origin sends: nothing is lost from the middle, duplicated,  *)
(* reordered or invented, nothing is handed on after the connection is     *)
(* dropped, and a new connection starts from nothing, whatever the one     *)
(* before it left behind.                                                  *)
(***************************************************************************)
EXTENDS Integers, Sequences

CONSTANTS
  Side,      \* the two origins of bytes
  Streams    \* what the two origins may send: functions from Side to byte streams

VARIABLES
  live,      \* a connection is open
  source,    \* source[d]: the stream of origin d
  pulled,    \* pulled[d]: how many bytes of it the relay has accepted
  sink       \* sink[d]: the bytes of it handed on to the other side

relayVars == <<live, source, pulled, sink>>

RelayInit ==
  /\ live = FALSE
  /\ source = [d \in Side |-> <<>>]
  /\ pulled = [d \in Side |-> 0]
  /\ sink = [d \in Side |-> <<>>]

Open ==
  /\ ~ live
  /\ live' = TRUE
  /\ source' \in Streams
  /\ pulled' = [d \in Side |-> 0]
  /\ sink' = [d \in Side |-> <<>>]

Pull(d) ==
  /\ live
  /\ \E n \in pulled[d] + 1 .. Len(source[d]) :
       pulled' = [pulled EXCEPT ![d] = n]
  /\ UNCHANGED <<live, source, sink>>

\* Only bytes already pulled are handed on, in order.
Push(d) ==
  /\ live
  /\ \E n \in Len(sink[d]) + 1 .. pulled[d] :
       sink' = [sink EXCEPT ![d] = SubSeq(source[d], 1, n)]
  /\ UNCHANGED <<live, source, pulled>>

Drop ==
  /\ live
  /\ live' = FALSE
  /\ UNCHANGED <<source, pulled, sink>>

RelayNext == Open \/ Drop \/ \E d \in Side : Pull(d) \/ Push(d)

RelaySpec == RelayInit /\ [][RelayNext]_relayVars

=============================================================================
