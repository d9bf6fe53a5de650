---------------------------- MODULE MCSmbProto ----------------------------
(***************************************************************************)
(* Messages for SmbProto: compounds of up to four headers, side by side,   *)
(* with a gap or overlapping, and chains of up to three ANDX blocks in     *)
(* every order, circles included.  Each also comes cut short, so that its  *)
(* links lead behind its end.  A first header without the mark ends the    *)
(* walk of a chain at once: it is among the short messages.                *)
(***************************************************************************)
EXTENDS SmbProto, FiniteSetsExt, TLC

CONSTANTS Places2, Places1

\* Links from o to a later place of D, or to nowhere.
Steps(D, o) == {0} \cup {t - o : t \in {t \in D : t > o}}

Compounds ==
  UNION {{[proto |-> "other", bytes |-> b, header |-> h, link |-> <<>>] :
            b \in {Hdr2, Max(D) + Hdr2 + 10},
            h \in {h \in [D -> [id : BOOLEAN, next : UNION {Steps(D, o) : o \in D}]] :
                     \A o \in D : h[o].next \in Steps(D, o)}} :
         D \in {D \in SUBSET Places2 : 0 \in D}}

\* Links to a place of D, forward or back, or to nowhere.  The last command of
\* a chain needs no block: it may stand at any place.
Links(D) == [command : {Setup, "plain"}, offset : D] \cup [command : {End}, offset : {0}]

Chains ==
  UNION {{[proto |-> "FF", bytes |-> b,
           header |-> 0 :> [id |-> TRUE, command |-> first[1], words |-> first[2]], link |-> l] :
            b \in {40, Max(D) + 30},
            first \in {<<Setup, 12>>, <<Setup, 13>>, <<Setup, 10>>, <<"andx", 2>>,
                       <<"plain", 60>>, <<End, 1>>},
            l \in [D -> Links(D)]} :
         D \in {D \in SUBSET Places1 : Hdr1 + 1 \in D}}

\* A message that ends in its header or with it.
Stumps ==
  {[proto |-> p, bytes |-> b, header |-> 0 :> [id |-> i, command |-> "plain", words |-> 0, next |-> 0],
    link |-> <<>>] :
     p \in {"FF", "other"}, b \in {0, 1, Hdr1 - 1, Hdr1, Hdr2 - 1, Hdr2}, i \in BOOLEAN}

\* One of an ANDX command without a block: the empty string begins with a 0,
\* which is a plain command.
Blockless ==
  {[proto |-> "FF", bytes |-> Hdr1, header |-> 0 :> [id |-> TRUE, command |-> c, words |-> 0],
    link |-> Empty :> [command |-> "plain", offset |-> o]] :
     c \in {Setup, "andx"}, o \in {0, 70}}

AllMessages == Compounds \cup Chains \cup Stumps \cup Blockless
=============================================================================
