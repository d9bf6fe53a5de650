----------------------------- MODULE SmbProofs -----------------------------
(***************************************************************************)
(* Theorems of SmbProto for every set of messages, wherever their links    *)
(* lead, behind their end or back: the verdict of the walk is that of all  *)
(* headers, and the handlers are called along the links, in an accepted    *)
(* message once for each command.                                          *)
(***************************************************************************)
EXTENDS SmbProto, Least

-----------------------------------------------------------------------------
(* What the links of a message lead to *)

\* The recursive function of Linked for the first k steps.
ReachUpTo(m, k, f) ==
  f = [n \in 0 .. k |->
         IF n = 0 THEN {First(m)} ELSE f[n - 1] \cup UNION {Goals(m, at) : at \in f[n - 1]}]

\* It exists: what is reached in a step depends on what was before it.
LEMMA ReachExists ==
  ASSUME NEW m, NEW k \in Nat
  PROVE  \E f : ReachUpTo(m, k, f)
<1> DEFINE T == {j \in Nat : ~ \E f : ReachUpTo(m, j, f)}
<1>1. SUFFICES ASSUME T # {} PROVE FALSE
  OBVIOUS
<1>2. PICK j \in T : \A i \in T : j <= i
  BY <1>1, LeastNat
<1>3. j \in Nat /\ ~ \E f : ReachUpTo(m, j, f)
  OBVIOUS
<1>4. j # 0
  <2>1. SUFFICES ASSUME j = 0 PROVE FALSE
    OBVIOUS
  <2> DEFINE f == [n \in 0 .. 0 |-> {First(m)}]
  <2>2. ReachUpTo(m, 0, f)
    BY DEF ReachUpTo
  <2> QED BY <1>3, <2>1, <2>2
<1>5. j - 1 \in Nat /\ j - 1 \notin T
  BY <1>2, <1>3, <1>4
<1>6. PICK g : ReachUpTo(m, j - 1, g)
  BY <1>5
<1> HIDE DEF T
<1> DEFINE f == [n \in 0 .. j |->
                   IF n = 0 THEN {First(m)} ELSE g[n - 1] \cup UNION {Goals(m, at) : at \in g[n - 1]}]
<1>7. ASSUME NEW n \in 0 .. j - 1 PROVE f[n] = g[n]
  <2>1. n \in 0 .. j
    BY <1>3
  <2>2. g[n] = IF n = 0 THEN {First(m)} ELSE g[n - 1] \cup UNION {Goals(m, at) : at \in g[n - 1]}
    BY <1>6 DEF ReachUpTo
  <2> QED BY <2>1, <2>2
<1>8. ASSUME NEW n \in 0 .. j
      PROVE  f[n] = IF n = 0 THEN {First(m)} ELSE f[n - 1] \cup UNION {Goals(m, at) : at \in f[n - 1]}
  <2>1. f[n] = IF n = 0 THEN {First(m)} ELSE g[n - 1] \cup UNION {Goals(m, at) : at \in g[n - 1]}
    OBVIOUS
  <2>2. n # 0 => n - 1 \in 0 .. j - 1
    BY <1>3
  <2> HIDE DEF f
  <2>3. n # 0 => f[n - 1] = g[n - 1]
    BY <1>7, <2>2
  <2> QED BY <2>1, <2>3
<1>9. f = [n \in 0 .. j |-> f[n]]
  OBVIOUS
<1> HIDE DEF f
<1>10. ReachUpTo(m, j, f)
  BY <1>8, <1>9 DEF ReachUpTo
<1> QED BY <1>3, <1>10

\* The walk of a message takes a finite number of steps.
LEMMA HopsNat ==
  ASSUME NEW m \in Messages
  PROVE  /\ Hops(m) \in Nat
         /\ Cardinality(DOMAIN m.link) \in Nat /\ Cardinality(DOMAIN m.link) <= Hops(m)
         /\ Cardinality(DOMAIN m.header) \in Nat /\ Cardinality(DOMAIN m.header) <= Hops(m)
<1>1. IsFiniteSet(DOMAIN m.link) /\ IsFiniteSet(DOMAIN m.header)
  BY SmbAssumption DEF Message
<1>2. Cardinality(DOMAIN m.link) \in Nat /\ Cardinality(DOMAIN m.header) \in Nat
  BY <1>1, FS_CardinalityType
<1> QED BY <1>2 DEF Hops

\* The defining equation of Linked.
LEMMA LinkedIs ==
  ASSUME NEW m \in Messages
  PROVE  \E f : ReachUpTo(m, Hops(m), f) /\ Linked(m) = f[Hops(m)]
<1> DEFINE reach == CHOOSE f : ReachUpTo(m, Hops(m), f)
<1>1. ReachUpTo(m, Hops(m), reach)
  BY HopsNat, ReachExists
<1>2. Linked(m) = reach[Hops(m)]
  BY DEF Linked, ReachUpTo
<1> HIDE DEF reach
<1> QED BY <1>1, <1>2

\* What has the start of a message and all that it leads to has all of it.
LEMMA Closure ==
  ASSUME NEW m \in Messages, NEW C, First(m) \in C, \A at \in C : Goals(m, at) \subseteq C
  PROVE  Linked(m) \subseteq C
<1>1. PICK f : ReachUpTo(m, Hops(m), f) /\ Linked(m) = f[Hops(m)]
  BY LinkedIs
<1> DEFINE T == {n \in Nat : n <= Hops(m) /\ ~ (f[n] \subseteq C)}
<1>2. T = {}
  <2> SUFFICES ASSUME T # {} PROVE FALSE
    OBVIOUS
  <2>1. PICK n \in T : \A k \in T : n <= k
    BY LeastNat
  <2>2. n \in Nat /\ n <= Hops(m) /\ ~ (f[n] \subseteq C) /\ n \in 0 .. Hops(m)
    BY HopsNat
  <2>3. f[n] = IF n = 0 THEN {First(m)} ELSE f[n - 1] \cup UNION {Goals(m, at) : at \in f[n - 1]}
    BY <1>1, <2>2 DEF ReachUpTo
  <2>4. n # 0
    BY <2>2, <2>3
  <2>5. n - 1 \in Nat /\ n - 1 <= Hops(m) /\ ~ (n <= n - 1)
    BY <2>2, <2>4, HopsNat
  <2>6. f[n - 1] \subseteq C
    BY <2>1, <2>5
  <2> HIDE DEF T
  <2>7. UNION {Goals(m, at) : at \in f[n - 1]} \subseteq C
    BY <2>6
  <2> QED BY <2>2, <2>3, <2>4, <2>6, <2>7
<1>3. Hops(m) \in Nat
  BY HopsNat
<1> QED BY <1>1, <1>2, <1>3

\* A path that follows the links from the start, in no more steps than there
\* are links and headers, stays in what they lead to.
LEMMA PathLinked ==
  ASSUME NEW m \in Messages, NEW k \in Nat, k - 1 <= Hops(m), NEW p,
         k >= 1 => p[1] = First(m),
         \A i \in 1 .. k - 1 : p[i + 1] \in Goals(m, p[i])
  PROVE  \A i \in 1 .. k : p[i] \in Linked(m)
<1>1. PICK f : ReachUpTo(m, Hops(m), f) /\ Linked(m) = f[Hops(m)]
  BY LinkedIs
<1>2. Hops(m) \in Nat
  BY HopsNat
<1>3. ASSUME NEW n \in Nat, n <= Hops(m)
      PROVE  f[n] = IF n = 0 THEN {First(m)}
                             ELSE f[n - 1] \cup UNION {Goals(m, at) : at \in f[n - 1]}
  <2>1. n \in 0 .. Hops(m)
    BY <1>2, <1>3
  <2> QED BY <1>1, <2>1 DEF ReachUpTo
<1> DEFINE T == {n \in Nat : n < k /\ ~ (p[n + 1] \in f[n])}
<1>4. T = {}
  <2> SUFFICES ASSUME T # {} PROVE FALSE
    OBVIOUS
  <2>1. PICK n \in T : \A j \in T : n <= j
    BY LeastNat
  <2>2. n \in Nat /\ n < k /\ ~ (p[n + 1] \in f[n])
    OBVIOUS
  <2>3. n <= Hops(m)
    BY <1>2, <2>2
  <2>4. CASE n = 0
    <3>1. n + 1 = 1 /\ p[1] = First(m)
      BY <2>2, <2>4
    <3>2. f[n] = {First(m)}
      BY <1>3, <2>2, <2>3, <2>4
    <3> HIDE DEF T
    <3>3. p[n + 1] = p[1]
      BY <3>1
    <3> QED BY <2>2, <3>1, <3>2, <3>3
  <2>5. CASE n # 0
    <3>1. n - 1 \in Nat /\ n - 1 < k /\ ~ (n <= n - 1) /\ n \in 1 .. k - 1 /\ n - 1 + 1 = n
      BY <2>2, <2>5
    <3>2. p[n - 1 + 1] \in f[n - 1]
      BY <2>1, <3>1
    <3> HIDE DEF T
    <3>3. p[n] \in f[n - 1] /\ p[n + 1] \in Goals(m, p[n])
      BY <3>1, <3>2
    <3>4. f[n] = f[n - 1] \cup UNION {Goals(m, at) : at \in f[n - 1]}
      BY <1>3, <2>2, <2>3, <2>5
    <3> QED BY <2>2, <3>3, <3>4
  <2> QED BY <2>4, <2>5
<1> DEFINE U(i) == {n \in Nat : i - 1 <= n /\ n <= Hops(m) /\ ~ (p[i] \in f[n])}
<1>5. ASSUME NEW i \in 1 .. k PROVE U(i) = {}
  <2> SUFFICES ASSUME U(i) # {} PROVE FALSE
    OBVIOUS
  <2>1. PICK n \in U(i) : \A j \in U(i) : n <= j
    BY LeastNat
  <2>2. n \in Nat /\ i - 1 <= n /\ n <= Hops(m) /\ ~ (p[i] \in f[n])
    OBVIOUS
  <2>3. CASE n = i - 1
    <3>1. n < k /\ n + 1 = i
      BY <2>2, <2>3
    <3>2. n \notin T
      BY <1>4
    <3> QED BY <2>2, <3>1, <3>2
  <2>4. CASE n # i - 1
    <3>1. n - 1 \in Nat /\ i - 1 <= n - 1 /\ n - 1 <= Hops(m) /\ ~ (n <= n - 1) /\ n # 0
      BY <1>2, <2>2, <2>4
    <3>2. n - 1 \notin U(i)
      BY <2>1, <3>1
    <3>3. p[i] \in f[n - 1]
      BY <3>1, <3>2
    <3> HIDE DEF U, T
    <3>4. f[n] = f[n - 1] \cup UNION {Goals(m, at) : at \in f[n - 1]}
      BY <1>3, <2>2, <3>1
    <3> QED BY <2>2, <3>3, <3>4
  <2> QED BY <2>3, <2>4
<1>6. ASSUME NEW i \in 1 .. k PROVE p[i] \in f[Hops(m)]
  <2>1. i - 1 <= Hops(m) /\ Hops(m) <= Hops(m)
    BY <1>2
  <2>2. Hops(m) \notin U(i)
    BY <1>5
  <2> QED BY <1>2, <2>1, <2>2
<1> QED BY <1>1, <1>6

-----------------------------------------------------------------------------
(* Places in increasing order *)

\* Places that increase from one to the next increase.
LEMMA Increasing ==
  ASSUME NEW k \in Nat, NEW q, \A i \in 1 .. k : q[i] \in Nat,
         \A i \in 1 .. k - 1 : q[i] < q[i + 1]
  PROVE  \A i, j \in 1 .. k : i < j => q[i] < q[j]
<1> TAKE i \in 1 .. k
<1> DEFINE T == {j \in Nat : j \in 1 .. k /\ i < j /\ ~ (q[i] < q[j])}
<1>1. T = {}
  <2> SUFFICES ASSUME T # {} PROVE FALSE
    OBVIOUS
  <2>1. PICK j \in T : \A n \in T : j <= n
    BY LeastNat
  <2>2. j \in 1 .. k /\ i < j /\ ~ (q[i] < q[j])
    OBVIOUS
  <2>3. j - 1 \in 1 .. k - 1 /\ j - 1 + 1 = j /\ j - 1 \in 1 .. k /\ ~ (j <= j - 1) /\ j - 1 \in Nat
    BY <2>2
  <2>4. q[j - 1] < q[j]
    <3>1. q[j - 1] < q[j - 1 + 1]
      BY <2>3
    <3> QED BY <2>3, <3>1
  <2>5. j - 1 \notin T
    BY <2>1, <2>3
  <2>6. q[i] \in Nat /\ q[j - 1] \in Nat /\ q[j] \in Nat
    BY <2>2, <2>3
  <2>7. CASE i = j - 1
    BY <2>2, <2>4, <2>7
  <2>8. CASE i # j - 1
    <3>1. q[i] < q[j - 1]
      BY <2>2, <2>3, <2>5, <2>8
    <3> QED BY <2>2, <2>4, <2>6, <3>1
  <2> QED BY <2>7, <2>8
<1> QED BY <1>1

\* There are no more of them than there are places.
LEMMA PlacesEnough ==
  ASSUME NEW D, IsFiniteSet(D), D \subseteq Nat, NEW k \in Nat, NEW q,
         \A i \in 1 .. k : q[i] \in D,
         \A i \in 1 .. k - 1 : q[i] < q[i + 1]
  PROVE  k <= Cardinality(D)
<1> DEFINE h == [i \in 1 .. k |-> q[i]]
<1>1. \A i, j \in 1 .. k : i < j => q[i] < q[j]
  BY Increasing
<1>2. h \in Injection(1 .. k, D)
  <2>1. h \in [1 .. k -> D]
    OBVIOUS
  <2>2. ASSUME NEW i \in 1 .. k, NEW j \in 1 .. k, h[i] = h[j] PROVE i = j
    <3>1. q[i] = q[j] /\ q[i] \in Nat
      BY <2>2
    <3>2. ~ (i < j) /\ ~ (j < i)
      BY <1>1, <3>1
    <3> QED BY <3>2
  <2> HIDE DEF h
  <2> QED BY <2>1, <2>2 DEF Injection, IsInjective
<1> HIDE DEF h
<1>3. IsFiniteSet(1 .. k) /\ Cardinality(1 .. k) = k
  BY FS_Interval
<1>4. Cardinality(1 .. k) <= Cardinality(D)
  BY <1>2, FS_Injection
<1> QED BY <1>3, <1>4

-----------------------------------------------------------------------------
(* The inductive invariant *)

\* The command or header the walk is at.
Here == IF msg.proto = "FF" THEN [command |-> command, place |-> params]
                            ELSE [command |-> End, place |-> pktptr]

\* The message is long enough, and an SMB1 header has the protocol's mark.
Passed(m) == m.bytes >= Header(m) /\ (m.proto = "FF" => m.header[0].id)

Walking == pc \in {"v1", "v2"}

\* It is the first one, or follows the last one that was handled.
Reached ==
  IF handled = <<>> THEN Here = First(msg)
                    ELSE Here \in Goals(msg, Node(handled[Len(handled)]))

\* Why the walk is where it is.
Stage ==
  /\ pc = "packet" => handled = <<>> /\ params = 0 /\ words = 0 /\ pktptr = 0 /\ result = 0
  /\ Walking => Passed(msg) /\ result = 0 /\ (pc = "v1" <=> msg.proto = "FF")
  /\ handled # <<>> => Passed(msg)
  /\ pc = "done" /\ result = 0 =>
       handled # <<>> /\ Goals(msg, Node(handled[Len(handled)])) = {}
  /\ pc = "done" /\ result = -1 =>
       \/ ~ Passed(msg) /\ handled = <<>>
       \/ msg.proto # "FF" /\ Passed(msg) /\ Reached /\ ~ msg.header[pktptr].id

\* The visits follow the links, from the first command or header on.
Path ==
  /\ handled # <<>> => Node(handled[1]) = First(msg)
  /\ \A i \in 1 .. Len(handled) - 1 : Node(handled[i + 1]) \in Goals(msg, Node(handled[i]))
  /\ Walking => Reached

\* The blocks and headers that are read are described.
Described ==
  /\ pc = "v1" /\ command \in Andx => params \in DOMAIN msg.link
  /\ pc = "v2" => pktptr \in DOMAIN msg.header
  /\ \A i \in 1 .. Len(handled) :
       /\ handled[i].at \in Nat
       /\ msg.proto = "FF" /\ handled[i].command \in Andx => handled[i].at \in DOMAIN msg.link
       /\ msg.proto # "FF" => handled[i].at \in DOMAIN msg.header /\ msg.header[handled[i].at].id

Sequence(s) == \E S : s \in Seq(S)

SInv == TypeOK /\ Sequence(handled) /\ Stage /\ Path /\ Described

\* A sequence with one more element.
LEMMA OneMore ==
  ASSUME NEW s, Sequence(s), NEW x
  PROVE  /\ Sequence(Append(s, x)) /\ Len(s) \in Nat /\ Len(Append(s, x)) = Len(s) + 1
         /\ Append(s, x)[Len(s) + 1] = x /\ \A i \in 1 .. Len(s) : Append(s, x)[i] = s[i]
         /\ Append(s, x) # <<>> /\ (s = <<>> <=> Len(s) = 0)
<1>1. PICK S : s \in Seq(S)
  BY DEF Sequence
<1>2. s \in Seq(S \cup {x})
  BY <1>1
<1>3. Append(s, x) \in Seq(S \cup {x})
  BY <1>2
<1>4. Len(s) \in Nat /\ Len(Append(s, x)) = Len(s) + 1
      /\ Append(s, x)[Len(s) + 1] = x /\ \A i \in 1 .. Len(s) : Append(s, x)[i] = s[i]
  BY <1>2
<1>5. Append(s, x) # <<>> /\ (s = <<>> <=> Len(s) = 0)
  BY <1>2, <1>3, <1>4
<1> QED BY <1>3, <1>4, <1>5 DEF Sequence

\* The length of a parameter block in bytes.
LEMMA TwiceNat == \A w \in Nat : 2 * w \in Nat
OBVIOUS

\* The unsigned difference is in its range.
LEMMA MinusIs ==
  ASSUME NEW a \in Int, NEW b \in Int
  PROVE  Minus(a, b) \in 0 .. CountLimit - 1
<1> DEFINE d == a - b
<1>1. CountLimit \in Nat /\ CountLimit > 0 /\ d \in Int
  BY SmbAssumption
<1>2. d % CountLimit \in 0 .. CountLimit - 1
  <2> HIDE DEF d
  <2> QED BY <1>1
<1> QED BY <1>2 DEF Minus

\* The facts about a message and its sizes that the steps use.
LEMMA OfMessage ==
  ASSUME TypeOK
  PROVE  /\ msg \in Messages /\ Message(msg)
         /\ msg.bytes \in Nat /\ msg.bytes < CountLimit /\ CountLimit \in Nat
         /\ Hdr1 \in Nat /\ Hdr1 > 0 /\ Hdr2 \in Nat /\ Hdr2 > 0
         /\ params \in Nat /\ pktptr \in Nat /\ words \in Nat
         /\ byteCount \in Nat /\ byteCount < CountLimit
         /\ DOMAIN msg.link \subseteq Nat /\ DOMAIN msg.header \subseteq Nat
         /\ 0 \in DOMAIN msg.header
<1>1. msg \in Messages /\ Message(msg)
  BY SmbAssumption DEF TypeOK
<1>2. msg.bytes \in Nat /\ msg.bytes < CountLimit /\ CountLimit \in Nat
  BY <1>1, SmbAssumption DEF Message
<1>3. /\ params \in Nat /\ pktptr \in Nat /\ words \in Nat
      /\ byteCount \in Nat /\ byteCount < CountLimit
  BY <1>2, SmbAssumption DEF TypeOK
<1>4. /\ Hdr1 \in Nat /\ Hdr1 > 0 /\ Hdr2 \in Nat /\ Hdr2 > 0
  BY SmbAssumption
<1> QED BY <1>1, <1>2, <1>3, <1>4 DEF Message

\* Handling the command or header the walk is at extends the path.
LEMMA Extended ==
  ASSUME SInv, Walking, NEW v, handled' = Append(handled, v), Node(v) = Here, msg' = msg
  PROVE  /\ Sequence(handled') /\ Len(handled) \in Nat /\ Len(handled') = Len(handled) + 1
         /\ handled' # <<>> /\ handled'[Len(handled')] = v
         /\ \A i \in 1 .. Len(handled') :
              (i \in 1 .. Len(handled) /\ handled'[i] = handled[i]) \/ handled'[i] = v
         /\ Node(handled'[1]) = First(msg)
         /\ \A i \in 1 .. Len(handled') - 1 :
              Node(handled'[i + 1]) \in Goals(msg, Node(handled'[i]))
<1> DEFINE n == Len(handled)
<1>1. /\ Sequence(handled') /\ n \in Nat /\ Len(handled') = n + 1
      /\ handled'[n + 1] = v /\ \A i \in 1 .. n : handled'[i] = handled[i]
      /\ handled' # <<>> /\ (handled = <<>> <=> n = 0)
  BY OneMore DEF SInv
<1>2. /\ handled # <<>> => Node(handled[1]) = First(msg)
      /\ \A i \in 1 .. n - 1 : Node(handled[i + 1]) \in Goals(msg, Node(handled[i]))
      /\ IF handled = <<>> THEN Here = First(msg) ELSE Here \in Goals(msg, Node(handled[n]))
  BY DEF SInv, Path, Reached
<1> HIDE DEF n
<1>3. \A i \in 1 .. n + 1 : (i \in 1 .. n /\ handled'[i] = handled[i]) \/ handled'[i] = v
  <2> TAKE i \in 1 .. n + 1
  <2>1. i \in 1 .. n \/ i = n + 1
    BY <1>1
  <2> QED BY <1>1, <2>1
<1>4. Node(handled'[1]) = First(msg)
  <2>1. CASE n = 0
    <3>1. handled'[1] = v
      BY <1>1, <2>1
    <3> QED BY <1>1, <1>2, <2>1, <3>1
  <2>2. CASE n # 0
    <3>1. handled'[1] = handled[1]
      BY <1>1, <2>2
    <3> QED BY <1>1, <1>2, <2>2, <3>1
  <2> QED BY <2>1, <2>2
<1>5. ASSUME NEW i \in 1 .. n PROVE Node(handled'[i + 1]) \in Goals(msg, Node(handled'[i]))
  <2>1. CASE i = n
    <3>1. handled'[i + 1] = v /\ handled'[i] = handled[n] /\ handled # <<>>
      BY <1>1, <2>1
    <3> QED BY <1>2, <3>1
  <2>2. CASE i # n
    <3>1. i \in 1 .. n - 1 /\ i + 1 \in 1 .. n
      BY <1>1, <2>2
    <3>2. handled'[i + 1] = handled[i + 1] /\ handled'[i] = handled[i]
      BY <1>1, <3>1
    <3> QED BY <1>2, <3>1, <3>2
  <2> QED BY <2>1, <2>2
<1>6. n + 1 - 1 = n
  BY <1>1
<1> QED BY <1>1, <1>3, <1>4, <1>5, <1>6 DEF n

-----------------------------------------------------------------------------
(* The steps *)

\* Nothing has been looked at initially.
LEMMA InitWalk == Init => SInv
<1> SUFFICES ASSUME Init PROVE SInv
  OBVIOUS
<1>1. /\ pc = "packet" /\ handled = <<>> /\ params = 0 /\ words = 0 /\ result = 0
      /\ byteCount = 0 /\ pktptr = 0 /\ msg \in Messages /\ isclient \in BOOLEAN /\ ~ Walking
  BY DEF Init, Walking
<1>2. msg.bytes \in Nat /\ CountLimit \in Nat \ {0}
  BY <1>1, SmbAssumption DEF Message
<1>3. TypeOK
  BY <1>1, <1>2 DEF TypeOK
<1>4. Sequence(handled) /\ Len(handled) = 0
  <2>1. handled \in Seq({})
    BY <1>1
  <2> QED BY <1>1, <2>1 DEF Sequence
<1> QED BY <1>1, <1>3, <1>4 DEF SInv, Stage, Path, Described

\* A refused message ends the walk.
LEMMA RefusedWalk == SInv /\ (TooShort \/ BadV1Header \/ BadV2Header) => SInv'
<1> SUFFICES ASSUME SInv, TooShort \/ BadV1Header \/ BadV2Header PROVE SInv'
  OBVIOUS
<1>1. /\ pc' = "done" /\ result' = -1 /\ ~ Walking'
      /\ UNCHANGED <<msg, isclient, command, params, words, pktptr, byteCount, handled>>
  BY DEF TooShort, BadV1Header, BadV2Header, Return, walk, Walking
<1>2. TypeOK' /\ Sequence(handled)' /\ Path' /\ Described'
  BY <1>1 DEF SInv, TypeOK, Path, Described
<1>3. \/ ~ Passed(msg) /\ handled = <<>>
      \/ msg.proto # "FF" /\ Passed(msg) /\ Reached /\ ~ msg.header[pktptr].id
  <2>1. CASE TooShort
    <3>1. ~ (msg.bytes >= Header(msg))
      <4>1. msg.bytes \in Nat /\ Header(msg) \in Nat /\ Header(msg) > 0
        BY OfMessage DEF SInv, Header
      <4> QED BY <2>1, <4>1 DEF TooShort, Header
    <3> QED BY <2>1, <3>1 DEF SInv, Stage, TooShort, Passed
  <2>2. CASE BadV1Header
    BY <2>2 DEF BadV1Header, Enough, SInv, Stage, Passed
  <2>3. CASE BadV2Header
    BY <2>3 DEF BadV2Header, SInv, Stage, Path, Walking
  <2> QED BY <2>1, <2>2, <2>3
<1>4. Stage'
  <2>1. Reached' <=> Reached
    BY <1>1 DEF Reached, Here
  <2> QED BY <1>1, <1>3, <2>1 DEF SInv, Stage
<1> QED BY <1>2, <1>4 DEF SInv

\* The walk of a chain begins with the command of the header.
LEMMA EnterV1Walk == SInv /\ EnterV1 => SInv'
<1> SUFFICES ASSUME SInv, EnterV1 PROVE SInv'
  OBVIOUS
<1>1. /\ pc = "packet" /\ pc' = "v1" /\ msg.proto = "FF" /\ msg.bytes >= Hdr1 /\ msg.header[0].id
      /\ command' = msg.header[0].command /\ UNCHANGED <<msg, isclient, handled, result>>
      /\ handled = <<>> /\ params = 0 /\ words = 0 /\ result = 0 /\ Walking' /\ ~ Walking
  BY DEF EnterV1, Enough, SInv, Stage, Walking
<1>2. /\ msg.bytes \in Nat /\ msg.bytes < CountLimit /\ CountLimit \in Nat
      /\ Hdr1 \in Nat /\ Hdr1 > 0 /\ Empty \in Nat /\ ChainClosed(msg) /\ msg \in Messages /\ isclient \in BOOLEAN
  BY <1>1, OfMessage, SmbAssumption DEF SInv, Message, TypeOK
<1>3. Sequence(handled) /\ Len(handled) = 0
  BY <1>1 DEF SInv
<1>4. /\ params' = Start(msg) /\ words' \in 0 .. 255 /\ pktptr' \in Nat
      /\ byteCount' \in 0 .. CountLimit - 1 /\ params' \in Nat
  <2>1. CASE msg.bytes = Hdr1
    <3>1. words' = 0 /\ byteCount' = 0 /\ params' = Empty /\ pktptr' = Hdr1
      BY SMTT(60), <1>1, <2>1 DEF EnterV1
    <3> QED BY <1>2, <2>1, <3>1 DEF Start
  <2>2. CASE msg.bytes # Hdr1
    <3>1. /\ words' = msg.header[0].words /\ params' = Hdr1 + 1
          /\ pktptr' = Hdr1 + 1 + 2 * words'
          /\ byteCount' = Minus(msg.bytes - Hdr1 - 1, 2 * words')
      BY <2>2 DEF EnterV1
    <3>2. words' \in 0 .. 255 /\ msg.bytes > Hdr1
      BY SMTT(60), <1>1, <1>2, <2>2, <3>1 DEF ChainClosed
    <3>3. Start(msg) = Hdr1 + 1
      BY <3>2 DEF Start
    <3> DEFINE a == msg.bytes - Hdr1 - 1
               b == 2 * words'
    <3>4. a \in Int /\ b \in Nat
      <4>1. a \in Int
        BY <1>2
      <4>2. words' \in Nat
        BY <3>2
      <4>3. b \in Nat
        BY <4>2, TwiceNat
      <4> QED BY <4>1, <4>3
    <3>5. byteCount' = Minus(a, b)
      BY <3>1
    <3>6. byteCount' \in 0 .. CountLimit - 1
      <4> HIDE DEF a, b
      <4> QED BY <3>4, <3>5, MinusIs
    <3> QED BY SMTT(60), <1>2, <3>1, <3>2, <3>3, <3>6
  <2> QED BY <2>1, <2>2
<1>5. TypeOK'
  BY <1>1, <1>2, <1>4 DEF TypeOK
<1>6. Stage'
  BY <1>1 DEF Stage, Passed, Header
<1>7. Path'
  <2>1. Here' = First(msg)
    BY <1>1, <1>4 DEF Here, First
  <2> QED BY <1>1, <1>3, <2>1 DEF Path, Reached
<1>8. Described'
  BY <1>1, <1>2, <1>3, <1>4 DEF Described, ChainClosed
<1> QED BY <1>1, <1>3, <1>5, <1>6, <1>7, <1>8 DEF SInv

\* The walk of a compound begins with the first header.
LEMMA EnterV2Walk == SInv /\ EnterV2 => SInv'
<1> SUFFICES ASSUME SInv, EnterV2 PROVE SInv'
  OBVIOUS
<1>1. /\ pc = "packet" /\ pc' = "v2" /\ msg.proto # "FF" /\ msg.bytes >= Hdr2 /\ byteCount' = msg.bytes
      /\ UNCHANGED <<msg, isclient, command, params, words, pktptr, handled, result>>
      /\ handled = <<>> /\ result = 0 /\ Walking' /\ ~ Walking
  BY DEF EnterV2, Enough, SInv, Stage, Walking
<1>2. /\ msg.bytes \in Nat /\ msg.bytes < CountLimit /\ CountLimit \in Nat
      /\ Hdr2 \in Nat /\ 0 \in DOMAIN msg.header
  BY OfMessage DEF SInv
<1>3. Sequence(handled) /\ Len(handled) = 0
  BY <1>1 DEF SInv
<1>4. pktptr = 0
  BY <1>1 DEF SInv, Stage
<1>5. TypeOK'
  BY <1>1, <1>2, <1>4 DEF SInv, TypeOK
<1>6. Stage'
  BY <1>1 DEF Stage, Passed, Header
<1>7. Path'
  BY <1>1, <1>3, <1>4 DEF Path, Reached, Here, First
<1>8. Described'
  BY <1>1, <1>2, <1>3, <1>4 DEF Described
<1> QED BY <1>1, <1>3, <1>5, <1>6, <1>7, <1>8 DEF SInv

\* A command of a chain: the walk goes on to the one its block names, or ends.
LEMMA V1Walk == SInv /\ V1Command => SInv'
<1> SUFFICES ASSUME SInv, V1Command PROVE SInv'
  OBVIOUS
<1> DEFINE v == V1Handler(command)
           link == msg.link[params]
<1>1. /\ pc = "v1" /\ msg.proto = "FF" /\ Walking /\ handled' = Append(handled, v) /\ result = 0
      /\ UNCHANGED <<msg, isclient, words, pktptr, byteCount>> /\ Passed(msg)
  BY DEF V1Command, SInv, Stage, Walking
<1>2. Node(v) = Here /\ v.at = params /\ v.command = command
  BY <1>1 DEF V1Handler, Node, Here
<1> HIDE DEF v
<1>3. /\ Sequence(handled') /\ Len(handled) \in Nat /\ Len(handled') = Len(handled) + 1
      /\ handled' # <<>> /\ handled'[Len(handled')] = v
      /\ \A i \in 1 .. Len(handled') :
           (i \in 1 .. Len(handled) /\ handled'[i] = handled[i]) \/ handled'[i] = v
      /\ Node(handled'[1]) = First(msg)
      /\ \A i \in 1 .. Len(handled') - 1 :
           Node(handled'[i + 1]) \in Goals(msg, Node(handled'[i]))
  BY <1>1, <1>2, Extended
<1>4. /\ msg.bytes \in Nat /\ params \in Nat /\ ChainClosed(msg)
      /\ msg \in Messages
  BY <1>1, OfMessage DEF SInv, Message
<1>5. /\ IsAndx(command) => params \in DOMAIN msg.link /\ command' = link.command
                            /\ params' = IF link.command # End THEN link.offset ELSE params
      /\ ~ IsAndx(command) => command' = End /\ params' = params
  <2>1. IsAndx(command) => params \in DOMAIN msg.link
    BY <1>1 DEF SInv, Described, IsAndx
  <2> QED BY <2>1 DEF V1Command, Follow, EndChain
<1>6. IF command' = End THEN pc' = "done" /\ result' = 0 ELSE pc' = pc /\ result' = result
  BY DEF V1Command, Return
<1>7. /\ command' = End => Goals(msg, Here) = {} /\ params' = params
      /\ command' # End => Here' \in Goals(msg, Here) /\ params' \in Nat
                           /\ (command' \in Andx => params' \in DOMAIN msg.link)
  <2>1. CASE IsAndx(command)
    <3>1. /\ link.command # End => /\ link.offset \in Nat
                                   /\ link.command \in Andx => link.offset \in DOMAIN msg.link
      BY <1>4, <1>5, <2>1 DEF ChainClosed
    <3>2. Goals(msg, Here) = IF link.command # End
                             THEN {[command |-> link.command, place |-> link.offset]} ELSE {}
      BY <1>1, <2>1 DEF Goals, Here, IsAndx
    <3>3. Here' = [command |-> command', place |-> params']
      BY <1>1 DEF Here
    <3> HIDE DEF link
    <3> QED BY <1>5, <2>1, <3>1, <3>2, <3>3
  <2>2. CASE ~ IsAndx(command)
    <3>1. Goals(msg, Here) = {}
      BY <1>1, <2>2 DEF Goals, Here, IsAndx
    <3> QED BY <1>5, <2>2, <3>1
  <2> QED BY <2>1, <2>2
<1> HIDE DEF link
<1>8. pc' \in {"v1", "done"} /\ result' = 0 /\ (pc' = "v1" <=> command' # End)
      /\ (Walking' <=> pc' = "v1")
  BY <1>1, <1>6 DEF Walking
<1>9. TypeOK'
  <2>1. params' \in Nat
    BY <1>4, <1>7
  <2> QED BY <1>1, <1>8, <2>1 DEF SInv, TypeOK
<1>10. Stage'
  BY <1>1, <1>2, <1>3, <1>7, <1>8 DEF Stage
<1>11. Path'
  BY <1>1, <1>2, <1>3, <1>7, <1>8 DEF Path, Reached
<1>12. Described'
  <2>1. ASSUME NEW i \in 1 .. Len(handled')
        PROVE  /\ handled'[i].at \in Nat
               /\ handled'[i].command \in Andx => handled'[i].at \in DOMAIN msg.link
    <3>1. CASE handled'[i] = v
      BY <1>2, <1>4, <1>5, <3>1 DEF IsAndx
    <3>2. CASE i \in 1 .. Len(handled) /\ handled'[i] = handled[i]
      BY <1>1, <3>2 DEF SInv, Described
    <3> QED BY <1>3, <3>1, <3>2
  <2> QED BY <1>1, <1>7, <1>8, <2>1 DEF Described
<1> QED BY <1>3, <1>9, <1>10, <1>11, <1>12 DEF SInv

\* A header of a compound: the walk goes on to the next one, or ends.
LEMMA V2Walk == SInv /\ V2Command => SInv'
<1> SUFFICES ASSUME SInv, V2Command PROVE SInv'
  OBVIOUS
<1> DEFINE next == msg.header[pktptr].next
           v == V2Handler(byteCount')
<1>1. /\ pc = "v2" /\ msg.proto # "FF" /\ Walking /\ handled' = Append(handled, v) /\ result = 0
      /\ UNCHANGED <<msg, isclient, command, params, words>> /\ Passed(msg)
      /\ msg.header[pktptr].id /\ pktptr' = pktptr + next /\ byteCount' = Minus(byteCount, Hdr2)
      /\ IF next = 0 THEN pc' = "done" /\ result' = 0 ELSE pc' = pc /\ result' = result
  BY DEF V2Command, SInv, Stage, Walking, Last, Return
<1>2. Node(v) = Here /\ v.at = pktptr
  BY <1>1 DEF V2Handler, Node, Here
<1> HIDE DEF v
<1>3. /\ Sequence(handled') /\ Len(handled) \in Nat /\ Len(handled') = Len(handled) + 1
      /\ handled' # <<>> /\ handled'[Len(handled')] = v
      /\ \A i \in 1 .. Len(handled') :
           (i \in 1 .. Len(handled) /\ handled'[i] = handled[i]) \/ handled'[i] = v
      /\ Node(handled'[1]) = First(msg)
      /\ \A i \in 1 .. Len(handled') - 1 :
           Node(handled'[i + 1]) \in Goals(msg, Node(handled'[i]))
  BY <1>1, <1>2, Extended
<1>4. /\ msg.bytes \in Nat /\ msg.bytes < CountLimit /\ CountLimit \in Nat
      /\ Hdr2 \in Nat /\ Hdr2 > 0 /\ pktptr \in Nat /\ byteCount \in Nat /\ byteCount < CountLimit
      /\ CompoundClosed(msg) /\ pktptr \in DOMAIN msg.header
  BY <1>1, OfMessage DEF SInv, Message, Described, TypeOK
<1>5. /\ next \in Nat
      /\ next # 0 => pktptr + next \in DOMAIN msg.header
  BY <1>4 DEF CompoundClosed
<1>6. /\ next = 0 => Goals(msg, Here) = {}
      /\ next # 0 => Here' \in Goals(msg, Here)
  <2>1. Goals(msg, Here) = IF next # 0 THEN {[command |-> End, place |-> pktptr + next]} ELSE {}
    BY <1>1 DEF Goals, Here
  <2>2. Here' = [command |-> End, place |-> pktptr + next]
    BY <1>1 DEF Here
  <2> HIDE DEF next
  <2> QED BY <2>1, <2>2
<1> HIDE DEF next
<1>8. pc' \in {"v2", "done"} /\ result' = 0 /\ (pc' = "v2" <=> next # 0)
      /\ (Walking' <=> pc' = "v2")
  BY <1>1 DEF Walking
<1>9. byteCount' \in 0 .. CountLimit - 1
  BY <1>1, <1>4, MinusIs
<1>10. pktptr' \in Nat
  BY <1>1, <1>4, <1>5
<1>11. TypeOK'
  BY <1>1, <1>8, <1>9, <1>10 DEF SInv, TypeOK
<1>12. Stage'
  BY <1>1, <1>2, <1>3, <1>6, <1>8 DEF Stage
<1>13. Path'
  BY <1>1, <1>2, <1>3, <1>6, <1>8 DEF Path, Reached
<1>14. Described'
  <2>1. ASSUME NEW i \in 1 .. Len(handled')
        PROVE  /\ handled'[i].at \in Nat /\ handled'[i].at \in DOMAIN msg.header
               /\ msg.header[handled'[i].at].id
    <3>1. CASE handled'[i] = v
      BY <1>1, <1>2, <1>4, <3>1
    <3>2. CASE i \in 1 .. Len(handled) /\ handled'[i] = handled[i]
      BY <1>1, <3>2 DEF SInv, Described
    <3> QED BY <1>3, <3>1, <3>2
  <2> QED BY <1>1, <1>5, <1>8, <2>1 DEF Described
<1> QED BY <1>3, <1>11, <1>12, <1>13, <1>14 DEF SInv

\* Every step keeps the invariant.
LEMMA WalkStep == SInv /\ [Next]_vars => SInv'
<1> SUFFICES ASSUME SInv, [Next]_vars PROVE SInv'
  OBVIOUS
<1>1. CASE TooShort \/ BadV1Header \/ BadV2Header
  BY <1>1, RefusedWalk
<1>2. CASE EnterV1
  BY <1>2, EnterV1Walk
<1>3. CASE EnterV2
  BY <1>3, EnterV2Walk
<1>4. CASE V1Command
  BY <1>4, V1Walk
<1>5. CASE V2Command
  BY <1>5, V2Walk
<1>6. CASE UNCHANGED vars
  <2>1. UNCHANGED <<msg, isclient, pc, command, params, words, pktptr, byteCount, handled, result>>
    BY <1>6 DEF vars, walk
  <2>2. TypeOK' /\ Sequence(handled)' /\ Described'
    BY <2>1 DEF SInv, TypeOK, Described
  <2>3. Stage' /\ Path'
    BY <2>1 DEF SInv, Stage, Path, Walking, Reached, Here
  <2> QED BY <2>2, <2>3 DEF SInv
<1> QED BY <1>1, <1>2, <1>3, <1>4, <1>5, <1>6 DEF Next, Finished

-----------------------------------------------------------------------------
(* What the visits and the links have to do with each other *)

\* A command or header leads to one other at most.
LEMMA OneGoal == \A m, at : \A a, b \in Goals(m, at) : a = b
BY DEF Goals

\* The headers of a compound are visited in the order of the message.
LEMMA Ascending ==
  ASSUME SInv, msg.proto # "FF"
  PROVE  /\ Len(handled) \in Nat
         /\ \A i \in 1 .. Len(handled) : handled[i].at \in Nat
         /\ \A i \in 1 .. Len(handled) - 1 : handled[i].at < handled[i + 1].at
<1>1. Len(handled) \in Nat
  BY OneMore DEF SInv
<1>2. \A i \in 1 .. Len(handled) : handled[i].at \in Nat
  BY DEF SInv, Described
<1>3. ASSUME NEW i \in 1 .. Len(handled) - 1 PROVE handled[i].at < handled[i + 1].at
  <2>1. i \in 1 .. Len(handled) /\ i + 1 \in 1 .. Len(handled)
    BY <1>1
  <2>2. Node(handled[i + 1]) \in Goals(msg, Node(handled[i]))
    BY DEF SInv, Path
  <2>3. /\ msg.header[handled[i].at].next # 0
        /\ handled[i + 1].at = handled[i].at + msg.header[handled[i].at].next
    BY <2>2 DEF Goals, Node
  <2>4. handled[i].at \in DOMAIN msg.header
    BY <2>1 DEF SInv, Described
  <2>5. msg.header[handled[i].at].next \in Nat
    BY <2>4, OfMessage DEF SInv, Message, CompoundClosed
  <2> QED BY <1>2, <2>1, <2>3, <2>5
<1> QED BY <1>1, <1>2, <1>3

\* So no more of them are visited than there are.
LEMMA FewHeaders ==
  ASSUME SInv, msg.proto # "FF"
  PROVE  Len(handled) <= Hops(msg)
<1> DEFINE n == Len(handled)
           q == [i \in 1 .. n |-> handled[i].at]
<1>1. /\ n \in Nat /\ \A i \in 1 .. n : handled[i].at \in Nat
      /\ \A i \in 1 .. n - 1 : handled[i].at < handled[i + 1].at
  BY Ascending
<1>2. /\ msg \in Messages /\ IsFiniteSet(DOMAIN msg.header) /\ DOMAIN msg.header \subseteq Nat
  BY OfMessage DEF SInv, Message
<1>3. /\ Hops(msg) \in Nat
      /\ Cardinality(DOMAIN msg.header) \in Nat /\ Cardinality(DOMAIN msg.header) <= Hops(msg)
  BY <1>2, HopsNat
<1>4. /\ \A i \in 1 .. n : q[i] = handled[i].at
      /\ \A i \in 1 .. n - 1 : q[i] < q[i + 1]
  <2>1. \A i \in 1 .. n - 1 : i \in 1 .. n /\ i + 1 \in 1 .. n
    BY <1>1
  <2> QED BY <1>1, <2>1
<1> HIDE DEF q
<1>5. \A i \in 1 .. n : q[i] \in DOMAIN msg.header
  BY <1>4 DEF SInv, Described
<1> HIDE DEF n
<1>6. n <= Cardinality(DOMAIN msg.header)
  BY <1>1, <1>2, <1>4, <1>5, PlacesEnough
<1> QED BY <1>1, <1>3, <1>6 DEF n

\* A walk that came to its end visited nothing twice: from a command visited
\* twice on, all visits would come twice, the last one too, and that leads
\* nowhere.
LEMMA Distinct ==
  ASSUME SInv, pc = "done", result = 0
  PROVE  /\ Len(handled) \in Nat /\ handled # <<>>
         /\ \A i, j \in 1 .. Len(handled) : Node(handled[i]) = Node(handled[j]) => i = j
<1> DEFINE n == Len(handled)
           Twice(i, j) == i \in 1 .. n /\ j \in 1 .. n /\ i < j /\ Node(handled[i]) = Node(handled[j])
           T == {k \in Nat : \E i, j \in 1 .. n : Twice(i, j) /\ k = n - j}
<1>1. /\ n \in Nat /\ handled # <<>> /\ Goals(msg, Node(handled[n])) = {}
      /\ \A i \in 1 .. n - 1 : Node(handled[i + 1]) \in Goals(msg, Node(handled[i]))
  BY OneMore DEF SInv, Stage, Path
<1> HIDE DEF n
<1>2. T = {}
  <2> SUFFICES ASSUME T # {} PROVE FALSE
    OBVIOUS
  <2>1. PICK k \in T : \A l \in T : k <= l
    BY LeastNat
  <2>2. PICK i \in 1 .. n, j \in 1 .. n : Twice(i, j) /\ k = n - j
    OBVIOUS
  <2>3. i \in 1 .. n - 1 /\ i + 1 \in 1 .. n /\ Node(handled[i + 1]) \in Goals(msg, Node(handled[i]))
    BY <1>1, <2>2
  <2>4. j # n
    BY <1>1, <2>2, <2>3
  <2>5. j \in 1 .. n - 1 /\ j + 1 \in 1 .. n /\ Node(handled[j + 1]) \in Goals(msg, Node(handled[j]))
    BY <1>1, <2>2, <2>4
  <2>6. Node(handled[i + 1]) = Node(handled[j + 1])
    BY <2>2, <2>3, <2>5, OneGoal
  <2>7. Twice(i + 1, j + 1)
    BY <1>1, <2>2, <2>3, <2>5, <2>6
  <2> HIDE DEF Twice
  <2>8. n - (j + 1) \in Nat /\ ~ (k <= n - (j + 1))
    BY <1>1, <2>2, <2>5
  <2>9. n - (j + 1) \in T
    BY <2>3, <2>5, <2>7, <2>8
  <2> QED BY <2>1, <2>8, <2>9
<1>3. ASSUME NEW i \in 1 .. n, NEW j \in 1 .. n, Twice(i, j) PROVE FALSE
  <2>1. n - j \in Nat
    BY <1>1
  <2> HIDE DEF Twice
  <2>2. n - j \in T
    BY <1>3, <2>1
  <2> QED BY <1>2, <2>2
<1>4. ASSUME NEW i \in 1 .. n, NEW j \in 1 .. n, Node(handled[i]) = Node(handled[j]) PROVE i = j
  <2>1. ~ (i < j) /\ ~ (j < i)
    BY <1>3, <1>4
  <2> QED BY <2>1
<1> QED BY <1>1, <1>4 DEF n

\* It made no more visits than there are links, and one: two at one place, each
\* followed by another, would be followed by the same one.
LEMMA FewVisits ==
  ASSUME SInv, pc = "done", result = 0
  PROVE  Len(handled) - 1 <= Hops(msg)
<1> DEFINE n == Len(handled)
           q == [i \in 1 .. n - 1 |-> handled[i].at]
<1>1. /\ n \in Nat /\ n - 1 \in Nat
      /\ \A i, j \in 1 .. n : Node(handled[i]) = Node(handled[j]) => i = j
      /\ \A i \in 1 .. n - 1 : Node(handled[i + 1]) \in Goals(msg, Node(handled[i]))
  <2>1. n # 0
    BY OneMore, Distinct DEF SInv
  <2>2. n \in Nat
    BY Distinct
  <2> QED BY <2>1, <2>2, Distinct DEF SInv, Path
<1>2. /\ msg \in Messages /\ IsFiniteSet(DOMAIN msg.link)
      /\ Hops(msg) \in Nat
      /\ Cardinality(DOMAIN msg.link) \in Nat /\ Cardinality(DOMAIN msg.link) <= Hops(msg)
  BY OfMessage, HopsNat DEF SInv, Message
<1>3. CASE msg.proto # "FF"
  BY <1>1, <1>2, <1>3, FewHeaders
<1>4. CASE msg.proto = "FF"
  <2>1. \A i \in 1 .. n - 1 : i \in 1 .. n /\ i + 1 \in 1 .. n
    BY <1>1
  <2>2. ASSUME NEW i \in 1 .. n - 1
        PROVE  /\ handled[i].command \in Andx /\ handled[i].at \in DOMAIN msg.link
               /\ Goals(msg, Node(handled[i])) =
                    {[command |-> msg.link[handled[i].at].command,
                      place |-> msg.link[handled[i].at].offset]}
    <3>1. Node(handled[i + 1]) \in Goals(msg, Node(handled[i]))
      BY <1>1
    <3>2. handled[i].command \in Andx /\ msg.link[handled[i].at].command # End
      BY <1>4, <3>1 DEF Goals, Node
    <3>3. handled[i].at \in DOMAIN msg.link
      BY <1>4, <2>1, <3>2 DEF SInv, Described
    <3> QED BY <1>4, <3>2, <3>3 DEF Goals, Node
  <2>3. q \in Injection(1 .. n - 1, DOMAIN msg.link)
    <3>1. q \in [1 .. n - 1 -> DOMAIN msg.link]
      BY <2>2
    <3>2. \A i \in 1 .. n - 1 : q[i] = handled[i].at
      OBVIOUS
    <3> HIDE DEF q, n
    <3>3. ASSUME NEW i \in 1 .. n - 1, NEW j \in 1 .. n - 1, q[i] = q[j] PROVE i = j
      <4>1. Goals(msg, Node(handled[i])) = Goals(msg, Node(handled[j]))
        BY <2>2, <3>2, <3>3
      <4>2. Node(handled[i + 1]) = Node(handled[j + 1])
        BY <1>1, <4>1, OneGoal
      <4>3. i + 1 = j + 1
        BY <1>1, <2>1, <4>2
      <4> QED BY <4>3
    <3> QED BY <3>1, <3>3 DEF Injection, IsInjective
  <2> HIDE DEF q, n
  <2>4. IsFiniteSet(1 .. n - 1) /\ Cardinality(1 .. n - 1) = n - 1
    <3> DEFINE k == n - 1
    <3>1. k \in Nat
      BY <1>1
    <3> HIDE DEF k
    <3>2. IsFiniteSet(1 .. k) /\ Cardinality(1 .. k) = k
      BY <3>1, FS_Interval
    <3> QED BY <3>2 DEF k
  <2>5. Cardinality(1 .. n - 1) <= Cardinality(DOMAIN msg.link)
    BY <1>2, <2>3, FS_Injection
  <2> QED BY <1>1, <1>2, <2>4, <2>5 DEF n
<1> QED BY <1>3, <1>4

\* All that it handled is linked.
LEMMA VisitsLinked ==
  ASSUME SInv, pc = "done", result = 0
  PROVE  \A i \in 1 .. Len(handled) : Node(handled[i]) \in Linked(msg)
<1> DEFINE n == Len(handled)
           p == [i \in 1 .. n |-> Node(handled[i])]
<1>1. n \in Nat /\ n - 1 <= Hops(msg) /\ msg \in Messages
  BY Distinct, FewVisits, OfMessage DEF SInv
<1>2. /\ \A i \in 1 .. n : p[i] = Node(handled[i])
      /\ n >= 1 => p[1] = First(msg)
  <2>1. n >= 1 => 1 \in 1 .. n /\ handled # <<>>
    BY <1>1, OneMore DEF SInv
  <2> QED BY <2>1 DEF SInv, Path
<1>3. \A i \in 1 .. n - 1 : p[i + 1] \in Goals(msg, p[i])
  <2>1. \A i \in 1 .. n - 1 : i \in 1 .. n /\ i + 1 \in 1 .. n
    BY <1>1
  <2> HIDE DEF p
  <2> QED BY <1>2, <2>1 DEF SInv, Path
<1> HIDE DEF n, p
<1>4. \A i \in 1 .. n : p[i] \in Linked(msg)
  BY <1>1, <1>2, <1>3, PathLinked
<1> QED BY <1>2, <1>4 DEF n

\* The header at which a compound is refused is linked.
LEMMA HereLinked ==
  ASSUME SInv, msg.proto # "FF", Reached
  PROVE  Here \in Linked(msg)
<1> DEFINE n == Len(handled)
           p == [i \in 1 .. n + 1 |-> IF i = n + 1 THEN Here ELSE Node(handled[i])]
<1>1. n \in Nat /\ n <= Hops(msg) /\ msg \in Messages /\ (handled = <<>> <=> n = 0)
  BY Ascending, FewHeaders, OfMessage, OneMore DEF SInv
<1>2. /\ p[n + 1] = Here
      /\ \A i \in 1 .. n : p[i] = Node(handled[i])
  <2>1. n + 1 \in 1 .. n + 1 /\ \A i \in 1 .. n : i \in 1 .. n + 1 /\ i # n + 1
    BY <1>1
  <2> QED BY <2>1
<1> HIDE DEF p
<1>3. p[1] = First(msg)
  <2>1. CASE n = 0
    <3>1. Here = First(msg) /\ n + 1 = 1
      BY <1>1, <2>1 DEF Reached
    <3> QED BY <1>2, <3>1
  <2>2. CASE n # 0
    <3>1. 1 \in 1 .. n /\ handled # <<>>
      BY <1>1, <2>2
    <3> QED BY <1>2, <3>1 DEF SInv, Path
  <2> QED BY <2>1, <2>2
<1>4. ASSUME NEW i \in 1 .. n PROVE p[i + 1] \in Goals(msg, p[i])
  <2>1. CASE i = n
    <3>1. handled # <<>> /\ p[i + 1] = Here /\ p[i] = Node(handled[n])
      BY <1>1, <1>2, <2>1
    <3> QED BY <3>1 DEF Reached
  <2>2. CASE i # n
    <3>1. i \in 1 .. n - 1 /\ i + 1 \in 1 .. n
      BY <1>1, <2>2
    <3>2. p[i + 1] = Node(handled[i + 1]) /\ p[i] = Node(handled[i])
      BY <1>2, <3>1
    <3> QED BY <3>1, <3>2 DEF SInv, Path
  <2> QED BY <2>1, <2>2
<1> HIDE DEF n
<1> DEFINE k == n + 1
<1>5. k \in Nat /\ k - 1 = n /\ k \in 1 .. k /\ k - 1 <= Hops(msg) /\ p[k] = Here
  BY <1>1, <1>2
<1> HIDE DEF k
<1>6. \A i \in 1 .. k - 1 : p[i + 1] \in Goals(msg, p[i])
  BY <1>4, <1>5
<1>7. \A i \in 1 .. k : p[i] \in Linked(msg)
  BY <1>1, <1>3, <1>5, <1>6, PathLinked
<1> QED BY <1>5, <1>7

\* When a message was accepted, all that is linked was handled.
LEMMA AllHandled ==
  ASSUME SInv, pc = "done", result = 0
  PROVE  Linked(msg) \subseteq {Node(handled[i]) : i \in 1 .. Len(handled)}
<1> DEFINE n == Len(handled)
           C == {Node(handled[i]) : i \in 1 .. n}
<1>1. /\ n \in Nat /\ n # 0 /\ msg \in Messages /\ handled # <<>>
      /\ Goals(msg, Node(handled[n])) = {} /\ Node(handled[1]) = First(msg)
  BY OneMore, OfMessage DEF SInv, Stage, Path
<1>2. First(msg) \in C
  <2>1. 1 \in 1 .. n
    BY <1>1
  <2> QED BY <1>1, <2>1
<1>3. ASSUME NEW at \in C PROVE Goals(msg, at) \subseteq C
  <2>1. PICK i \in 1 .. n : at = Node(handled[i])
    OBVIOUS
  <2>2. CASE i = n
    BY <1>1, <2>1, <2>2
  <2>3. CASE i # n
    <3>1. i \in 1 .. n - 1 /\ i + 1 \in 1 .. n
      BY <1>1, <2>3
    <3>2. Node(handled[i + 1]) \in Goals(msg, at) /\ Node(handled[i + 1]) \in C
      BY <2>1, <3>1 DEF SInv, Path
    <3> HIDE DEF C
    <3> QED BY <3>2, OneGoal
  <2> QED BY <2>2, <2>3
<1> HIDE DEF C
<1>4. Linked(msg) \subseteq C
  BY <1>1, <1>2, <1>3, Closure
<1> QED BY <1>4 DEF C

-----------------------------------------------------------------------------
(* Theorems *)

\* In every reachable state the walk is where the links lead it.
THEOREM Invariance == Spec => []SInv
<1> QED BY InitWalk, WalkStep, PTL DEF Spec

\* The walk keeps its types (smbproto.c:343-426, 446-488).
THEOREM TypeCorrect == Spec => []TypeOK
<1>1. SInv => TypeOK
  BY DEF SInv
<1> QED BY Invariance, <1>1, PTL

\* A message is accepted exactly when all its headers have the mark, wherever
\* its links lead (smbproto.c:326-508).
THEOREM Verdict == Spec => []VerdictExact
<1>1. SInv => VerdictExact
  <2> SUFFICES ASSUME SInv, pc = "done"
               PROVE  result = 0 <=>
                        /\ msg.bytes >= Header(msg)
                        /\ msg.proto = "FF" => msg.header[0].id
                        /\ msg.proto # "FF" => \A at \in Linked(msg) : msg.header[at.place].id
    BY DEF VerdictExact
  <2>1. CASE result = 0
    <3>1. Passed(msg)
      BY <2>1 DEF SInv, Stage
    <3>2. ASSUME msg.proto # "FF", NEW at \in Linked(msg) PROVE msg.header[at.place].id
      <4>1. PICK i \in 1 .. Len(handled) : at = Node(handled[i])
        BY <2>1, AllHandled
      <4>2. at.place = handled[i].at
        BY <4>1 DEF Node
      <4> QED BY <3>2, <4>2 DEF SInv, Described
    <3> QED BY <2>1, <3>1, <3>2 DEF Passed
  <2>2. CASE result = -1
    <3>1. CASE ~ Passed(msg)
      BY <2>2, <3>1 DEF Passed
    <3>2. CASE msg.proto # "FF" /\ Reached /\ ~ msg.header[pktptr].id
      <4>1. Here \in Linked(msg) /\ Here.place = pktptr
        BY <3>2, HereLinked DEF Here
      <4> QED BY <2>2, <3>2, <4>1
    <3> QED BY <2>2, <3>1, <3>2 DEF SInv, Stage
  <2> QED BY <2>1, <2>2 DEF SInv, TypeOK
<1> QED BY Invariance, <1>1, PTL

\* The handlers are called along the links, and in an accepted message once for
\* each command, wherever the links lead (smbproto.c:396-426, 455-486).
THEOREM EachOnce == Spec => []HandledOnce
<1>1. SInv => HandledOnce
  <2> SUFFICES ASSUME SInv PROVE HandledOnce
    OBVIOUS
  <2>1. /\ handled # <<>> => Node(handled[1]) = First(msg)
        /\ \A i \in 1 .. Len(handled) - 1 :
             Node(handled[i + 1]) \in Goals(msg, Node(handled[i]))
    BY DEF SInv, Path
  <2> DEFINE n == Len(handled)
             visits == {Node(handled[i]) : i \in 1 .. n}
             h == [i \in 1 .. n |-> Node(handled[i])]
  <2>2. ASSUME pc = "done", result = 0
        PROVE  visits = Linked(msg) /\ n = Cardinality(Linked(msg))
    <3>1. /\ n \in Nat
          /\ \A i, j \in 1 .. n : Node(handled[i]) = Node(handled[j]) => i = j
      BY <2>2, Distinct
    <3>2. Linked(msg) \subseteq visits /\ \A i \in 1 .. n : Node(handled[i]) \in Linked(msg)
      BY <2>2, AllHandled, VisitsLinked
    <3>3. visits = Linked(msg)
      BY <3>2
    <3>4. \A i \in 1 .. n : h[i] = Node(handled[i])
      OBVIOUS
    <3>5. h \in [1 .. n -> Linked(msg)]
      BY <3>2
    <3> HIDE DEF h
    <3>6. h \in Surjection(1 .. n, Linked(msg))
      BY <3>2, <3>4, <3>5 DEF Surjection
    <3>7. h \in Injection(1 .. n, Linked(msg))
      BY <3>1, <3>4, <3>5 DEF Injection, IsInjective
    <3>8. IsFiniteSet(1 .. n) /\ Cardinality(1 .. n) = n
      <4> HIDE DEF n
      <4> QED BY <3>1, FS_Interval
    <3> QED BY <3>3, <3>6, <3>7, <3>8, FS_Surjection
  <2> QED BY <2>1, <2>2 DEF HandledOnce
<1> QED BY Invariance, <1>1, PTL

=============================================================================
