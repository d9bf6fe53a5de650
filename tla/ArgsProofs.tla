----------------------------- MODULE ArgsProofs -----------------------------
(***************************************************************************)
(* Theorems of Args: for every set of command lines a line of the usage    *)
(* text is run with the options it names, no other line is run, and no     *)
(* read leaves the word it is made in.                                     *)
(***************************************************************************)
EXTENDS Args, Least

-----------------------------------------------------------------------------
(* Words *)

\* An index that does not lie in the word finds the nul behind it.
LEMMA CharIs ==
  ASSUME NEW w \in Seq(Chars), NEW i \in Nat
  PROVE  /\ Char(w, i) = Nul <=> Len(w) <= i
         /\ i < Len(w) => Char(w, i) = w[i + 1] /\ w[i + 1] \in Chars
<1>1. CASE i < Len(w)
  <2>1. i + 1 \in 1 .. Len(w)
    BY <1>1
  <2>2. w[i + 1] \in Chars
    BY <2>1
  <2>3. Char(w, i) = w[i + 1]
    BY <1>1 DEF Char
  <2> QED BY <1>1, <2>2, <2>3, ArgsAssumption
<1>2. CASE ~ (i < Len(w))
  BY <1>2 DEF Char
<1> QED BY <1>1, <1>2

\* The end of a word (arg + argi) is a word.
LEMMA TailIs ==
  ASSUME NEW w \in Seq(Chars), NEW k \in 1 .. Len(w) + 1
  PROVE  /\ SubSeq(w, k, Len(w)) \in Seq(Chars)
         /\ Len(SubSeq(w, k, Len(w))) = Len(w) + 1 - k
         /\ k <= Len(w) => SubSeq(w, k, Len(w))[1] = w[k]
<1>1. Len(w) \in Nat /\ k \in Nat /\ k >= 1
  OBVIOUS
<1>2. \A i \in k .. Len(w) : w[i] \in Chars
  BY <1>1
<1>3. SubSeq(w, k, Len(w)) \in Seq(Chars)
  BY <1>1, <1>2
<1> QED BY <1>1, <1>3

\* A number in the next word is all of that word.
LEMMA WholeIs ==
  ASSUME NEW w \in Seq(Chars)
  PROVE  SubSeq(w, 1, Len(w)) = w
OBVIOUS

\* strtoul stops at a first character that is no digit.
LEMMA DigitsAre ==
  ASSUME NEW w \in Seq(Chars)
  PROVE  /\ Digits(w) \in 0 .. Len(w)
         /\ \A i \in 1 .. Digits(w) : w[i] \in DOMAIN Value
         /\ Digits(w) < Len(w) => w[Digits(w) + 1] \notin DOMAIN Value
<1> DEFINE Stop(n) == /\ \A i \in 1 .. n : w[i] \in DOMAIN Value
                      /\ n < Len(w) => w[n + 1] \notin DOMAIN Value
           T == {n \in 0 .. Len(w) : n < Len(w) => w[n + 1] \notin DOMAIN Value}
<1>1. Len(w) \in Nat
  OBVIOUS
<1>2. T # {} /\ T \in SUBSET Nat
  <2>1. Len(w) \in T
    BY <1>1
  <2> QED BY <1>1, <2>1
<1>3. PICK n \in T : \A k \in T : n <= k
  <2> HIDE DEF T
  <2> QED BY <1>2, LeastNat
<1>4. n \in 0 .. Len(w) /\ (n < Len(w) => w[n + 1] \notin DOMAIN Value)
  OBVIOUS
<1>5. ASSUME NEW i \in 1 .. n PROVE w[i] \in DOMAIN Value
  <2>1. i - 1 \in 0 .. Len(w) /\ i - 1 < Len(w) /\ ~ (n <= i - 1) /\ (i - 1) + 1 = i
    BY <1>1, <1>4
  <2>2. i - 1 \notin T
    BY <1>3, <2>1
  <2> QED BY <2>1, <2>2
<1>6. Digits(w) = CHOOSE m \in 0 .. Len(w) : Stop(m)
  BY DEF Digits
<1>7. \E m \in 0 .. Len(w) : Stop(m)
  BY <1>4, <1>5
<1>8. Digits(w) \in 0 .. Len(w) /\ Stop(Digits(w))
  <2> HIDE DEF Stop
  <2> QED BY <1>6, <1>7
<1> QED BY <1>8

\* What strtoul leaves of a word: nothing of a number, and all of a word that
\* does not start with a digit.
LEMMA RestIs ==
  ASSUME NEW w \in Seq(Chars)
  PROVE  /\ Rest(w) \in Seq(Chars)
         /\ Rest(w) = <<>> <=> IsNumber(w)
         /\ w # <<>> /\ w[1] \notin DOMAIN Value => Rest(w) # <<>>
<1> DEFINE d == Digits(w)
<1>1. d \in 0 .. Len(w) /\ (\A i \in 1 .. d : w[i] \in DOMAIN Value)
  BY DigitsAre
<1>2. Len(w) \in Nat /\ Rest(w) = SubSeq(w, d + 1, Len(w))
  BY DEF Rest
<1> HIDE DEF d
<1>3. d + 1 \in 1 .. Len(w) + 1
  BY <1>1, <1>2
<1>4. Rest(w) \in Seq(Chars) /\ Len(Rest(w)) = Len(w) + 1 - (d + 1)
  BY <1>2, <1>3, TailIs
<1>5. Rest(w) = <<>> <=> Len(Rest(w)) = 0
  BY <1>4
<1>6. Rest(w) = <<>> <=> d = Len(w)
  BY <1>1, <1>2, <1>4, <1>5
<1>7. ASSUME w # <<>>, w[1] \notin DOMAIN Value PROVE d # Len(w)
  <2>1. Len(w) # 0
    BY <1>7
  <2>2. 1 \notin 1 .. d
    BY <1>1, <1>7
  <2> QED BY <1>1, <1>2, <2>1, <2>2
<1> QED BY <1>4, <1>6, <1>7 DEF IsNumber, d

\* It leaves no more than there was.
LEMMA RestShorter ==
  ASSUME NEW w \in Seq(Chars)
  PROVE  Len(Rest(w)) \in Nat /\ Len(Rest(w)) <= Len(w)
<1> DEFINE d == Digits(w)
<1>1. d \in 0 .. Len(w) /\ Len(w) \in Nat
  BY DigitsAre
<1>2. Rest(w) = SubSeq(w, d + 1, Len(w))
  BY DEF Rest
<1> HIDE DEF d
<1>3. d + 1 \in 1 .. Len(w) + 1
  BY <1>1
<1>4. Len(Rest(w)) = Len(w) + 1 - (d + 1)
  BY <1>2, <1>3, TailIs
<1> QED BY <1>1, <1>4

-----------------------------------------------------------------------------
(* What is said from a word on *)

\* The equation of Says for the last j words.
SaysBack(words, j, f) ==
  f = [i \in Len(words) + 1 - j .. Len(words) + 1 |->
         IF i = Len(words) + 1 THEN Silent ELSE From(words, i, f)]

\* A word is read with what is said behind it and behind its number.
LEMMA FromLater ==
  ASSUME NEW words, NEW i, NEW f, NEW g,
         f[i + 1] = g[i + 1], i < Len(words) => f[i + 2] = g[i + 2]
  PROVE  From(words, i, f) = From(words, i, g)
BY DEF From

\* The recursive function exists, by induction over the words from the end.
LEMMA SaysExists ==
  ASSUME NEW words, Len(words) \in Nat, NEW n \in 0 .. Len(words)
  PROVE  \E f : SaysBack(words, n, f)
<1> DEFINE N == Len(words)
           T == {j \in Nat : j <= N /\ ~ \E f : SaysBack(words, j, f)}
<1>1. SUFFICES ASSUME T # {} PROVE FALSE
  OBVIOUS
<1>2. PICK j \in T : \A k \in T : j <= k
  BY <1>1, LeastNat
<1>3. j \in Nat /\ j <= N /\ ~ \E f : SaysBack(words, j, f)
  OBVIOUS
<1> HIDE DEF T
<1>4. \E g : \A i \in N + 2 - j .. N + 1 :
        g[i] = IF i = N + 1 THEN Silent ELSE From(words, i, g)
  <2>1. CASE j = 0
    <3>1. N + 2 - j .. N + 1 = {}
      BY <2>1
    <3> QED BY <3>1
  <2>2. CASE j # 0
    <3>1. j - 1 \in Nat /\ j - 1 <= N /\ ~ (j <= j - 1) /\ N + 1 - (j - 1) = N + 2 - j
      BY <1>3, <2>2
    <3>2. PICK g : SaysBack(words, j - 1, g)
      BY <1>2, <3>1 DEF T
    <3>3. g = [i \in N + 2 - j .. N + 1 |->
                 IF i = N + 1 THEN Silent ELSE From(words, i, g)]
      BY <3>1, <3>2 DEF SaysBack
    <3>4. \A i \in N + 2 - j .. N + 1 :
            g[i] = IF i = N + 1 THEN Silent ELSE From(words, i, g)
      BY <3>3
    <3> QED BY <3>4
  <2> QED BY <2>1, <2>2
<1>5. PICK g : \A i \in N + 2 - j .. N + 1 :
        g[i] = IF i = N + 1 THEN Silent ELSE From(words, i, g)
  BY <1>4
<1> DEFINE f == [i \in N + 1 - j .. N + 1 |->
                   IF i = N + 1 THEN Silent ELSE From(words, i, g)]
<1>6. ASSUME NEW i \in N + 2 - j .. N + 1 PROVE f[i] = g[i]
  <2>1. i \in N + 1 - j .. N + 1
    BY <1>3
  <2> QED BY <1>5, <2>1
<1>7. ASSUME NEW i \in N + 1 - j .. N + 1
      PROVE  f[i] = IF i = N + 1 THEN Silent ELSE From(words, i, f)
  <2>1. f[i] = IF i = N + 1 THEN Silent ELSE From(words, i, g)
    OBVIOUS
  <2>2. CASE i = N + 1
    BY <2>1, <2>2
  <2>3. CASE i # N + 1
    <3>1. i + 1 \in N + 2 - j .. N + 1 /\ (i < N => i + 2 \in N + 2 - j .. N + 1)
      BY <1>3, <2>3
    <3> HIDE DEF f
    <3>2. f[i + 1] = g[i + 1] /\ (i < N => f[i + 2] = g[i + 2])
      BY <1>6, <3>1
    <3>3. From(words, i, f) = From(words, i, g)
      BY <3>2, FromLater
    <3> QED BY <2>1, <2>3, <3>3
  <2> QED BY <2>2, <2>3
<1>8. f = [i \in N + 1 - j .. N + 1 |-> f[i]]
  OBVIOUS
<1> HIDE DEF f
<1>9. SaysBack(words, j, f)
  BY <1>7, <1>8 DEF SaysBack
<1> QED BY <1>3, <1>9

\* The defining equation of Says.
LEMMA SaysAre ==
  ASSUME NEW words, Len(words) \in Nat
  PROVE  /\ Says(words)[Len(words) + 1] = Silent
         /\ \A i \in 1 .. Len(words) :
              Says(words)[i] = From(words, i, Says(words))
<1> DEFINE N == Len(words)
           Fits(f) == f = [i \in 1 .. N + 1 |->
                             IF i = N + 1 THEN Silent ELSE From(words, i, f)]
<1>1. Says(words) = CHOOSE f : Fits(f)
  BY DEF Says
<1>2. \E f : Fits(f)
  <2>1. N \in 0 .. Len(words) /\ N + 1 - N = 1
    OBVIOUS
  <2>2. PICK f : SaysBack(words, N, f)
    BY <2>1, SaysExists
  <2>3. Fits(f)
    BY <2>1, <2>2 DEF SaysBack
  <2> HIDE DEF Fits
  <2> QED BY <2>3
<1>3. Fits(Says(words))
  <2> HIDE DEF Fits
  <2> QED BY <1>1, <1>2
<1>4. \A i \in 1 .. N + 1 :
        Says(words)[i] = IF i = N + 1 THEN Silent ELSE From(words, i, Says(words))
  BY <1>3
<1>5. N + 1 \in 1 .. N + 1 /\ \A i \in 1 .. N : i \in 1 .. N + 1 /\ i # N + 1
  OBVIOUS
<1> HIDE DEF Fits
<1> QED BY <1>4, <1>5

\* A record of what is said.
IsSaid(r) ==
  r = [legal |-> r.legal, p |-> r.p, l |-> r.l, x |-> r.x, url |-> r.url]

\* What saying one thing more changes.
LEMMA SaidIs ==
  ASSUME NEW r, IsSaid(r), NEW v
  PROVE  /\ \A what \in {"p", "l", "x", "url"} : IsSaid(Said(r, what, v))
         /\ LET q == Said(r, "p", v) IN
              /\ q.legal = r.legal /\ q.l = r.l /\ q.x = r.x /\ q.url = r.url
              /\ q.p = IF r.p = {} THEN {v} ELSE r.p
         /\ LET q == Said(r, "l", v) IN
              /\ q.legal = r.legal /\ q.p = r.p /\ q.x = r.x /\ q.url = r.url
              /\ q.l = IF r.l = {} THEN {v} ELSE r.l
         /\ LET q == Said(r, "x", v) IN
              /\ q.legal = r.legal /\ q.p = r.p /\ q.l = r.l /\ q.url = r.url
              /\ q.x = IF r.x = {} THEN {v} ELSE r.x
         /\ LET q == Said(r, "url", v) IN
              /\ q.legal = r.legal /\ q.p = r.p /\ q.l = r.l /\ q.x = r.x
              /\ q.url = IF r.url = {} THEN {v} ELSE r.url
<1>1. /\ IsSaid(Said(r, "p", v)) /\ IsSaid(Said(r, "l", v))
      /\ IsSaid(Said(r, "x", v)) /\ IsSaid(Said(r, "url", v))
  BY DEF IsSaid, Said
<1>2. LET q == Said(r, "p", v) IN
        /\ q.legal = r.legal /\ q.l = r.l /\ q.x = r.x /\ q.url = r.url
        /\ q.p = IF r.p = {} THEN {v} ELSE r.p
  BY DEF IsSaid, Said
<1>3. LET q == Said(r, "l", v) IN
        /\ q.legal = r.legal /\ q.p = r.p /\ q.x = r.x /\ q.url = r.url
        /\ q.l = IF r.l = {} THEN {v} ELSE r.l
  BY DEF IsSaid, Said
<1>4. LET q == Said(r, "x", v) IN
        /\ q.legal = r.legal /\ q.p = r.p /\ q.l = r.l /\ q.url = r.url
        /\ q.x = IF r.x = {} THEN {v} ELSE r.x
  BY DEF IsSaid, Said
<1>5. LET q == Said(r, "url", v) IN
        /\ q.legal = r.legal /\ q.p = r.p /\ q.l = r.l /\ q.x = r.x
        /\ q.url = IF r.url = {} THEN {v} ELSE r.url
  BY DEF IsSaid, Said
<1> QED BY <1>1, <1>2, <1>3, <1>4, <1>5

\* The records of the other clauses.
LEMMA OthersSaid == IsSaid(Silent) /\ IsSaid(Unclear)
<1>1. IsSaid(Silent)
  BY DEF IsSaid, Silent
<1>2. IsSaid(Unclear)
  BY DEF IsSaid, Unclear
<1> QED BY <1>1, <1>2

\* Every Says(words)[i] is such a record, by induction from the end.
LEMMA SaysRecords ==
  ASSUME NEW words, Len(words) \in Nat, NEW n \in 1 .. Len(words) + 1
  PROVE  IsSaid(Says(words)[n])
<1> DEFINE N == Len(words)
           S == Says(words)
           T == {j \in Nat : j <= N /\ ~ IsSaid(S[N + 1 - j])}
<1>1. ASSUME T # {} PROVE FALSE
  <2>1. PICK j \in T : \A k \in T : j <= k
    BY <1>1, LeastNat
  <2>2. j \in Nat /\ j <= N /\ ~ IsSaid(S[N + 1 - j])
    OBVIOUS
  <2>3. \A k \in Nat : k < j => IsSaid(S[N + 1 - k])
    <3>1. SUFFICES ASSUME NEW k \in Nat, k < j PROVE IsSaid(S[N + 1 - k])
      OBVIOUS
    <3>2. k <= N /\ k \notin T
      BY <2>1, <2>2, <3>1
    <3> QED BY <3>2
  <2> HIDE DEF T, S
  <2>4. IsSaid(Silent) /\ IsSaid(Unclear)
    BY OthersSaid
  <2>5. CASE j = 0
    <3>1. S[N + 1 - j] = Silent
      BY <2>5, SaysAre DEF S
    <3> QED BY <2>2, <2>4, <3>1
  <2>6. CASE j # 0
    <3> DEFINE i == N + 1 - j
    <3>1. i \in 1 .. N /\ S[i] = From(words, i, S)
      BY <2>2, <2>6, SaysAre DEF S
    <3>2. i + 1 = N + 1 - (j - 1) /\ (i < N => j - 2 \in Nat /\ i + 2 = N + 1 - (j - 2))
      BY <2>2, <2>6
    <3>3. IsSaid(S[i + 1])
      <4>1. j - 1 \in Nat /\ j - 1 < j
        BY <2>2, <2>6
      <4>2. IsSaid(S[N + 1 - (j - 1)])
        BY <2>3, <4>1
      <4> QED BY <3>2, <4>2
    <3>4. i < N => IsSaid(S[i + 2])
      <4>1. SUFFICES ASSUME i < N PROVE IsSaid(S[i + 2])
        OBVIOUS
      <4>2. j - 2 \in Nat /\ j - 2 < j
        BY <2>2, <3>2, <4>1
      <4>3. IsSaid(S[N + 1 - (j - 2)])
        BY <2>3, <4>2
      <4> QED BY <3>2, <4>1, <4>3
    <3> HIDE DEF i
    <3>5. \A w : IsSaid(Said(S[i + 1], "url", w))
      BY <3>3, SaidIs
    <3>6. IsSaid(Said(S[i + 1], "x", TRUE))
      BY <3>3, SaidIs
    <3>7. \A what \in {"p", "l"} : \A v :
            /\ IsSaid(Said(S[i + 1], what, v))
            /\ i < N => IsSaid(Said(S[i + 2], what, v))
      BY <3>3, <3>4, SaidIs
    <3>8. IsSaid(From(words, i, S))
      BY <2>4, <3>5, <3>6, <3>7 DEF From, Takes
    <3> QED BY <2>2, <3>1, <3>8 DEF i
  <2> QED BY <2>5, <2>6
<1>2. N + 1 - n \in Nat /\ N + 1 - n <= N /\ N + 1 - (N + 1 - n) = n
  OBVIOUS
<1>3. N + 1 - n \notin T
  BY <1>1
<1> QED BY <1>2, <1>3

\* What each kind of word says: a URL, an option with its number in the word
\* or in the next one, or nothing that is understood.
LEMMA WordSays ==
  ASSUME NEW words \in Seq(Seq(Chars)), NEW i \in 1 .. Len(words)
  PROVE  LET w == words[i]
             S == Says(words)
             inside == w[2] \in {"p", "l"} /\ Len(w) > 2 /\ IsNumber(SubSeq(w, 3, Len(w)))
             behind == /\ w[2] \in {"p", "l"} /\ Len(w) = 2
                       /\ i < Len(words) /\ IsNumber(words[i + 1])
         IN  /\ Char(w, 0) # "-" => S[i] = Said(S[i + 1], "url", w)
             /\ Char(w, 0) = "-" /\ inside =>
                  S[i] = Said(S[i + 1], w[2], Number(SubSeq(w, 3, Len(w))))
             /\ Char(w, 0) = "-" /\ behind =>
                  S[i] = Said(S[i + 2], w[2], Number(words[i + 1]))
             /\ Char(w, 0) = "-" /\ w # <<"-", "x">> /\ ~ inside /\ ~ behind =>
                  ~ S[i].legal
<1> DEFINE w == words[i]
           S == Says(words)
           inside == w[2] \in {"p", "l"} /\ Len(w) > 2 /\ IsNumber(SubSeq(w, 3, Len(w)))
           behind == /\ w[2] \in {"p", "l"} /\ Len(w) = 2
                     /\ i < Len(words) /\ IsNumber(words[i + 1])
<1>1. w \in Seq(Chars) /\ Len(w) \in Nat
  OBVIOUS
<1>2. S[i] = From(words, i, S)
  BY SaysAre
<1>3. ASSUME Char(w, 0) = "-"
      PROVE  Len(w) >= 1 /\ w[1] = "-"
  <2>1. Nul # "-"
    BY DEF Nul
  <2> QED BY <1>1, <1>3, <2>1 DEF Char
<1>4. w = <<"-", "x">> => w[2] = "x"
  OBVIOUS
<1> HIDE DEF S
<1>5. Char(w, 0) # "-" => S[i] = Said(S[i + 1], "url", w)
  BY <1>2 DEF From
<1>6. ASSUME Char(w, 0) = "-", inside
      PROVE  S[i] = Said(S[i + 1], w[2], Number(SubSeq(w, 3, Len(w))))
  <2>1. w # <<"-", "x">> /\ Takes(w)
    BY <1>1, <1>3, <1>4, <1>6 DEF Takes
  <2> QED BY <1>2, <1>6, <2>1 DEF From
<1>7. ASSUME Char(w, 0) = "-", behind
      PROVE  S[i] = Said(S[i + 2], w[2], Number(words[i + 1]))
  <2>1. w # <<"-", "x">> /\ Takes(w) /\ ~ (Len(w) > 2)
    BY <1>1, <1>3, <1>4, <1>7 DEF Takes
  <2> QED BY <1>2, <1>7, <2>1 DEF From
<1>8. ASSUME Char(w, 0) = "-", w # <<"-", "x">>, ~ inside, ~ behind
      PROVE  ~ S[i].legal
  <2>1. S[i] = Unclear
    BY <1>2, <1>8 DEF From, Takes
  <2> QED BY <2>1 DEF Unclear
<1> QED BY <1>5, <1>6, <1>7, <1>8 DEF S

-----------------------------------------------------------------------------
(* The inductive invariant *)

\* What the line says in the end, m, is what the words say that have not been
\* taken, k, over the settings made so far.
Agree(m, k, port, level, url) ==
  /\ m.legal = k.legal /\ m.x = k.x
  /\ k.p # {} => m.p = k.p
  /\ k.p = {} => \/ m.p = {} /\ port = DefaultPort
                 \/ \E v \in m.p : m.p = {v} /\ port = v % PortLimit
  /\ k.l # {} => m.l = k.l
  /\ k.l = {} => (m.l = {} /\ level = DefaultLevel) \/ m.l = {level}
  /\ k.url # {} => m.url = k.url
  /\ k.url = {} => (m.url = {} /\ url = <<>>) \/ m.url = {url}

\* The words from the i-th on are still to be judged.
OnTrack(i) == Agree(Meaning(line), Says(line)[i], localPort, loglevel, serverUrl)

Illegal == ~ Meaning(line).legal

\* The level that is missing at the end has been read as 0.
Stray == Illegal /\ EndsInL /\ next = Len(line)

ArgTypes ==
  /\ line \in Lines /\ next \in 0 .. Len(line)
  /\ pc \in {"word", "switch", "more", "usage", "run"}
  /\ arg \in Seq(Chars) /\ argi \in {0, 1}
  /\ result \in BOOLEAN /\ passthrough \in BOOLEAN

\* The word of an option as it stands in the line.
WholeWord ==
  /\ next \in 1 .. Len(line) /\ arg = line[next]
  /\ arg # <<>> /\ arg[1] = "-"

AtWord ==
  pc = "word" /\ ~ result => OnTrack(next + 1) \/ Stray

AtSwitch ==
  pc = "switch" =>
    /\ ~ result /\ arg # <<>>
    /\ argi = 1 => WholeWord /\ OnTrack(next)
    /\ argi = 0 => Illegal

AtMore ==
  pc = "more" /\ ~ result =>
    /\ argi = 1 => WholeWord /\ OnTrack(next) /\ passthrough
    /\ argi = 0 /\ arg # <<>> => Illegal
    /\ argi = 0 /\ arg = <<>> => OnTrack(next + 1) \/ Stray

\* Once -x is seen the loop stays in its word.
Stuck ==
  passthrough =>
    /\ pc \in {"switch", "more"} /\ ~ result
    /\ Char(arg, 1) = "x" /\ arg # <<>>

AtEnd ==
  /\ pc = "run" =>
       /\ ~ result /\ serverUrl # <<>>
       /\ next = Len(line)
       /\ OnTrack(next + 1) \/ Stray
  /\ pc = "usage" => ~ Proper(Meaning(line))

AInv ==
  /\ ArgTypes
  /\ result => Illegal
  /\ AtWord /\ AtSwitch /\ AtMore /\ Stuck /\ AtEnd

-----------------------------------------------------------------------------
(* A setting is made *)

\* A setting that is made answers for the word that asks for it: the port, cut
\* to 16 bits, ...
LEMMA HearPort ==
  ASSUME NEW m, NEW k, NEW v, NEW port, NEW level, NEW url, IsSaid(k),
         Agree(m, Said(k, "p", v), port, level, url)
  PROVE  Agree(m, k, v % PortLimit, level, url)
<1> DEFINE q == Said(k, "p", v)
<1>1. /\ q.legal = k.legal /\ q.l = k.l /\ q.x = k.x /\ q.url = k.url
      /\ q.p = IF k.p = {} THEN {v} ELSE k.p
  BY SaidIs
<1>2. Agree(m, q, port, level, url)
  OBVIOUS
<1> HIDE DEF q
<1> QED BY <1>1, <1>2 DEF Agree

\* ... the level, ...
LEMMA HearLevel ==
  ASSUME NEW m, NEW k, NEW v, NEW port, NEW level, NEW url, IsSaid(k),
         Agree(m, Said(k, "l", v), port, level, url)
  PROVE  Agree(m, k, port, v, url)
<1> DEFINE q == Said(k, "l", v)
<1>1. /\ q.legal = k.legal /\ q.p = k.p /\ q.x = k.x /\ q.url = k.url
      /\ q.l = IF k.l = {} THEN {v} ELSE k.l
  BY SaidIs
<1>2. Agree(m, q, port, level, url)
  OBVIOUS
<1> HIDE DEF q
<1> QED BY <1>1, <1>2 DEF Agree

\* ... and the URL.
LEMMA HearUrl ==
  ASSUME NEW m, NEW k, NEW v, NEW port, NEW level, NEW url, IsSaid(k),
         Agree(m, Said(k, "url", v), port, level, url)
  PROVE  Agree(m, k, port, level, v)
<1> DEFINE q == Said(k, "url", v)
<1>1. /\ q.legal = k.legal /\ q.p = k.p /\ q.l = k.l /\ q.x = k.x
      /\ q.url = IF k.url = {} THEN {v} ELSE k.url
  BY SaidIs
<1>2. Agree(m, q, port, level, url)
  OBVIOUS
<1> HIDE DEF q
<1> QED BY <1>1, <1>2 DEF Agree

\* The words of a line, and what they say, are what the lemmas above need.
LEMMA LineIs ==
  ASSUME line \in Lines
  PROVE  /\ line \in Seq(Seq(Chars)) /\ Len(line) \in Nat
         /\ \A i \in 1 .. Len(line) : line[i] \in Seq(Chars)
         /\ \A i \in 1 .. Len(line) + 1 : IsSaid(Says(line)[i])
<1>1. line \in Seq(Seq(Chars)) /\ Len(line) \in Nat
  BY ArgsAssumption
<1>2. \A i \in 1 .. Len(line) : line[i] \in Seq(Chars)
  BY <1>1
<1> QED BY <1>1, <1>2, SaysRecords

-----------------------------------------------------------------------------
(* Every step keeps the invariant *)

\* The settings start with their defaults (main.cc:29-43), and all is to come.
LEMMA InitArgs == Init => AInv
<1>1. SUFFICES ASSUME Init PROVE AInv
  OBVIOUS
<1>2. line \in Lines /\ Len(line) \in Nat
  BY <1>1, LineIs DEF Init
<1>3. ArgTypes
  <2>1. arg \in Seq(Chars)
    BY <1>1 DEF Init
  <2>2. next \in 0 .. Len(line)
    BY <1>1, <1>2 DEF Init
  <2>3. /\ pc = "word" /\ argi = 1 /\ result \in BOOLEAN /\ passthrough \in BOOLEAN
    BY <1>1 DEF Init
  <2> QED BY <1>2, <2>1, <2>2, <2>3 DEF ArgTypes
<1>4. OnTrack(next + 1)
  <2>1. IsSaid(Says(line)[1]) /\ next + 1 = 1
    <3>1. 1 \in 1 .. Len(line) + 1
      BY <1>2
    <3> QED BY <1>1, <1>2, <3>1, LineIs DEF Init
  <2> DEFINE k == Says(line)[1]
  <2>2. Agree(k, k, DefaultPort, DefaultLevel, <<>>)
    <3> HIDE DEF k
    <3> QED BY DEF Agree
  <2> QED BY <1>1, <2>1, <2>2 DEF Init, OnTrack, Meaning
<1> QED BY <1>1, <1>3, <1>4 DEF AInv, Init, AtWord, AtSwitch, AtMore, Stuck, AtEnd

\* TakeUrl: the word is the URL unless a later one is.
LEMMA TakeUrlArgs == AInv /\ TakeUrl => AInv'
<1>1. SUFFICES ASSUME AInv, TakeUrl PROVE AInv'
  OBVIOUS
<1>2. /\ line \in Lines /\ next \in 0 .. Len(line) /\ Len(line) \in Nat
      /\ next < Len(line) /\ pc = "word" /\ ~ result /\ ~ passthrough
  BY <1>1, LineIs DEF AInv, ArgTypes, TakeUrl, MoreWords, Stuck
<1>3. ArgTypes'
  BY <1>1, <1>2 DEF AInv, ArgTypes, TakeUrl
<1>4. OnTrack(next + 1)
  BY <1>1, <1>2 DEF AInv, AtWord, Stray
<1>5. OnTrack(next + 1)'
  <2> DEFINE w == line[next + 1]
             S == Says(line)
  <2>1. next + 1 \in 1 .. Len(line) /\ next + 2 \in 1 .. Len(line) + 1 /\ next + 1 + 1 = next + 2
    BY <1>2
  <2>2. S[next + 1] = Said(S[next + 2], "url", w)
    BY <1>1, <1>2, <2>1, LineIs, WordSays DEF TakeUrl, Upcoming
  <2>3. IsSaid(S[next + 2])
    BY <1>2, <2>1, LineIs
  <2> HIDE DEF S
  <2>4. Agree(Meaning(line), S[next + 2], localPort, loglevel, w)
    BY <1>4, <2>2, <2>3, HearUrl DEF OnTrack, S
  <2> QED BY <1>1, <2>1, <2>4 DEF OnTrack, TakeUrl, Upcoming, S
<1> QED BY <1>1, <1>2, <1>3, <1>5
        DEF AInv, TakeUrl, AtWord, AtSwitch, AtMore, Stuck, AtEnd, Illegal

\* TakeOption: the word is kept to be judged by the switch.
LEMMA TakeOptionArgs == AInv /\ TakeOption => AInv'
<1>1. SUFFICES ASSUME AInv, TakeOption PROVE AInv'
  OBVIOUS
<1>2. /\ line \in Lines /\ next \in 0 .. Len(line) /\ Len(line) \in Nat
      /\ next < Len(line) /\ pc = "word" /\ ~ result /\ ~ passthrough
  BY <1>1, LineIs DEF AInv, ArgTypes, TakeOption, MoreWords, Stuck
<1>3. next + 1 \in 1 .. Len(line) /\ line[next + 1] \in Seq(Chars)
  BY <1>2, LineIs
<1>4. /\ line' = line /\ next' = next + 1 /\ arg' = line[next + 1] /\ argi' = 1
      /\ pc' = "switch" /\ ~ result' /\ ~ passthrough' /\ Char(line[next + 1], 0) = "-"
  BY <1>1, <1>2 DEF TakeOption, Upcoming, optionVars
<1>5. ArgTypes'
  BY <1>1, <1>2, <1>3, <1>4 DEF AInv, ArgTypes, TakeOption, optionVars
<1>6. OnTrack(next + 1)
  BY <1>1, <1>2 DEF AInv, AtWord, Stray
<1>7. OnTrack(next)'
  BY <1>1, <1>4, <1>6 DEF OnTrack, TakeOption, optionVars
<1>8. line[next + 1] # <<>> /\ line[next + 1][1] = "-"
  <2>1. Len(line[next + 1]) > 0 /\ line[next + 1][1] = "-"
    <3> DEFINE w == line[next + 1]
    <3>1. Len(w) \in Nat /\ Nul # "-"
      BY <1>3 DEF Nul
    <3> QED BY <1>4, <3>1 DEF Char
  <2> QED BY <2>1
<1>9. WholeWord'
  BY <1>3, <1>4, <1>8 DEF WholeWord
<1> QED BY <1>4, <1>5, <1>7, <1>8, <1>9
        DEF AInv, AtWord, AtSwitch, AtMore, Stuck, AtEnd

\* The number of an option of the line: in its word, in the next word, or
\* missing; text behind it is left in arg and the line is not a legal one.
LEMMA ValueRead ==
  ASSUME AInv, ReadValue, pc = "switch", NEW c \in {"p", "l"}, Char(arg, 1) = c
  PROVE  /\ arg' \in Seq(Chars) /\ argi' = 0 /\ pc' = "more"
         /\ next' \in 0 .. Len(line)
         /\ NoValue => Illegal /\ next' = Len(line) /\ line[Len(line)] = <<"-", c>>
                       /\ line # <<>>
         /\ ~ NoValue /\ arg' # <<>> => Illegal
         /\ ~ NoValue /\ arg' = <<>> =>
              /\ OnTrack(next) /\ next' + 1 \in 1 .. Len(line) + 1
              /\ Says(line)[next] = Said(Says(line)[next' + 1], c, Number(ValueText))
<1> DEFINE S == Says(line)
<1>1. /\ line \in Lines /\ next \in 0 .. Len(line) /\ Len(line) \in Nat
      /\ arg \in Seq(Chars) /\ Len(arg) \in Nat /\ argi \in {0, 1}
      /\ arg # <<>>
      /\ argi = 1 => WholeWord /\ OnTrack(next)
      /\ argi = 0 => Illegal
  BY LineIs DEF AInv, ArgTypes, AtSwitch
<1>2. argi' = 0 /\ pc' = "more" /\ arg' = Rest(ValueText)
  BY DEF ReadValue
<1>3. c # Nul /\ c \notin DOMAIN Value /\ c # "-" /\ c # "x"
  BY ArgsAssumption DEF Nul
<1>4. Len(arg) >= 2 /\ arg[2] = c
  <2>1. 1 < Len(arg)
    BY <1>1, <1>3, CharIs
  <2> QED BY <1>1, <2>1, CharIs
<1>5. Len(arg) \in Nat
  BY <1>1
<1>6. CASE argi = 0
  <2>1. Char(arg, argi + 1) # Nul /\ ~ NoValue /\ next' = next
    BY <1>3, <1>6 DEF NoValue, ReadValue
  <2>2. ValueText = SubSeq(arg, 2, Len(arg))
    BY <1>6, <2>1 DEF ValueText
  <2> DEFINE t == SubSeq(arg, 2, Len(arg))
  <2>3. t \in Seq(Chars) /\ Len(t) = Len(arg) + 1 - 2 /\ t[1] = c
    BY <1>1, <1>4, TailIs
  <2> HIDE DEF t
  <2>4. t # <<>> /\ t[1] \notin DOMAIN Value
    BY <1>1, <1>3, <1>4, <2>3
  <2>5. Rest(t) \in Seq(Chars) /\ Rest(t) # <<>>
    BY <2>3, <2>4, RestIs
  <2> QED BY <1>1, <1>2, <1>6, <2>1, <2>2, <2>5 DEF t
<1>7. CASE argi = 1
  <2>1. /\ next \in 1 .. Len(line) /\ arg = line[next] /\ arg[1] = "-"
        /\ Char(arg, 0) = "-" /\ OnTrack(next) /\ Char(arg, argi + 1) = Char(arg, 2)
    <3>1. WholeWord /\ OnTrack(next)
      BY <1>1, <1>7
    <3>2. Char(arg, 0) = arg[1]
      BY <1>4 DEF Char
    <3> QED BY <1>7, <3>1, <3>2 DEF WholeWord
  <2>2. arg # <<"-", "x">> /\ line \in Seq(Seq(Chars))
    BY <1>1, <1>3, <1>4, LineIs
  <2>3. /\ Len(arg) > 2 /\ IsNumber(SubSeq(arg, 3, Len(arg))) =>
             S[next] = Said(S[next + 1], c, Number(SubSeq(arg, 3, Len(arg))))
        /\ Len(arg) = 2 /\ next < Len(line) /\ IsNumber(line[next + 1]) =>
             S[next] = Said(S[next + 2], c, Number(line[next + 1]))
        /\ /\ ~ (Len(arg) > 2 /\ IsNumber(SubSeq(arg, 3, Len(arg))))
           /\ ~ (Len(arg) = 2 /\ next < Len(line) /\ IsNumber(line[next + 1]))
           => ~ S[next].legal
    BY <1>4, <2>1, <2>2, WordSays
  <2> HIDE DEF S
  <2>4. ~ S[next].legal => Illegal
    BY <2>1 DEF OnTrack, Agree, Illegal, S
  <2>5. CASE Len(arg) > 2
    <3> DEFINE t == SubSeq(arg, 3, Len(arg))
    <3>1. Char(arg, argi + 1) # Nul
      BY <1>1, <2>1, <2>5, CharIs
    <3>2. ~ NoValue /\ next' = next
      BY <3>1 DEF NoValue, ReadValue
    <3>3. ValueText = t
      BY <1>7, <3>1 DEF ValueText
    <3>4. t \in Seq(Chars)
      BY <1>1, <2>5, TailIs
    <3> HIDE DEF t
    <3>5. Rest(t) \in Seq(Chars) /\ (Rest(t) = <<>> <=> IsNumber(t))
      BY <3>4, RestIs
    <3>6. ~ IsNumber(t) => Illegal
      <4>1. ~ (Len(arg) = 2)
        <5>1. \A n \in Nat : n > 2 => n # 2
          OBVIOUS
        <5> QED BY <1>5, <2>5, <5>1
      <4> QED BY <2>3, <2>4, <4>1 DEF t
    <3>7. IsNumber(t) => S[next] = Said(S[next + 1], c, Number(t))
      BY <2>3, <2>5 DEF t
    <3>8. next + 1 \in 1 .. Len(line) + 1
      BY <1>1, <2>1
    <3> QED BY <1>1, <1>2, <2>1, <3>2, <3>3, <3>5, <3>6, <3>7, <3>8 DEF S
  <2>6. CASE Len(arg) = 2 /\ next < Len(line)
    <3>1. Char(arg, argi + 1) = Nul
      BY <1>1, <2>1, <2>6, CharIs
    <3>2. ~ NoValue /\ next' = next + 1
      BY <2>6, <3>1 DEF NoValue, ReadValue, MoreWords
    <3> DEFINE t == line[next + 1]
    <3>3. t \in Seq(Chars) /\ next + 1 \in 1 .. Len(line)
      BY <1>1, <2>6, LineIs
    <3>4. ValueText = t
      <4>1. ValueText = SubSeq(t, 1, Len(t))
        BY <2>6, <3>1 DEF ValueText, ValueStart, Upcoming, MoreWords
      <4> QED BY <3>3, <4>1, WholeIs
    <3>5. ~ IsNumber(t) => Illegal
      BY <2>3, <2>4, <2>6
    <3>6. IsNumber(t) => S[next] = Said(S[next + 2], c, Number(t))
      BY <2>3, <2>6
    <3> HIDE DEF t
    <3>7. Rest(t) \in Seq(Chars) /\ (Rest(t) = <<>> <=> IsNumber(t))
      BY <3>3, RestIs
    <3>8. next' + 1 = next + 2 /\ next' \in 0 .. Len(line) /\ next' + 1 \in 1 .. Len(line) + 1
      BY <1>1, <3>2, <3>3
    <3> QED BY <1>1, <1>2, <2>1, <3>2, <3>4, <3>5, <3>6, <3>7, <3>8 DEF S
  <2>7. CASE Len(arg) = 2 /\ ~ (next < Len(line))
    <3>1. Char(arg, argi + 1) = Nul
      BY <1>1, <2>1, <2>7, CharIs
    <3>2. NoValue /\ next' = next /\ next = Len(line) /\ line # <<>>
      BY <1>1, <2>1, <2>7, <3>1 DEF NoValue, ReadValue, MoreWords
    <3>3. ValueText = <<>>
      BY <2>7, <3>1 DEF ValueText, MoreWords
    <3>4. Rest(<<>>) \in Seq(Chars)
      <4>1. <<>> \in Seq(Chars)
        OBVIOUS
      <4> QED BY <4>1, RestIs
    <3>5. Illegal
      BY <2>3, <2>4, <2>7
    <3>6. arg = <<"-", c>>
      BY <1>1, <1>4, <2>1, <2>7
    <3> QED BY <1>1, <1>2, <2>1, <3>2, <3>3, <3>4, <3>5, <3>6
  <2>8. Len(arg) = 2 \/ Len(arg) > 2
    <3>1. \A n \in Nat : n >= 2 => n = 2 \/ n > 2
      OBVIOUS
    <3> QED BY <1>4, <1>5, <3>1
  <2> QED BY <2>5, <2>6, <2>7, <2>8
<1> QED BY <1>1, <1>6, <1>7

\* OptionP: without a number the line is refused, and no other line is.
LEMMA OptionPArgs == AInv /\ OptionP => AInv'
<1>1. SUFFICES ASSUME AInv, OptionP PROVE AInv'
  OBVIOUS
<1>2. /\ line \in Lines /\ pc = "switch" /\ ~ result /\ Char(arg, 1) = "p"
      /\ ReadValue /\ line' = line /\ passthrough' = passthrough
  BY <1>1 DEF AInv, ArgTypes, OptionP, AtSwitch
<1>3. ~ passthrough /\ passthrough \in BOOLEAN
  BY <1>1, <1>2 DEF AInv, ArgTypes, Stuck
<1>4. /\ arg' \in Seq(Chars) /\ argi' = 0 /\ pc' = "more"
      /\ next' \in 0 .. Len(line)
      /\ NoValue => Illegal /\ next' = Len(line) /\ line[Len(line)] = <<"-", "p">>
                    /\ line # <<>>
      /\ ~ NoValue /\ arg' # <<>> => Illegal
      /\ ~ NoValue /\ arg' = <<>> =>
           /\ OnTrack(next) /\ next' + 1 \in 1 .. Len(line) + 1
           /\ Says(line)[next] = Said(Says(line)[next' + 1], "p", Number(ValueText))
  BY <1>1, <1>2, ValueRead
<1>5. result' = NoValue /\ result' \in BOOLEAN
  BY <1>1, <1>2 DEF OptionP, NoValue
<1>6. ArgTypes'
  BY <1>2, <1>3, <1>4, <1>5 DEF ArgTypes
<1>7. Illegal' <=> Illegal
  BY <1>2 DEF Illegal
<1>8. ASSUME ~ NoValue, arg' = <<>> PROVE OnTrack(next + 1)'
  <2> DEFINE S == Says(line)
  <2>1. IsSaid(S[next' + 1])
    BY <1>2, <1>4, <1>8, LineIs
  <2> HIDE DEF S
  <2>2. Agree(Meaning(line), Said(S[next' + 1], "p", Number(ValueText)),
              localPort, loglevel, serverUrl)
    BY <1>4, <1>8 DEF OnTrack, S
  <2>3. Agree(Meaning(line), S[next' + 1], Number(ValueText) % PortLimit, loglevel, serverUrl)
    BY <2>1, <2>2, HearPort
  <2>4. localPort' = Number(ValueText) % PortLimit /\ loglevel' = loglevel /\ serverUrl' = serverUrl
    BY <1>1 DEF OptionP
  <2> QED BY <1>2, <2>3, <2>4 DEF OnTrack, S
<1> QED BY <1>2, <1>3, <1>4, <1>5, <1>6, <1>7, <1>8
        DEF AInv, AtWord, AtSwitch, AtMore, Stuck, AtEnd

\* OptionL: without a number the loop goes on, and the line ends there.
LEMMA OptionLArgs == AInv /\ OptionL => AInv'
<1>1. SUFFICES ASSUME AInv, OptionL PROVE AInv'
  OBVIOUS
<1>2. /\ line \in Lines /\ pc = "switch" /\ ~ result /\ Char(arg, 1) = "l"
      /\ ReadValue /\ line' = line /\ passthrough' = passthrough
  BY <1>1 DEF AInv, ArgTypes, OptionL, AtSwitch
<1>3. ~ passthrough /\ passthrough \in BOOLEAN
  BY <1>1, <1>2 DEF AInv, ArgTypes, Stuck
<1>4. /\ arg' \in Seq(Chars) /\ argi' = 0 /\ pc' = "more"
      /\ next' \in 0 .. Len(line)
      /\ NoValue => Illegal /\ next' = Len(line) /\ line[Len(line)] = <<"-", "l">>
                    /\ line # <<>>
      /\ ~ NoValue /\ arg' # <<>> => Illegal
      /\ ~ NoValue /\ arg' = <<>> =>
           /\ OnTrack(next) /\ next' + 1 \in 1 .. Len(line) + 1
           /\ Says(line)[next] = Said(Says(line)[next' + 1], "l", Number(ValueText))
  BY <1>1, <1>2, ValueRead
<1>5. ~ result' /\ result' \in BOOLEAN
  BY <1>1, <1>2 DEF AInv, ArgTypes, OptionL
<1>6. ArgTypes'
  BY <1>2, <1>3, <1>4, <1>5 DEF ArgTypes
<1>7. Illegal' <=> Illegal
  BY <1>2 DEF Illegal
<1>8. ASSUME ~ NoValue, arg' = <<>> PROVE OnTrack(next + 1)'
  <2> DEFINE S == Says(line)
  <2>1. IsSaid(S[next' + 1])
    BY <1>2, <1>4, <1>8, LineIs
  <2> HIDE DEF S
  <2>2. Agree(Meaning(line), Said(S[next' + 1], "l", Number(ValueText)),
              localPort, loglevel, serverUrl)
    BY <1>4, <1>8 DEF OnTrack, S
  <2>3. Agree(Meaning(line), S[next' + 1], localPort, Number(ValueText), serverUrl)
    BY <2>1, <2>2, HearLevel
  <2>4. localPort' = localPort /\ loglevel' = Number(ValueText) /\ serverUrl' = serverUrl
    BY <1>1 DEF OptionL
  <2> QED BY <1>2, <2>3, <2>4 DEF OnTrack, S
<1>9. NoValue => Stray'
  BY <1>2, <1>4, <1>7 DEF Stray, EndsInL
<1> QED BY <1>2, <1>3, <1>4, <1>5, <1>6, <1>7, <1>8, <1>9
        DEF AInv, AtWord, AtSwitch, AtMore, Stuck, AtEnd

\* OptionX: arg and argi stay, so that the loop does not leave the word.
LEMMA OptionXArgs == AInv /\ OptionX => AInv'
<1>1. SUFFICES ASSUME AInv, OptionX PROVE AInv'
  OBVIOUS
<1>2. /\ pc = "switch" /\ pc' = "more" /\ passthrough' = TRUE /\ Char(arg, 1) = "x"
      /\ line' = line /\ next' = next /\ arg' = arg /\ argi' = argi /\ result' = result
      /\ localPort' = localPort /\ loglevel' = loglevel /\ serverUrl' = serverUrl
  BY <1>1 DEF OptionX
<1>3. ArgTypes'
  BY <1>1, <1>2 DEF AInv, ArgTypes
<1>4. ~ result /\ arg # <<>>
      /\ (argi = 1 => WholeWord /\ OnTrack(next)) /\ (argi = 0 => Illegal)
  BY <1>1, <1>2 DEF AInv, AtSwitch
<1>5. (WholeWord' <=> WholeWord) /\ (OnTrack(next)' <=> OnTrack(next)) /\ (Illegal' <=> Illegal)
  BY <1>2 DEF WholeWord, OnTrack, Illegal
<1>6. Stuck'
  <2>1. Char(arg, 1)' = Char(arg, 1)
    BY <1>2 DEF Char
  <2> QED BY <1>2, <1>4, <2>1 DEF Stuck
<1> QED BY <1>2, <1>3, <1>4, <1>5, <1>6 DEF AInv, AtWord, AtSwitch, AtMore, AtEnd

\* BadSwitch: the word is not one that is understood.
LEMMA BadSwitchArgs == AInv /\ BadSwitch => AInv'
<1>1. SUFFICES ASSUME AInv, BadSwitch PROVE AInv'
  OBVIOUS
<1>2. /\ pc = "switch" /\ pc' = "more" /\ result' = TRUE /\ Char(arg, 1) \notin {"p", "l", "x"}
      /\ line' = line /\ next' = next /\ arg' = arg /\ argi' = argi
      /\ passthrough' = passthrough
  BY <1>1 DEF BadSwitch, optionVars
<1>3. ArgTypes'
  BY <1>1, <1>2 DEF AInv, ArgTypes
<1>4. /\ line \in Lines /\ arg \in Seq(Chars) /\ argi \in {0, 1} /\ arg # <<>>
      /\ (argi = 1 => WholeWord /\ OnTrack(next)) /\ (argi = 0 => Illegal)
  BY <1>1, <1>2 DEF AInv, ArgTypes, AtSwitch
<1>5. ~ passthrough
  BY <1>1, <1>2 DEF AInv, Stuck
<1>6. ASSUME WholeWord, OnTrack(next) PROVE Illegal
  <2>1. /\ next \in 1 .. Len(line) /\ arg = line[next] /\ arg[1] = "-"
        /\ line \in Seq(Seq(Chars)) /\ Len(arg) \in Nat /\ Len(arg) # 0
    BY <1>4, <1>6, LineIs DEF WholeWord
  <2>2. Char(arg, 0) = "-"
    <3>1. 0 < Len(arg)
      BY <2>1
    <3> QED BY <2>1, <3>1 DEF Char
  <2>3. 1 < Len(arg) => arg[2] \notin {"p", "l", "x"}
    BY <1>2, <1>4, CharIs
  <2>4. ~ (Len(arg) = 2 /\ arg[2] \in {"p", "l"}) /\ ~ (Len(arg) > 2 /\ arg[2] \in {"p", "l"})
    <3>1. \A n \in Nat : n > 2 \/ n = 2 => 1 < n
      OBVIOUS
    <3> QED BY <2>1, <2>3, <3>1
  <2>5. arg # <<"-", "x">>
    BY <2>3
  <2>6. ~ Says(line)[next].legal
    BY <2>1, <2>2, <2>4, <2>5, WordSays
  <2> QED BY <1>6, <2>6 DEF OnTrack, Agree, Illegal
<1>7. Illegal' /\ Illegal
  BY <1>2, <1>4, <1>6 DEF Illegal
<1> QED BY <1>2, <1>3, <1>5, <1>7 DEF AInv, AtWord, AtSwitch, AtMore, Stuck, AtEnd

\* The end of the do loop: at the end of a number, on a refusal, or never.
LEMMA SameWordArgs == AInv /\ SameWord => AInv'
<1>1. SUFFICES ASSUME AInv, SameWord PROVE AInv'
  OBVIOUS
<1>2. /\ pc = "more" /\ pc' = IF ~ result /\ Char(arg, argi) # Nul THEN "switch" ELSE "word"
      /\ line' = line /\ next' = next /\ arg' = arg /\ argi' = argi /\ result' = result
      /\ localPort' = localPort /\ loglevel' = loglevel /\ serverUrl' = serverUrl
      /\ passthrough' = passthrough
  BY <1>1 DEF SameWord, optionVars
<1>3. ArgTypes'
  BY <1>1, <1>2 DEF AInv, ArgTypes
<1>4. /\ arg \in Seq(Chars) /\ argi \in {0, 1} /\ Len(arg) \in Nat /\ result \in BOOLEAN
      /\ result => Illegal
  BY <1>1 DEF AInv, ArgTypes
<1>5. /\ ~ result /\ argi = 1 => WholeWord /\ OnTrack(next) /\ passthrough
      /\ ~ result /\ argi = 0 /\ arg # <<>> => Illegal
      /\ ~ result /\ argi = 0 /\ arg = <<>> => OnTrack(next + 1) \/ Stray
  BY <1>1, <1>2 DEF AInv, AtMore
<1>6. /\ WholeWord' <=> WholeWord
      /\ OnTrack(next)' <=> OnTrack(next)
      /\ OnTrack(next + 1)' <=> OnTrack(next + 1)
      /\ Illegal' <=> Illegal
      /\ Stray' <=> Stray
  BY <1>2 DEF WholeWord, OnTrack, Illegal, Stray, EndsInL
<1>7. passthrough => ~ result /\ Char(arg, 1) = "x" /\ arg # <<>>
  BY <1>1 DEF AInv, Stuck
<1>8. Char(arg, 1) = "x" => Char(arg, 1) # Nul
  BY DEF Nul
<1>9. Char(arg, 0) = Nul <=> arg = <<>>
  <2>1. Len(arg) <= 0 <=> arg = <<>>
    BY <1>4
  <2> QED BY <1>4, <2>1, CharIs
<1>10. CASE ~ result /\ Char(arg, argi) # Nul
  <2>1. pc' = "switch"
    BY <1>2, <1>10
  <2>2. arg # <<>>
    BY <1>4, <1>5, <1>9, <1>10 DEF WholeWord
  <2>3. AtSwitch'
    BY <1>2, <1>4, <1>5, <1>6, <1>10, <2>1, <2>2 DEF AtSwitch
  <2>4. Char(arg, 1)' = Char(arg, 1)
    BY <1>2 DEF Char
  <2>5. Stuck'
    BY <1>2, <1>7, <2>1, <2>4 DEF Stuck
  <2> QED BY <1>2, <1>3, <1>10, <2>1, <2>3, <2>5 DEF AInv, AtWord, AtMore, AtEnd
<1>11. CASE ~ (~ result /\ Char(arg, argi) # Nul)
  <2>1. pc' = "word"
    BY <1>2, <1>11
  <2>2. ~ passthrough
    BY <1>4, <1>7, <1>8, <1>9, <1>11
  <2>3. ~ result => OnTrack(next + 1) \/ Stray
    BY <1>4, <1>5, <1>7, <1>8, <1>9, <1>11
  <2>4. AtWord'
    BY <1>2, <1>6, <2>3 DEF AtWord
  <2> QED BY <1>2, <1>3, <1>4, <1>6, <2>1, <2>2, <2>4
          DEF AInv, AtSwitch, AtMore, Stuck, AtEnd
<1> QED BY <1>10, <1>11

\* Behind the last word what the line says is in the settings.
LEMMA AllTaken ==
  ASSUME line \in Lines, OnTrack(Len(line) + 1)
  PROVE  LET m == Meaning(line) IN
           /\ m.legal /\ m.x = {}
           /\ \/ m.p = {} /\ localPort = DefaultPort
              \/ \E v \in m.p : m.p = {v} /\ localPort = v % PortLimit
           /\ (m.l = {} /\ loglevel = DefaultLevel) \/ m.l = {loglevel}
           /\ (m.url = {} /\ serverUrl = <<>>) \/ m.url = {serverUrl}
<1>1. Says(line)[Len(line) + 1] = Silent
  BY LineIs, SaysAre
<1>2. Agree(Meaning(line), Silent, localPort, loglevel, serverUrl)
  BY <1>1 DEF OnTrack
<1> QED BY <1>2 DEF Agree, Silent

\* The end of the loop (main.cc:112): the usage text if a word was refused or
\* there is no URL.
LEMMA ConcludeArgs == AInv /\ Conclude => AInv'
<1>1. SUFFICES ASSUME AInv, Conclude PROVE AInv'
  OBVIOUS
<1>2. /\ pc = "word" /\ (~ (next < Len(line)) \/ result)
      /\ pc' = IF result \/ serverUrl = <<>> THEN "usage" ELSE "run"
      /\ line' = line /\ next' = next /\ arg' = arg /\ argi' = argi /\ result' = result
      /\ localPort' = localPort /\ loglevel' = loglevel /\ serverUrl' = serverUrl
      /\ passthrough' = passthrough
  BY <1>1 DEF Conclude, optionVars, MoreWords
<1>3. ArgTypes'
  BY <1>1, <1>2 DEF AInv, ArgTypes
<1>4. /\ line \in Lines /\ next \in 0 .. Len(line) /\ Len(line) \in Nat
      /\ result \in BOOLEAN /\ (result => Illegal) /\ ~ passthrough
      /\ ~ result => OnTrack(next + 1) \/ Stray
  BY <1>1, <1>2, LineIs DEF AInv, ArgTypes, AtWord, Stuck
<1>5. ~ result => next = Len(line)
  BY <1>2, <1>4
<1>6. /\ OnTrack(next + 1)' <=> OnTrack(next + 1)
      /\ Illegal' <=> Illegal
      /\ Stray' <=> Stray
      /\ Proper(Meaning(line))' <=> Proper(Meaning(line))
  BY <1>2 DEF OnTrack, Illegal, Stray, EndsInL, Proper
<1>7. Illegal => ~ Proper(Meaning(line))
  BY DEF Illegal, Proper
<1>8. ASSUME ~ result, serverUrl = <<>> PROVE ~ Proper(Meaning(line))
  <2>1. CASE Stray
    BY <1>7, <2>1 DEF Stray
  <2>2. CASE OnTrack(next + 1)
    <3>1. Meaning(line).url \in {{}, {<<>>}}
      BY <1>4, <1>5, <1>8, <2>2, AllTaken
    <3> QED BY <3>1 DEF Proper
  <2> QED BY <1>4, <1>8, <2>1, <2>2
<1>9. AtEnd'
  BY <1>2, <1>4, <1>5, <1>6, <1>7, <1>8 DEF AtEnd
<1> QED BY <1>2, <1>3, <1>4, <1>6, <1>9 DEF AInv, AtWord, AtSwitch, AtMore, Stuck

\* The steps above are all there are.
LEMMA ArgsStep == AInv /\ [Next]_vars => AInv'
<1>1. SUFFICES ASSUME AInv, [Next]_vars PROVE AInv'
  OBVIOUS
<1>2. CASE Step
  BY <1>1, <1>2, TakeUrlArgs, TakeOptionArgs, OptionPArgs, OptionLArgs, OptionXArgs,
     BadSwitchArgs, SameWordArgs, ConcludeArgs DEF Step
<1>3. CASE UNCHANGED vars
  BY <1>1, <1>3 DEF vars, optionVars, AInv, ArgTypes, AtWord, AtSwitch, AtMore, Stuck, AtEnd,
     WholeWord, OnTrack, Illegal, Stray, EndsInL, Char
<1> QED BY <1>1, <1>2, <1>3 DEF Next, Concluded

-----------------------------------------------------------------------------
(* Theorems *)

\* What the loop has made of the words it has taken is always what they say:
\* over the words still to come it adds up to what the whole line says.
THEOREM Invariance == Spec => []AInv
<1> QED BY InitArgs, ArgsStep, PTL DEF Spec

\* A line of the usage text is run with its options, the last of each counting
\* and the others at their defaults, wherever the numbers stand (main.cc:47-112).
THEOREM UsageRuns == Spec => []Understood
<1>1. AInv => Understood
  <2> DEFINE m == Meaning(line)
  <2>1. SUFFICES ASSUME AInv, pc \in {"usage", "run"}, Proper(m)
                 PROVE  /\ pc = "run"
                        /\ Settled(m.p, DefaultPort, localPort)
                        /\ Settled(m.l, DefaultLevel, loglevel)
                        /\ Settled(m.x, FALSE, passthrough)
                        /\ serverUrl \in m.url
    BY DEF Understood
  <2>2. pc = "run"
    BY <2>1 DEF AInv, AtEnd
  <2>3. /\ line \in Lines /\ passthrough = FALSE /\ serverUrl # <<>>
        /\ next = Len(line) /\ (OnTrack(next + 1) \/ Stray)
    BY <2>1, <2>2 DEF AInv, ArgTypes, AtEnd, Stuck
  <2>4. ~ Stray
    BY <2>1 DEF Proper, Stray, Illegal
  <2>5. /\ m.x = {}
        /\ \/ m.p = {} /\ localPort = DefaultPort
           \/ \E v \in m.p : m.p = {v} /\ localPort = v % PortLimit
        /\ (m.l = {} /\ loglevel = DefaultLevel) \/ m.l = {loglevel}
        /\ (m.url = {} /\ serverUrl = <<>>) \/ m.url = {serverUrl}
    BY <2>3, <2>4, AllTaken
  <2>6. m.p \subseteq 0 .. PortLimit - 1 /\ m.url # {}
    BY <2>1 DEF Proper
  <2> HIDE DEF m
  <2>7. Settled(m.p, DefaultPort, localPort)
    <3>1. CASE m.p = {}
      BY <2>5, <3>1 DEF Settled
    <3>2. ASSUME NEW v \in m.p, m.p = {v}, localPort = v % PortLimit
          PROVE  Settled(m.p, DefaultPort, localPort)
      <4>1. v \in 0 .. PortLimit - 1 /\ PortLimit \in Nat \ {0}
        BY <2>6, ArgsAssumption
      <4>2. v % PortLimit = v
        BY <4>1
      <4> QED BY <3>2, <4>2 DEF Settled
    <3> QED BY <2>5, <3>1, <3>2
  <2>8. Settled(m.l, DefaultLevel, loglevel) /\ Settled(m.x, FALSE, passthrough)
    BY <2>3, <2>5 DEF Settled
  <2>9. serverUrl \in m.url
    BY <2>5, <2>6
  <2> QED BY <2>2, <2>7, <2>8, <2>9
<1> QED BY <1>1, Invariance, PTL

\* No other line is run, but for one that ends in -l (main.cc:99-105).
THEOREM OthersRefused == Spec => []NothingIgnored
<1>1. AInv => NothingIgnored
  <2>1. SUFFICES ASSUME AInv, pc = "run" PROVE Meaning(line).legal \/ EndsInL
    BY DEF NothingIgnored
  <2>2. line \in Lines /\ next = Len(line) /\ (OnTrack(next + 1) \/ Stray)
    BY <2>1 DEF AInv, ArgTypes, AtEnd
  <2>3. OnTrack(next + 1) => Meaning(line).legal
    BY <2>2, AllTaken
  <2> QED BY <2>2, <2>3 DEF Stray
<1> QED BY <1>1, Invariance, PTL

\* No index leaves the word arg points into (main.cc:58, 62, 81, 105).
THEOREM Inside == Spec => []ReadsInside
<1>1. AInv => ReadsInside
  <2>1. SUFFICES ASSUME AInv PROVE ReadsInside
    OBVIOUS
  <2>2. arg \in Seq(Chars) /\ Len(arg) \in Nat /\ argi \in {0, 1}
    BY <2>1 DEF AInv, ArgTypes
  <2>3. arg # <<>> => 1 <= Len(arg)
    BY <2>2
  <2>4. Char(arg, 1) \in {"p", "l"} => argi + 1 <= Len(arg)
    <3>1. Char(arg, 1) \in {"p", "l"} => 1 < Len(arg)
      BY <2>2 DEF Char, Nul
    <3>2. \A n \in Nat : 1 < n => 0 + 1 <= n /\ 1 + 1 <= n
      OBVIOUS
    <3> QED BY <2>2, <3>1, <3>2
  <2>5. ASSUME pc = "more", ~ result PROVE argi <= Len(arg)
    <3>1. argi = 1 => arg # <<>>
      BY <2>1, <2>5 DEF AInv, AtMore, WholeWord
    <3>2. 0 <= Len(arg)
      BY <2>2
    <3> QED BY <2>2, <2>3, <3>1, <3>2
  <2>6. pc = "switch" => arg # <<>>
    BY <2>1 DEF AInv, AtSwitch
  <2> QED BY <2>3, <2>4, <2>5, <2>6 DEF ReadsInside
<1> QED BY <1>1, Invariance, PTL

\* Nothing comes after -x: the program never starts its proxy with passthrough
\* (main.cc:97), whatever else the line says.
THEOREM NothingAfterX == Spec => [](passthrough => pc \in {"switch", "more"})
<1>1. AInv => (passthrough => pc \in {"switch", "more"})
  BY DEF AInv, Stuck
<1> QED BY <1>1, Invariance, PTL

-----------------------------------------------------------------------------
(* The way to the end of the loop *)

\* Reading a number takes a word or makes the one it reads shorter: strtoul
\* leaves arg behind the letter at least.
LEMMA ValueShortens ==
  ASSUME AInv, ReadValue, pc = "switch", Char(arg, 1) \in {"p", "l"}
  PROVE  /\ next' \in next .. Len(line)
         /\ next' = next => Len(arg') < Len(arg)
<1>1. /\ line \in Lines /\ next \in 0 .. Len(line) /\ Len(line) \in Nat
      /\ arg \in Seq(Chars) /\ Len(arg) \in Nat /\ argi \in {0, 1}
  BY LineIs DEF AInv, ArgTypes
<1>2. arg' = Rest(ValueText)
  BY DEF ReadValue
<1>3. Len(arg) >= 2
  <2>1. 1 < Len(arg)
    BY <1>1, CharIs DEF Nul
  <2> QED BY <1>1, <2>1
<1>4. CASE Char(arg, argi + 1) # Nul
  <2>1. argi + 2 \in 1 .. Len(arg) + 1 /\ ValueText = SubSeq(arg, argi + 2, Len(arg))
    BY <1>1, <1>3, <1>4 DEF ValueText
  <2>2. ValueText \in Seq(Chars) /\ Len(ValueText) = Len(arg) + 1 - (argi + 2)
    BY <1>1, <2>1, TailIs
  <2>3. Len(arg') \in Nat /\ Len(arg') <= Len(ValueText)
    BY <1>2, <2>2, RestShorter
  <2>4. next' = next
    BY <1>4 DEF ReadValue
  <2> QED BY <1>1, <2>2, <2>3, <2>4
<1>5. CASE Char(arg, argi + 1) = Nul /\ MoreWords
  <2>1. next' = next + 1 /\ next < Len(line)
    BY <1>5 DEF ReadValue, MoreWords
  <2> QED BY <1>1, <2>1
<1>6. CASE Char(arg, argi + 1) = Nul /\ ~ MoreWords
  <2>1. ValueText = <<>> /\ next' = next
    BY <1>6 DEF ValueText, ReadValue
  <2>2. ValueText \in Seq(Chars) /\ Len(ValueText) = 0
    BY <2>1
  <2>3. Len(arg') \in Nat /\ Len(arg') <= 0
    BY <1>2, <2>2, RestShorter
  <2> QED BY <1>1, <1>3, <2>1, <2>3
<1> QED BY <1>4, <1>5, <1>6

\* -p and -l come nearer by what they read.
LEMMA ValueNearer ==
  ASSUME AInv, AInv', OptionP \/ OptionL
  PROVE  Nearer
<1>1. /\ ReadValue /\ pc = "switch" /\ Char(arg, 1) \in {"p", "l"} /\ line' = line
  BY DEF OptionP, OptionL
<1>2. /\ next' \in next .. Len(line)
      /\ next' = next => Len(arg') < Len(arg)
  BY <1>1, ValueShortens
<1>3. next \in Nat /\ Len(line) \in Nat /\ Len(arg) \in Nat /\ Len(arg') \in Nat
  BY LineIs DEF AInv, ArgTypes
<1>4. ~ result
  BY <1>1 DEF AInv, AtSwitch
<1> QED BY <1>1, <1>2, <1>3, <1>4 DEF Nearer

\* The words of a line that are taken are taken for good.
LEMMA WordNearer ==
  ASSUME AInv, TakeUrl \/ TakeOption
  PROVE  Nearer
<1>1. next \in 0 .. Len(line) /\ Len(line) \in Nat
  BY LineIs DEF AInv, ArgTypes
<1>2. next' = next + 1 /\ next < Len(line) /\ line' = line
  BY DEF TakeUrl, TakeOption, MoreWords
<1> QED BY <1>1, <1>2 DEF Nearer

\* A letter that is no option ends the loop, ...
LEMMA LetterNearer ==
  ASSUME AInv, BadSwitch
  PROVE  Nearer
<1>1. next \in 0 .. Len(line) /\ Len(line) \in Nat /\ Len(arg) \in Nat /\ ~ result
  BY LineIs DEF AInv, ArgTypes, AtSwitch, BadSwitch
<1>2. next' = next /\ arg' = arg /\ result' /\ line' = line
  BY DEF BadSwitch
<1> QED BY <1>1, <1>2 DEF Nearer

\* ... and the other steps are a part of its round.
LEMMA RoundNearer ==
  ASSUME AInv, SameWord \/ Conclude
  PROVE  Nearer
<1>1. next \in 0 .. Len(line) /\ Len(line) \in Nat /\ Len(arg) \in Nat
  BY LineIs DEF AInv, ArgTypes
<1>2. /\ next' = next /\ arg' = arg /\ result' = result /\ line' = line
      /\ \/ pc = "more" /\ pc' \in {"switch", "word"}
         \/ pc = "word" /\ pc' \in {"usage", "run"}
  BY DEF SameWord, Conclude
<1>3. Place[pc'] < Place[pc]
  BY <1>2 DEF Place
<1> QED BY <1>1, <1>2, <1>3 DEF Nearer

\* Every step but that of -x takes a word, makes the one that is read shorter,
\* refuses the line or moves on in the round, for every set of command lines:
\* only -x can keep the loop from ending (main.cc:56-107).
THEOREM NearerToTheEnd == Spec => Advances
<1>1. AInv /\ AInv' /\ [Next]_vars => [OptionX \/ Nearer]_vars
  BY ValueNearer, WordNearer, LetterNearer, RoundNearer DEF Next, Step, Concluded
<1> QED BY <1>1, Invariance, PTL DEF Spec, Advances

=============================================================================
