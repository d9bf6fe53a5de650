---------------------------- MODULE LibraryProofs ----------------------------
(***************************************************************************)
(* Theorems of Library: what butil_parse_url accepts is accounted for to   *)
(* the last character, for every URL, what butil_paste_url writes is taken *)
(* apart into what it was made of, and a date of the calendar is read      *)
(* as the time that is written as this date, in every year, and the four   *)
(* functions of file types agree on any path; UTF-8 and base64 read back   *)
(* what they have written, base64 needs the room it asks for, and five     *)
(* digits print every port.                                                *)
(***************************************************************************)
EXTENDS Library, Least

-----------------------------------------------------------------------------
(* Parts of a string *)

\* The least of a set of indices.
LEMMA MinIs ==
  ASSUME NEW T \in SUBSET Nat, T # {}
  PROVE  Min(T) \in T /\ \A i \in T : Min(T) <= i
<1>1. \E i \in T : \A j \in T : i <= j
  BY LeastNat
<1> QED BY <1>1 DEF Min

\* w + i, and the first i characters of w.
LEMMA PartsAre ==
  ASSUME NEW w \in Seq(Chars), NEW i \in 0 .. Len(w)
  PROVE  /\ From(w, i) \in Seq(Chars) /\ Len(From(w, i)) = Len(w) - i
         /\ \A j \in 1 .. Len(w) - i : From(w, i)[j] = w[i + j]
         /\ UpTo(w, i) \in Seq(Chars) /\ Len(UpTo(w, i)) = i
         /\ \A j \in 1 .. i : UpTo(w, i)[j] = w[j]
<1>1. Len(w) \in Nat /\ i \in Nat
  OBVIOUS
<1>2. \A j \in 1 .. Len(w) : w[j] \in Chars
  OBVIOUS
<1>3. From(w, i) \in Seq(Chars) /\ UpTo(w, i) \in Seq(Chars)
  BY <1>1, <1>2 DEF From, UpTo
<1>4. Len(From(w, i)) = Len(w) - i /\ Len(UpTo(w, i)) = i
  BY <1>1 DEF From, UpTo
<1>5. ASSUME NEW j \in 1 .. Len(w) - i PROVE From(w, i)[j] = w[i + j]
  BY <1>1 DEF From
<1>6. ASSUME NEW j \in 1 .. i PROVE UpTo(w, i)[j] = w[j]
  BY <1>1 DEF UpTo
<1> QED BY <1>3, <1>4, <1>5, <1>6

\* Sequences are equal that have the same members.
LEMMA SameMembers ==
  ASSUME NEW S, NEW v \in Seq(S), NEW w \in Seq(S), Len(v) = Len(w),
         \A i \in 1 .. Len(v) : v[i] = w[i]
  PROVE  v = w
OBVIOUS

\* The while loop over the characters stops at the first of `stops', or at the end.
LEMMA SpanIs ==
  ASSUME NEW w \in Seq(Chars), NEW stops
  PROVE  /\ Span(w, stops) \in 0 .. Len(w)
         /\ \A i \in 1 .. Span(w, stops) : w[i] \notin stops
         /\ Span(w, stops) < Len(w) => w[Span(w, stops) + 1] \in stops
<1> DEFINE T == {i \in 0 .. Len(w) - 1 : w[i + 1] \in stops} \cup {Len(w)}
           s == Min(T)
<1>1. Len(w) \in Nat /\ T \in SUBSET Nat /\ T # {}
  OBVIOUS
<1>2. s \in T /\ \A i \in T : s <= i
  <2> HIDE DEF T
  <2> QED BY <1>1, MinIs
<1>3. Span(w, stops) = s
  BY DEF Span
<1> HIDE DEF s
<1>4. s \in 0 .. Len(w)
  BY <1>1, <1>2
<1>5. s < Len(w) => w[s + 1] \in stops
  BY <1>1, <1>2
<1>6. ASSUME NEW i \in 1 .. s PROVE w[i] \notin stops
  <2>1. i - 1 \in 0 .. Len(w) - 1 /\ ~ (s <= i - 1) /\ (i - 1) + 1 = i
    BY <1>1, <1>4
  <2>2. i - 1 \notin T
    BY <1>2, <2>1
  <2> QED BY <2>1, <2>2
<1> QED BY <1>3, <1>4, <1>5, <1>6

\* strtoul takes digits, as many as there are.
LEMMA DigitsAre ==
  ASSUME NEW w \in Seq(Chars)
  PROVE  /\ Digits(w) \in 0 .. Len(w)
         /\ \A i \in 1 .. Digits(w) : w[i] \in DOMAIN Value
<1> DEFINE others == {w[i] : i \in DOMAIN w} \ DOMAIN Value
<1>1. Digits(w) = Span(w, others)
  BY DEF Digits
<1>2. DOMAIN w = 1 .. Len(w) /\ Len(w) \in Nat
  OBVIOUS
<1>3. /\ Digits(w) \in 0 .. Len(w)
      /\ \A i \in 1 .. Digits(w) : w[i] \notin others
  <2> HIDE DEF others
  <2> QED BY <1>1, SpanIs
<1>4. ASSUME NEW i \in 1 .. Digits(w) PROVE w[i] \in DOMAIN Value
  <2>1. i \in DOMAIN w
    BY <1>2, <1>3
  <2> QED BY <1>3, <2>1
<1> QED BY <1>3, <1>4

\* A word of digits only is a number of as many digits.
LEMMA AllDigits ==
  ASSUME NEW w \in Seq(Chars), \A i \in 1 .. Len(w) : w[i] \in DOMAIN Value
  PROVE  Digits(w) = Len(w)
<1> DEFINE others == {w[i] : i \in DOMAIN w} \ DOMAIN Value
<1>1. Digits(w) = Span(w, others)
  BY DEF Digits
<1>2. Len(w) \in Nat /\ others = {}
  OBVIOUS
<1> HIDE DEF others
<1>3. Span(w, others) \in 0 .. Len(w) /\ ~ (Span(w, others) < Len(w))
  BY <1>2, SpanIs
<1> QED BY <1>1, <1>2, <1>3

\* What strtoul reads at the start of w is in its digits.
LEMMA NumberOfDigits ==
  ASSUME NEW w \in Seq(Chars)
  PROVE  LET d == UpTo(w, Digits(w)) IN
           d \in Seq(Chars) /\ Digits(d) = Len(d) /\ Len(d) = Digits(w) /\ Number(d) = Number(w)
<1> DEFINE n == Digits(w)
           d == UpTo(w, n)
<1>1. n \in 0 .. Len(w) /\ (\A i \in 1 .. n : w[i] \in DOMAIN Value)
  BY DigitsAre
<1>2. d \in Seq(Chars) /\ Len(d) = n /\ (\A i \in 1 .. n : d[i] = w[i])
  <2> HIDE DEF n
  <2> QED BY <1>1, PartsAre
<1>3. Digits(d) = Len(d)
  <2> HIDE DEF d
  <2> QED BY <1>1, <1>2, AllDigits
<1>4. UpTo(d, n) = d
  <2> HIDE DEF d, n
  <2>1. Len(d) \in 0 .. Len(d)
    BY <1>1, <1>2
  <2>2. /\ UpTo(d, Len(d)) \in Seq(Chars) /\ Len(UpTo(d, Len(d))) = Len(d)
        /\ \A i \in 1 .. Len(d) : UpTo(d, Len(d))[i] = d[i]
    BY <1>2, <2>1, PartsAre
  <2> QED BY <1>2, <2>2, SameMembers
<1>5. Number(d) = Number(w)
  BY <1>2, <1>3, <1>4 DEF Number
<1> QED BY <1>2, <1>3, <1>5

-----------------------------------------------------------------------------
(* What butil_parse_url accepts *)

\* The host starts within the URL, behind the scheme.
LEMMA SchemeEnds ==
  ASSUME NEW url \in Seq(Chars)
  PROVE  SchemePart(url).after \in 0 .. Len(url)
<1> DEFINE full  == Occurrences(url, <<":", "/", "/">>)
           short == Occurrences(url, <<"/", "/">>)
<1>1. Len(url) \in Nat
  OBVIOUS
<1>2. /\ full \in SUBSET Nat /\ \A i \in full : i + 3 <= Len(url)
      /\ short \in SUBSET Nat /\ \A i \in short : i + 2 <= Len(url)
  BY <1>1 DEF Occurrences
<1>3. SchemePart(url).after = IF full # {} THEN Min(full) + 3
                              ELSE IF short # {} THEN Min(short) + 2 ELSE 0
  BY DEF SchemePart
<1> HIDE DEF full, short
<1>4. ASSUME full # {} PROVE Min(full) + 3 \in 0 .. Len(url)
  <2>1. Min(full) \in full
    BY <1>2, <1>4, MinIs
  <2>2. Min(full) \in Nat /\ Min(full) + 3 <= Len(url)
    BY <1>2, <2>1
  <2> QED BY <1>1, <2>2
<1>5. ASSUME short # {} PROVE Min(short) + 2 \in 0 .. Len(url)
  <2>1. Min(short) \in short
    BY <1>2, <1>5, MinIs
  <2>2. Min(short) \in Nat /\ Min(short) + 2 <= Len(url)
    BY <1>2, <2>1
  <2> QED BY <1>1, <2>2
<1>6. 0 \in 0 .. Len(url)
  BY <1>1
<1> QED BY <1>3, <1>4, <1>5, <1>6

\* Host and port are the start of what they are taken from; the rest is empty
\* or starts with a slash.
LEMMA HostSpelled ==
  ASSUME NEW w \in Seq(Chars), NEW scheme, HostPart(w, PortOf(scheme)).ok
  PROVE  LET h == HostPart(w, PortOf(scheme))
             r == [ok |-> TRUE, scheme |-> scheme, host |-> h.host, port |-> h.port,
                   path |-> Path(h.rest)]
         IN  /\ Spelled(r, w)
             /\ \A i \in DOMAIN r.host : r.host[i] \notin {":", "/"}
             /\ r.path[1] = "/"
<1> DEFINE len  == HostLength(w)
           spec == From(w, len + 1)
           n    == Digits(spec)
           rest == IF Char(w, len) = ":" THEN From(spec, n) ELSE From(w, len)
           host == UpTo(w, len)
           port == IF Char(w, len) = ":" THEN Number(spec) % PortLimit ELSE PortOf(scheme)
           h == HostPart(w, PortOf(scheme))
           r == [ok |-> TRUE, scheme |-> scheme, host |-> h.host, port |-> h.port,
                 path |-> Path(h.rest)]
<1>1. /\ ~ (Char(w, len) = ":" /\ n > MaxPortSpec)
      /\ Char(rest, 0) \in {"/", Nul}
      /\ h.host = host /\ h.rest = rest /\ h.port = port
  BY DEF HostPart, Failed
<1>2. len \in 0 .. Len(w) /\ (\A i \in 1 .. len : w[i] \notin {":", "/"}) /\ Len(w) \in Nat
  BY SpanIs DEF HostLength
<1>3. r.host = host /\ r.port = port /\ r.path = Path(rest) /\ r.scheme = scheme
  BY <1>1
<1> HIDE DEF len, h, r
<1>4. /\ host \in Seq(Chars) /\ Len(host) = len /\ \A j \in 1 .. len : host[j] = w[j]
      /\ From(w, len) \in Seq(Chars)
  BY <1>2, PartsAre
<1>5. \A i \in DOMAIN host : host[i] \notin {":", "/"}
  <2>1. DOMAIN host = 1 .. len
    BY <1>2, <1>4
  <2> QED BY <1>2, <1>4, <2>1
<1>6. Char(w, len) = ":" => len + 1 \in 0 .. Len(w)
  BY <1>2, UrlAssumption DEF Char, Nul
<1>7. ASSUME Char(w, len) = ":"
      PROVE  /\ spec \in Seq(Chars) /\ Len(spec) = Len(w) - (len + 1)
             /\ \A j \in 1 .. Len(spec) : spec[j] = w[len + 1 + j]
             /\ n \in 0 .. Len(spec) /\ From(spec, n) \in Seq(Chars)
  <2>1. /\ spec \in Seq(Chars) /\ Len(spec) = Len(w) - (len + 1)
        /\ \A j \in 1 .. Len(w) - (len + 1) : spec[j] = w[len + 1 + j]
    BY <1>6, <1>7, PartsAre
  <2> HIDE DEF spec
  <2>2. n \in 0 .. Len(spec)
    BY <2>1, DigitsAre
  <2>3. From(spec, n) \in Seq(Chars)
    BY <2>1, <2>2, PartsAre
  <2> QED BY <2>1, <2>2, <2>3
<1>8. rest \in Seq(Chars)
  BY <1>4, <1>7
<1>9. Path(rest)[1] = "/"
  <2> HIDE DEF rest
  <2>1. CASE rest = <<>>
    BY <2>1 DEF Path
  <2>2. CASE rest # <<>>
    <3>1. Len(rest) \in Nat /\ Len(rest) # 0
      BY <1>8, <2>2
    <3>2. 0 < Len(rest) /\ 1 \in 1 .. Len(rest)
      BY <3>1
    <3>3. Char(rest, 0) = rest[1] /\ rest[1] \in Chars
      BY <1>8, <3>2 DEF Char
    <3> QED BY <1>1, <2>2, <3>3, UrlAssumption DEF Path
  <2> QED BY <2>1, <2>2
<1>10. Spelled(r, w)
  <2>1. CASE Char(w, len) # ":"
    <3>1. rest = From(w, len) /\ port = PortOf(scheme)
      BY <2>1
    <3>2. 0 \in 0 .. MaxPortSpec
      BY UrlAssumption
    <3> HIDE DEF rest, port
    <3> QED BY <1>3, <1>4, <2>1, <3>1, <3>2 DEF Spelled, Path
  <2>2. CASE Char(w, len) = ":"
    <3> DEFINE d == SubSeq(w, len + 2, len + 1 + n)
    <3>1. /\ spec \in Seq(Chars) /\ Len(spec) = Len(w) - (len + 1)
          /\ \A j \in 1 .. Len(spec) : spec[j] = w[len + 1 + j]
          /\ n \in 0 .. Len(spec)
      BY <1>7, <2>2
    <3>2. rest = From(spec, n) /\ port = Number(spec) % PortLimit
      BY <2>2
    <3>3. n \in 0 .. MaxPortSpec
      BY <1>1, <2>2, <3>1, UrlAssumption
    <3>4. d = UpTo(spec, n)
      <4> DEFINE u == UpTo(spec, n)
      <4> HIDE DEF spec, n
      <4>1. u \in Seq(Chars) /\ Len(u) = n /\ \A j \in 1 .. n : u[j] = spec[j]
        BY <3>1, PartsAre
      <4>2. len + 1 + n <= Len(w) /\ n \in Nat /\ len \in Nat
        BY <1>2, <3>1
      <4>3. \A j \in 1 .. Len(w) : w[j] \in Chars
        OBVIOUS
      <4>4. d \in Seq(Chars)
        BY <1>2, <4>2, <4>3
      <4>5. Len(d) = n
        BY <1>2, <4>2
      <4>6. \A j \in 1 .. n : d[j] = w[len + 1 + j]
        BY <1>2, <4>2
      <4> HIDE DEF u, d
      <4>7. \A j \in 1 .. n : d[j] = u[j]
        BY SMTT(60), <3>1, <4>1, <4>2, <4>6
      <4> QED BY <4>1, <4>4, <4>5, <4>7, SameMembers DEF u
    <3>5. Digits(d) = n /\ Len(d) = n /\ Number(d) = Number(spec)
      <4> HIDE DEF spec, d
      <4> QED BY <3>1, <3>4, NumberOfDigits
    <3>6. From(w, len + 1 + n) = From(spec, n)
      <4> DEFINE v == From(w, len + 1 + n)
                 u == From(spec, n)
      <4> HIDE DEF spec, n
      <4>1. len + 1 + n \in 0 .. Len(w) /\ n \in Nat /\ len \in Nat
        BY <1>2, <3>1
      <4>2. /\ v \in Seq(Chars) /\ Len(v) = Len(w) - (len + 1 + n)
            /\ \A j \in 1 .. Len(w) - (len + 1 + n) : v[j] = w[len + 1 + n + j]
        BY <4>1, PartsAre
      <4>3. /\ u \in Seq(Chars) /\ Len(u) = Len(spec) - n
            /\ \A j \in 1 .. Len(spec) - n : u[j] = spec[n + j]
        BY <3>1, PartsAre
      <4> HIDE DEF u, v
      <4>4. Len(u) = Len(v) /\ Len(v) = Len(spec) - n
        BY <1>2, <3>1, <4>1, <4>2, <4>3
      <4>5. ASSUME NEW j \in 1 .. Len(v) PROVE v[j] = u[j]
        <5>1. n + j \in 1 .. Len(spec) /\ len + 1 + n + j = len + 1 + (n + j)
          BY <1>2, <3>1, <4>1, <4>4
        <5>2. v[j] = w[len + 1 + n + j]
          BY <4>2
        <5>3. u[j] = spec[n + j]
          BY <4>3, <4>4
        <5>4. spec[n + j] = w[len + 1 + (n + j)]
          BY <3>1, <5>1
        <5> QED BY <5>1, <5>2, <5>3, <5>4
      <4> QED BY <4>2, <4>3, <4>4, <4>5, SameMembers DEF u, v
    <3>7. Len(r.host) = len /\ UpTo(w, len) = r.host
      BY <1>3, <1>4
    <3> HIDE DEF rest, port, spec, n, d
    <3>8. /\ Char(w, len) = ":" /\ Digits(d) = n /\ Len(d) = n
          /\ r.port = Number(d) % PortLimit
          /\ r.path = (IF From(w, len + 1 + n) = <<>> THEN <<"/">> ELSE From(w, len + 1 + n))
      BY <1>3, <2>2, <3>2, <3>5, <3>6 DEF Path
    <3> QED BY <3>3, <3>7, <3>8, <2>2 DEF Spelled, d
  <2> QED BY <2>1, <2>2
<1> QED BY <1>3, <1>5, <1>9, <1>10 DEF r, h

\* An accepted URL that is not a file's is taken apart without a remainder.
LEMMA ParseSpelled ==
  ASSUME NEW url \in Seq(Chars), NEW r, r = Parse(url), r.ok, r.scheme # <<"builtin", "file">>
  PROVE  /\ Spelled(r, From(url, SchemePart(url).after))
         /\ \A i \in DOMAIN r.host : r.host[i] \notin {":", "/"}
         /\ r.path[1] = "/"
<1> DEFINE start  == SchemePart(url)
           scheme == SchemeFromName(start.name)
           w      == From(url, start.after)
           s      == CHOOSE x \in scheme : TRUE
           h      == IF s = <<"builtin", "file">>
                     THEN [ok |-> TRUE, host |-> <<>>, rest |-> w, port |-> DefaultPort["http"]]
                     ELSE HostPart(w, PortOf(s))
           q      == [ok |-> TRUE, scheme |-> s, host |-> h.host, port |-> h.port,
                      path |-> Path(h.rest)]
<1>1. w \in Seq(Chars)
  BY SchemeEnds, PartsAre
<1>2. r = IF Len(start.name) >= MaxScheme \/ scheme = {} THEN Failed
          ELSE IF ~ h.ok THEN Failed
          ELSE IF Len(h.rest) >= MaxPath THEN Failed
          ELSE q
  BY DEF Parse
<1>3. ~ Failed.ok
  BY DEF Failed
<1> HIDE DEF h, s, start, scheme
<1>4. r = q /\ h.ok
  <2> HIDE DEF q
  <2> QED BY <1>2, <1>3
<1>5. q.scheme = s
  OBVIOUS
<1>6. s # <<"builtin", "file">>
  BY <1>4, <1>5
<1>7. h = HostPart(w, PortOf(s))
  BY <1>6 DEF h
<1> HIDE DEF w
<1> QED BY <1>1, <1>4, <1>7, HostSpelled DEF w, start

-----------------------------------------------------------------------------
(* What butil_paste_url writes *)

\* Two strings one behind the other, taken apart where they meet.
LEMMA Glued ==
  ASSUME NEW v \in Seq(Chars), NEW w \in Seq(Chars)
  PROVE  /\ v \o w \in Seq(Chars) /\ Len(v \o w) = Len(v) + Len(w)
         /\ UpTo(v \o w, Len(v)) = v /\ From(v \o w, Len(v)) = w
         /\ \A i \in 1 .. Len(v) : (v \o w)[i] = v[i]
         /\ \A i \in 1 .. Len(w) : (v \o w)[Len(v) + i] = w[i]
<1> DEFINE x == v \o w
           u == UpTo(x, Len(v))
           f == From(x, Len(v))
<1>1. x \in Seq(Chars) /\ Len(x) = Len(v) + Len(w) /\ Len(v) \in Nat /\ Len(w) \in Nat
  OBVIOUS
<1>2. \A i \in 1 .. Len(v) : x[i] = v[i]
  OBVIOUS
<1>3. \A i \in 1 .. Len(w) : x[Len(v) + i] = w[i]
  OBVIOUS
<1> HIDE DEF x
<1>4. Len(v) \in 0 .. Len(x) /\ Len(x) - Len(v) = Len(w)
  BY <1>1
<1>5. /\ f \in Seq(Chars) /\ Len(f) = Len(w) /\ \A j \in 1 .. Len(w) : f[j] = x[Len(v) + j]
      /\ u \in Seq(Chars) /\ Len(u) = Len(v) /\ \A j \in 1 .. Len(v) : u[j] = x[j]
  <2>1. /\ f \in Seq(Chars) /\ Len(f) = Len(x) - Len(v)
        /\ \A j \in 1 .. Len(x) - Len(v) : f[j] = x[Len(v) + j]
        /\ u \in Seq(Chars) /\ Len(u) = Len(v) /\ \A j \in 1 .. Len(v) : u[j] = x[j]
    BY <1>1, <1>4, PartsAre
  <2> HIDE DEF u, f
  <2> QED BY <1>4, <2>1
<1> HIDE DEF u, f
<1>6. u = v
  BY <1>2, <1>5, SameMembers
<1>7. f = w
  <2>1. \A j \in 1 .. Len(f) : f[j] = w[j]
    BY <1>3, <1>5
  <2> QED BY <1>5, <2>1, SameMembers
<1> QED BY <1>1, <1>2, <1>3, <1>6, <1>7 DEF x, u, f

\* Three strings one behind the other.
LEMMA Together ==
  ASSUME NEW u \in Seq(Chars), NEW v \in Seq(Chars), NEW w \in Seq(Chars)
  PROVE  u \o (v \o w) = (u \o v) \o w
<1> DEFINE a == u \o (v \o w)
           b == (u \o v) \o w
           p == u \o v
           q == v \o w
<1>1. /\ p \in Seq(Chars) /\ Len(p) = Len(u) + Len(v)
      /\ q \in Seq(Chars) /\ Len(q) = Len(v) + Len(w)
      /\ \A i \in 1 .. Len(u) : p[i] = u[i]
      /\ \A i \in 1 .. Len(v) : p[Len(u) + i] = v[i]
      /\ \A i \in 1 .. Len(v) : q[i] = v[i]
      /\ \A i \in 1 .. Len(w) : q[Len(v) + i] = w[i]
  BY Glued
<1>2. Len(u) \in Nat /\ Len(v) \in Nat /\ Len(w) \in Nat
  OBVIOUS
<1> HIDE DEF p, q
<1>3. a = u \o q /\ b = p \o w
  BY DEF p, q
<1> HIDE DEF a, b
<1>4. /\ a \in Seq(Chars) /\ Len(a) = Len(u) + Len(q)
      /\ \A i \in 1 .. Len(u) : a[i] = u[i]
      /\ \A i \in 1 .. Len(q) : a[Len(u) + i] = q[i]
  BY ZenonT(60), <1>1, <1>3, Glued
<1>5. /\ b \in Seq(Chars) /\ Len(b) = Len(p) + Len(w)
      /\ \A i \in 1 .. Len(p) : b[i] = p[i]
      /\ \A i \in 1 .. Len(w) : b[Len(p) + i] = w[i]
  BY ZenonT(60), <1>1, <1>3, Glued
<1>6. Len(a) = Len(b)
  BY <1>1, <1>2, <1>4, <1>5
<1>7. ASSUME NEW i \in 1 .. Len(a) PROVE a[i] = b[i]
  <2>1. CASE i <= Len(u)
    <3>1. i \in 1 .. Len(u) /\ i \in 1 .. Len(p)
      BY <1>1, <1>2, <2>1
    <3> QED BY <1>1, <1>4, <1>5, <3>1
  <2>2. CASE ~ (i <= Len(u)) /\ i <= Len(u) + Len(v)
    <3> DEFINE k == i - Len(u)
    <3>1. k \in 1 .. Len(v) /\ k \in 1 .. Len(q) /\ i \in 1 .. Len(p) /\ i = Len(u) + k
      BY <1>1, <1>2, <2>2
    <3> HIDE DEF k
    <3>2. a[i] = q[k] /\ q[k] = v[k]
      BY <1>1, <1>4, <3>1
    <3>3. b[i] = p[i] /\ p[i] = v[k]
      BY <1>1, <1>5, <3>1
    <3> QED BY <3>2, <3>3
  <2>3. CASE ~ (i <= Len(u) + Len(v))
    <3> DEFINE k == i - (Len(u) + Len(v))
    <3>1. /\ k \in 1 .. Len(w) /\ Len(v) + k \in 1 .. Len(q)
          /\ i = Len(u) + (Len(v) + k) /\ i = Len(p) + k
      BY <1>1, <1>2, <1>4, <2>3
    <3> HIDE DEF k
    <3>2. a[i] = q[Len(v) + k] /\ q[Len(v) + k] = w[k]
      BY <1>1, <1>4, <3>1
    <3>3. b[i] = w[k]
      BY <1>5, <3>1
    <3> QED BY <3>2, <3>3
  <2> QED BY <2>1, <2>2, <2>3
<1> QED BY <1>4, <1>5, <1>6, <1>7, SameMembers DEF a, b

\* One character in front of a string.
LEMMA InFront ==
  ASSUME NEW c \in Chars, NEW w \in Seq(Chars)
  PROVE  /\ <<c>> \in Seq(Chars) /\ Len(<<c>>) = 1 /\ <<c>> \o w \in Seq(Chars)
         /\ Len(<<c>> \o w) = 1 + Len(w) /\ (<<c>> \o w)[1] = c
OBVIOUS

\* A span ends where a string begins that starts with a stop.
LEMMA SpanEnds ==
  ASSUME NEW v \in Seq(Chars), NEW w \in Seq(Chars), NEW stops,
         \A i \in 1 .. Len(v) : v[i] \notin stops, Len(w) > 0, w[1] \in stops
  PROVE  Span(v \o w, stops) = Len(v)
<1> DEFINE x == v \o w
           s == Span(x, stops)
<1>1. /\ x \in Seq(Chars) /\ Len(x) = Len(v) + Len(w) /\ Len(v) \in Nat /\ Len(w) \in Nat
      /\ \A i \in 1 .. Len(v) : x[i] = v[i]
      /\ \A i \in 1 .. Len(w) : x[Len(v) + i] = w[i]
  BY Glued
<1> HIDE DEF x
<1>2. /\ s \in 0 .. Len(x) /\ (\A i \in 1 .. s : x[i] \notin stops)
      /\ s < Len(x) => x[s + 1] \in stops
  BY <1>1, SpanIs
<1>3. x[Len(v) + 1] \in stops
  BY <1>1
<1> HIDE DEF s
<1>4. ~ (Len(v) + 1 <= s)
  BY <1>1, <1>2, <1>3
<1>5. ~ (s < Len(v))
  <2> SUFFICES ASSUME s < Len(v) PROVE FALSE
    OBVIOUS
  <2>1. s + 1 \in 1 .. Len(v) /\ s < Len(x)
    BY <1>1, <1>2
  <2> QED BY <1>1, <1>2, <2>1
<1>6. s = Len(v)
  BY <1>1, <1>2, <1>4, <1>5
<1> QED BY <1>6 DEF s, x

\* strtoul reads the digits that were printed, if something else follows.
LEMMA DigitsEnd ==
  ASSUME NEW d \in Seq(DOMAIN Value), NEW w \in Seq(Chars), Len(w) > 0, w[1] = "/"
  PROVE  /\ Digits(d \o w) = Len(d) /\ Number(d \o w) = Number(d)
<1> DEFINE x == d \o w
           others == {x[i] : i \in DOMAIN x} \ DOMAIN Value
<1>1. d \in Seq(Chars) /\ \A i \in 1 .. Len(d) : d[i] \in DOMAIN Value
  <2>1. Len(d) \in Nat /\ \A i \in 1 .. Len(d) : d[i] \in DOMAIN Value
    OBVIOUS
  <2>2. \A c \in DOMAIN Value : c \in Chars
    BY UrlAssumption
  <2> QED BY <2>1, <2>2
<1>2. /\ x \in Seq(Chars) /\ Len(x) = Len(d) + Len(w) /\ UpTo(x, Len(d)) = d
      /\ \A i \in 1 .. Len(w) : x[Len(d) + i] = w[i]
  BY <1>1, Glued
<1>3. Len(d) \in Nat /\ Len(w) \in Nat
  OBVIOUS
<1>4. w[1] \in others
  <2>1. Len(d) + 1 \in DOMAIN x /\ x[Len(d) + 1] = w[1]
    <3> HIDE DEF x
    <3> QED BY <1>2, <1>3
  <2>2. "/" \notin DOMAIN Value
    BY UrlAssumption
  <2> HIDE DEF x
  <2> QED BY <2>1, <2>2
<1>5. \A i \in 1 .. Len(d) : d[i] \notin others
  BY <1>1
<1>6. Digits(x) = Span(x, others)
  BY DEF Digits
<1> HIDE DEF others
<1>7. Span(d \o w, others) = Len(d)
  BY <1>1, <1>4, <1>5, SpanEnds
<1>8. Digits(x) = Len(d)
  BY <1>6, <1>7
<1> HIDE DEF x
<1>9. Number(x) = Number(d)
  BY <1>2, <1>8, NumberOfDigits
<1> QED BY <1>8, <1>9 DEF x

\* "://" is first found behind a name without a colon.
LEMMA SchemeFound ==
  ASSUME NEW name \in Seq(Chars \ {":"}), NEW w \in Seq(Chars)
  PROVE  LET url == name \o (<<":", "/", "/">> \o w) IN
           SchemePart(url).name = name /\ From(url, SchemePart(url).after) = w
<1> DEFINE sep  == <<":", "/", "/">>
           tail == sep \o w
           url  == name \o tail
           full == Occurrences(url, sep)
           n    == Len(name)
<1>1. name \in Seq(Chars) /\ n \in Nat /\ \A i \in 1 .. n : name[i] # ":"
  <2>1. n \in Nat /\ \A i \in 1 .. n : name[i] \in Chars \ {":"}
    OBVIOUS
  <2> QED BY <2>1
<1>2. sep \in Seq(Chars) /\ Len(sep) = 3 /\ sep[1] = ":"
  BY UrlAssumption
<1>3. /\ tail \in Seq(Chars) /\ Len(tail) = 3 + Len(w) /\ UpTo(tail, 3) = sep /\ Len(w) \in Nat
  <2> HIDE DEF sep
  <2>1. Len(w) \in Nat
    OBVIOUS
  <2>2. /\ tail \in Seq(Chars) /\ Len(tail) = Len(sep) + Len(w) /\ UpTo(tail, Len(sep)) = sep
    BY <1>2, Glued
  <2> QED BY <1>2, <2>1, <2>2
<1> HIDE DEF tail
<1>4. /\ url \in Seq(Chars) /\ Len(url) = n + Len(tail)
      /\ UpTo(url, n) = name /\ From(url, n) = tail
      /\ \A i \in 1 .. n : url[i] = name[i]
  BY <1>1, <1>3, Glued
<1>5. From(url, n + 3) = w
  <2> DEFINE p == name \o sep
  <2> HIDE DEF sep
  <2>1. url = p \o w
    BY SMTT(60), <1>1, <1>2, Together DEF tail
  <2>2. p \in Seq(Chars) /\ Len(p) = n + 3
    <3>1. p \in Seq(Chars) /\ Len(p) = Len(name) + Len(sep)
      BY <1>1, <1>2, Glued
    <3> HIDE DEF p
    <3> QED BY <1>2, <3>1
  <2> HIDE DEF p, url
  <2> QED BY <2>1, <2>2, Glued
<1> HIDE DEF url
<1>6. n \in full
  <2>1. n \in 0 .. Len(url) - Len(sep)
    <3> HIDE DEF sep
    <3> QED BY <1>1, <1>2, <1>3, <1>4
  <2>2. IsPrefix(sep, From(url, n))
    <3> HIDE DEF sep
    <3>1. SubSeq(sep, 1, 3) = sep
      BY <1>2
    <3>2. SubSeq(tail, 1, 3) = sep
      BY <1>3 DEF UpTo
    <3> QED BY <1>2, <1>3, <1>4, <3>1, <3>2 DEF IsPrefix
  <2> HIDE DEF sep
  <2> QED BY <2>1, <2>2 DEF Occurrences
<1>7. ASSUME NEW i \in full, i < n PROVE FALSE
  <2>1. i \in 0 .. Len(url) - 3 /\ IsPrefix(sep, From(url, i))
    BY <1>2 DEF Occurrences
  <2> HIDE DEF sep
  <2>2. /\ From(url, i) \in Seq(Chars) /\ Len(From(url, i)) = Len(url) - i
        /\ \A j \in 1 .. Len(url) - i : From(url, i)[j] = url[i + j]
    <3>1. i \in 0 .. Len(url)
      BY <1>4, <2>1
    <3> QED BY <1>4, <3>1, PartsAre
  <2> DEFINE f == From(url, i)
  <2>3. SubSeq(sep, 1, 3) = SubSeq(f, 1, 3) /\ 3 <= Len(f)
    BY <1>2, <2>1 DEF IsPrefix
  <2> HIDE DEF f
  <2>4. SubSeq(f, 1, 3)[1] = f[1] /\ SubSeq(sep, 1, 3)[1] = sep[1]
    BY <1>2, <2>2, <2>3 DEF f
  <2>5. f[1] = url[i + 1]
    BY <2>2, <2>3 DEF f
  <2>6. i + 1 \in 1 .. n
    BY <1>1, <1>7, <2>1
  <2>7. url[i + 1] # ":"
    BY <1>1, <1>4, <2>6
  <2> QED BY <1>2, <2>3, <2>4, <2>5, <2>7
<1>8. full \in SUBSET Nat
  BY DEF Occurrences
<1>9. Min(full) = n
  <2> HIDE DEF full
  <2>1. Min(full) \in full /\ \A i \in full : Min(full) <= i
    BY <1>6, <1>8, MinIs
  <2>2. Min(full) \in Nat /\ Min(full) <= n /\ ~ (Min(full) < n)
    BY <1>6, <1>7, <1>8, <2>1
  <2> QED BY <1>1, <2>2
<1>10. SchemePart(url).name = UpTo(url, n) /\ SchemePart(url).after = n + 3
  <2> HIDE DEF n
  <2> QED BY <1>6, <1>9 DEF SchemePart
<1> QED BY <1>4, <1>5, <1>10 DEF url, tail

\* A host, a port in digits and a path that starts with a slash are found.
LEMMA HostFound ==
  ASSUME NEW host \in Seq(Chars \ {":", "/"}), Len(host) < MaxHost,
         NEW d \in Seq(DOMAIN Value), Len(d) <= MaxPortSpec,
         NEW path \in Seq(Chars), Len(path) > 0, path[1] = "/", NEW default
  PROVE  LET h == HostPart(host \o (<<":">> \o (d \o path)), default) IN
           h.ok /\ h.host = host /\ h.rest = path /\ h.port = Number(d) % PortLimit
<1> DEFINE spec == d \o path
           tail == <<":">> \o spec
           w    == host \o tail
           n    == Len(host)
           h    == HostPart(w, default)
<1>1. host \in Seq(Chars) /\ n \in Nat /\ \A i \in 1 .. n : host[i] \notin {":", "/"}
  <2>1. n \in Nat /\ \A i \in 1 .. n : host[i] \in Chars \ {":", "/"}
    OBVIOUS
  <2> QED BY <2>1
<1>2. d \in Seq(Chars) /\ Len(d) \in Nat
  <2>1. Len(d) \in Nat /\ \A i \in 1 .. Len(d) : d[i] \in DOMAIN Value
    OBVIOUS
  <2>2. \A c \in DOMAIN Value : c \in Chars
    BY UrlAssumption
  <2> QED BY <2>1, <2>2
<1>3. spec \in Seq(Chars) /\ From(spec, Len(d)) = path
  BY <1>2, Glued
<1>4. Digits(spec) = Len(d) /\ Number(spec) = Number(d)
  BY DigitsEnd
<1> HIDE DEF spec
<1>5. /\ <<":">> \in Seq(Chars) /\ Len(<<":">>) = 1 /\ tail \in Seq(Chars)
      /\ Len(tail) = 1 + Len(spec) /\ tail[1] = ":"
  <2>1. ":" \in Chars
    BY UrlAssumption
  <2> QED BY <1>3, <2>1, InFront
<1>6. Len(tail) > 0
  <2>1. Len(spec) \in Nat
    BY <1>3
  <2> QED BY <1>5, <2>1
<1> HIDE DEF tail
<1>7. HostLength(w) = n
  <2>1. Span(host \o tail, {":", "/"}) = n
    BY <1>1, <1>5, <1>6, SpanEnds
  <2> QED BY <2>1 DEF HostLength
<1>8. Char(w, n) = ":"
  <2>1. w \in Seq(Chars) /\ Len(w) = n + Len(tail) /\ \A i \in 1 .. Len(tail) : w[n + i] = tail[i]
    BY <1>1, <1>5, Glued
  <2> HIDE DEF w
  <2>2. 1 \in 1 .. Len(tail) /\ n < Len(w)
    BY <1>1, <1>5, <1>6, <2>1
  <2>3. w[n + 1] = ":"
    BY <1>5, <2>1, <2>2
  <2> QED BY <2>2, <2>3 DEF Char
<1>9. From(w, n + 1) = spec
  <2> DEFINE p == host \o <<":">>
  <2>1. w = p \o spec
    BY SMTT(60), <1>1, <1>3, <1>5, Together DEF tail
  <2>2. p \in Seq(Chars) /\ Len(p) = Len(host) + Len(<<":">>)
    BY <1>1, <1>5, Glued
  <2> HIDE DEF p, w
  <2>3. Len(p) = n + 1
    BY <1>5, <2>2
  <2> QED BY <1>3, <2>1, <2>2, <2>3, Glued
<1>10. UpTo(w, n) = host
  BY <1>1, <1>5, Glued
<1>11. Char(path, 0) = "/"
  BY DEF Char
<1> HIDE DEF w, n
<1>12. h = [ok |-> TRUE, host |-> host, rest |-> path, port |-> Number(d) % PortLimit]
  <2>1. ~ (n >= MaxHost) /\ ~ (Len(d) > MaxPortSpec)
    BY <1>1, <1>2, UrlAssumption DEF n
  <2>2. h = IF \/ n >= MaxHost
               \/ Char(w, n) = ":" /\ Digits(spec) > MaxPortSpec
               \/ Char(path, 0) \notin {"/", Nul}
            THEN Failed
            ELSE [ok |-> TRUE, host |-> UpTo(w, n), rest |-> path,
                  port |-> IF Char(w, n) = ":" THEN Number(spec) % PortLimit ELSE default]
    BY <1>3, <1>4, <1>7, <1>8, <1>9 DEF HostPart
  <2> HIDE DEF h
  <2> QED BY <1>4, <1>8, <1>10, <1>11, <2>1, <2>2
<1> HIDE DEF h
<1>13. h.ok /\ h.host = host /\ h.rest = path /\ h.port = Number(d) % PortLimit
  BY <1>12
<1> QED BY <1>13 DEF h, w, tail, spec

\* The table of user schemes: names that fit, without colons.
Table ==
  /\ user \in Seq(Seq(Chars \ {":"}))
  /\ \A k \in DOMAIN user : Len(user[k]) < MaxScheme

\* The scheme that is pasted is found by its name.
LEMMA SchemeIs ==
  ASSUME Table, NEW p \in Parts, p.scheme[1] = "user" => p.scheme[2] \in DOMAIN user,
         Unshadowed(p.scheme)
  PROVE  /\ SchemeName(p.scheme) \in Seq(Chars \ {":"}) /\ Len(SchemeName(p.scheme)) < MaxScheme
         /\ SchemeFromName(SchemeName(p.scheme)) = {p.scheme}
         /\ p.scheme # <<"builtin", "file">>
<1> DEFINE s == p.scheme
           name == SchemeName(s)
<1>1. s \in ({"builtin"} \X (Printed \cup Known)) \cup ({"user"} \X Nat)
  BY PartsAssumption
<1> HIDE DEF s
<1>2. CASE s \in {"builtin"} \X (Printed \cup Known)
  <2>1. PICK x \in Printed \cup Known : s = <<"builtin", x>>
    BY <1>2
  <2>2. s[1] = "builtin" /\ s[2] = x /\ s[1] # "user"
    BY <2>1
  <2>3. x \in Printed /\ x \in Known /\ x # "file"
    BY <2>2 DEF Unshadowed, Builtins, s
  <2>4. name = <<x>>
    BY <2>2, <2>3 DEF SchemeName
  <2> HIDE DEF name
  <2>5. x \in Chars \ {":"}
    BY <2>3, UrlAssumption
  <2>6. name \in Seq(Chars \ {":"}) /\ Len(name) = 1 /\ name[1] = x
    BY <2>4, <2>5
  <2>7. BuiltIn(name) = {x}
    BY <2>3, <2>6 DEF BuiltIn
  <2>8. SchemeFromName(name) = {<<"builtin", x>>}
    BY <2>6, <2>7 DEF SchemeFromName
  <2>9. Len(name) < MaxScheme
    BY <2>6, UrlAssumption
  <2>10. s # <<"builtin", "file">>
    BY <2>2, <2>3
  <2> QED BY <2>1, <2>6, <2>8, <2>9, <2>10 DEF s, name
<1>3. CASE s \in {"user"} \X Nat
  <2>1. PICK k \in Nat : s = <<"user", k>>
    BY <1>3
  <2>2. s[1] = "user" /\ s[2] = k /\ s[1] # "builtin"
    BY <2>1
  <2>3. k \in DOMAIN user
    BY <2>2 DEF s
  <2>4. name = user[k]
    BY <2>2, <2>3 DEF SchemeName
  <2>5. BuiltIn(user[k]) = {} /\ ~ \E j \in 1 .. k - 1 : IsPrefix(user[j], user[k])
    BY <2>2 DEF Unshadowed, s
  <2> HIDE DEF name
  <2>6. name \in Seq(Chars \ {":"}) /\ Len(name) < MaxScheme
    BY <2>3, <2>4 DEF Table
  <2> DEFINE R == Registered(name)
  <2>7. R = {j \in DOMAIN user : IsPrefix(user[j], name)}
    BY DEF Registered
  <2>8. DOMAIN user \subseteq Nat /\ \A j \in DOMAIN user : j >= 1
    BY DEF Table
  <2>9. k \in R
    <3>1. IsPrefix(name, name)
      BY DEF IsPrefix
    <3> QED BY <2>3, <2>4, <2>7, <3>1
  <2> HIDE DEF R
  <2>10. \A j \in R : ~ (j < k)
    <3> SUFFICES ASSUME NEW j \in R, j < k PROVE FALSE
      OBVIOUS
    <3>1. j \in DOMAIN user /\ IsPrefix(user[j], name)
      BY <2>7
    <3>2. j \in 1 .. k - 1
      BY <2>8, <3>1
    <3> QED BY <2>4, <2>5, <3>1, <3>2
  <2>11. R \in SUBSET Nat /\ R # {}
    BY <2>7, <2>8, <2>9
  <2>12. Min(R) = k
    <3>1. Min(R) \in R /\ \A j \in R : Min(R) <= j
      BY <2>11, MinIs
    <3>2. Min(R) \in Nat /\ Min(R) <= k /\ ~ (Min(R) < k)
      BY <2>9, <2>10, <2>11, <3>1
    <3> QED BY <3>2
  <2>13. SchemeFromName(name) = {<<"user", k>>}
    BY <2>4, <2>5, <2>11, <2>12 DEF SchemeFromName, R
  <2>14. s # <<"builtin", "file">>
    BY <2>2
  <2> QED BY <2>1, <2>6, <2>13, <2>14 DEF s, name
<1> QED BY <1>1, <1>2, <1>3

\* What is pasted is taken apart again.
LEMMA ParsePasted ==
  ASSUME Table, NEW p \in Parts, p.scheme[1] = "user" => p.scheme[2] \in DOMAIN user,
         Unshadowed(p.scheme), p.port # 0
  PROVE  LET r == Parse(Paste(p)) IN
           /\ r.ok /\ r.scheme = p.scheme /\ r.host = p.host /\ r.port = p.port
           /\ r.path = (IF Char(p.path, 0) = "/" THEN p.path ELSE <<"/">> \o p.path)
<1> DEFINE name == SchemeName(p.scheme)
           d    == Printing(p.port)
           rel  == Relative(p.path)
           path == <<"/">> \o rel
           w    == p.host \o (<<":">> \o (d \o path))
           url  == Paste(p)
           r    == Parse(url)
<1>1. /\ name \in Seq(Chars \ {":"}) /\ Len(name) < MaxScheme
      /\ SchemeFromName(name) = {p.scheme} /\ p.scheme # <<"builtin", "file">>
  BY SchemeIs
<1> HIDE DEF name
<1>2. /\ p.host \in Seq(Chars \ {":", "/"}) /\ Len(p.host) < MaxHost
      /\ p.path \in Seq(Chars) /\ Len(p.path) + 1 < MaxPath
      /\ p.port \in 0 .. PortLimit - 1 /\ Printings(p.port) # {}
  BY PartsAssumption
<1>3. d \in Seq(DOMAIN Value) /\ Len(d) <= MaxPortSpec /\ Number(d) = p.port
  <2>1. d \in Printings(p.port)
    BY <1>2 DEF Printing
  <2> HIDE DEF d
  <2>2. d \in SeqOf(DOMAIN Value, MaxPortSpec) /\ Number(d) = p.port
    BY <2>1 DEF Printings
  <2>3. PICK m \in 0 .. MaxPortSpec : d \in [1 .. m -> DOMAIN Value]
    BY <2>2 DEF SeqOf
  <2>4. m \in Nat /\ m <= MaxPortSpec
    BY <2>3, UrlAssumption
  <2>5. d \in Seq(DOMAIN Value) /\ Len(d) = m
    BY <2>3, <2>4
  <2> QED BY <2>2, <2>4, <2>5
<1>4. /\ rel \in Seq(Chars) /\ Len(rel) <= Len(p.path)
      /\ path = (IF Char(p.path, 0) = "/" THEN p.path ELSE <<"/">> \o p.path)
  <2>1. CASE Char(p.path, 0) # "/"
    <3>1. rel = p.path
      BY <2>1 DEF Relative
    <3> QED BY <1>2, <2>1, <3>1
  <2>2. CASE Char(p.path, 0) = "/"
    <3>1. rel = From(p.path, 1)
      BY <2>2 DEF Relative
    <3>2. Len(p.path) \in Nat /\ 0 < Len(p.path) /\ p.path[1] = "/"
      BY <1>2, <2>2 DEF Char, Nul
    <3>3. /\ rel \in Seq(Chars) /\ Len(rel) = Len(p.path) - 1
          /\ \A j \in 1 .. Len(p.path) - 1 : rel[j] = p.path[1 + j]
      <4> DEFINE one == 1
                 q   == p.path
      <4>1. one \in 0 .. Len(q) /\ q \in Seq(Chars)
        BY <1>2, <3>2
      <4> HIDE DEF one, q
      <4>2. /\ From(q, one) \in Seq(Chars) /\ Len(From(q, one)) = Len(q) - one
            /\ \A j \in 1 .. Len(q) - one : From(q, one)[j] = q[one + j]
        BY <4>1, PartsAre
      <4>3. rel = From(q, one)
        BY <3>1 DEF one, q
      <4> HIDE DEF rel
      <4> QED BY <4>2, <4>3 DEF one, q
    <3> HIDE DEF rel
    <3>4. path = p.path
      <4> DEFINE q == p.path
      <4> HIDE DEF q
      <4>1. <<"/">> \in Seq(Chars) /\ Len(<<"/">>) = 1 /\ <<"/">>[1] = "/"
        BY UrlAssumption
      <4> DEFINE one == <<"/">>
      <4> HIDE DEF one
      <4>2. /\ path \in Seq(Chars) /\ Len(path) = Len(one) + Len(rel)
            /\ \A i \in 1 .. Len(one) : path[i] = one[i]
            /\ \A i \in 1 .. Len(rel) : path[Len(one) + i] = rel[i]
        BY <3>3, <4>1, Glued DEF one
      <4>3. one[1] = "/" /\ Len(one) = 1
        BY DEF one
      <4> HIDE DEF path
      <4>4. q \in Seq(Chars) /\ Len(path) = Len(q) /\ Len(q) \in Nat
        BY <1>2, <3>2, <3>3, <4>2, <4>3 DEF q
      <4>5. path[1] = q[1]
        <5>1. 1 \in 1 .. Len(one)
          BY <4>3
        <5> QED BY <3>2, <4>2, <4>3, <5>1 DEF q
      <4>6. ASSUME NEW i \in 1 .. Len(path), i # 1 PROVE path[i] = q[i]
        <5>1. i - 1 \in 1 .. Len(rel) /\ i - 1 \in 1 .. Len(p.path) - 1 /\ i = 1 + (i - 1)
          BY <3>2, <3>3, <4>4, <4>6 DEF q
        <5>2. path[Len(one) + (i - 1)] = rel[i - 1]
          BY <4>2, <5>1
        <5>3. rel[i - 1] = q[1 + (i - 1)]
          BY <3>3, <5>1 DEF q
        <5> QED BY <4>3, <5>1, <5>2, <5>3
      <4>7. path = q
        BY <4>2, <4>4, <4>5, <4>6, SameMembers
      <4> QED BY <4>7 DEF q
    <3>5. Len(rel) <= Len(p.path)
      BY <3>2, <3>3
    <3> QED BY <2>2, <3>3, <3>4, <3>5
  <2> QED BY <2>1, <2>2
<1> HIDE DEF rel, d
<1>5. /\ path \in Seq(Chars) /\ Len(path) = 1 + Len(rel) /\ path[1] = "/" /\ <<"/">> \in Seq(Chars)
      /\ <<":">> \in Seq(Chars) /\ <<":", "/", "/">> \in Seq(Chars)
  <2>1. "/" \in Chars /\ ":" \in Chars
    BY UrlAssumption
  <2>2. <<"/">> \in Seq(Chars) /\ Len(<<"/">> \o rel) = 1 + Len(rel)
        /\ (<<"/">> \o rel)[1] = "/" /\ <<"/">> \o rel \in Seq(Chars) /\ <<":">> \in Seq(Chars)
    BY <1>4, <2>1, InFront
  <2> QED BY <2>1, <2>2
<1>6. Len(path) > 0 /\ Len(path) < MaxPath /\ Len(path) \in Nat
  <2>1. Len(rel) \in Nat /\ Len(p.path) \in Nat
    BY <1>2, <1>4
  <2> HIDE DEF path
  <2> QED BY <1>2, <1>4, <1>5, <2>1, UrlAssumption
<1>7. name \in Seq(Chars) /\ p.host \in Seq(Chars) /\ d \in Seq(Chars)
  <2>1. \A S \in SUBSET Chars : \A x \in Seq(S) : x \in Seq(Chars)
    OBVIOUS
  <2>2. DOMAIN Value \subseteq Chars
    BY UrlAssumption
  <2> QED BY <1>1, <1>2, <1>3, <2>1, <2>2
<1>8. url = name \o (<<":", "/", "/">> \o w)
  <2>1. url = name \o <<":", "/", "/">> \o p.host \o <<":">> \o d \o <<"/">> \o rel
    BY DEF Paste, name, d, rel
  <2> DEFINE sep   == <<":", "/", "/">>
             colon == <<":">>
             slash == <<"/">>
             host  == p.host
  <2>2. /\ sep \in Seq(Chars) /\ colon \in Seq(Chars) /\ slash \in Seq(Chars) /\ host \in Seq(Chars)
        /\ rel \in Seq(Chars) /\ name \in Seq(Chars) /\ d \in Seq(Chars)
    BY <1>4, <1>5, <1>7
  <2> HIDE DEF sep, colon, slash, host, url
  <2> DEFINE S       == Seq(Chars)
             J(u, v) == u \o v
  <2>3. \A u, v \in S : J(u, v) \in S
    BY Glued
  <2>4. \A u, v, w1 \in S : J(u, J(v, w1)) = J(J(u, v), w1)
    BY Together
  <2>5. /\ name \in S /\ sep \in S /\ host \in S /\ colon \in S /\ d \in S /\ slash \in S /\ rel \in S
    BY <2>2
  <2> HIDE DEF S, J
  <2>6. /\ J(slash, rel) \in S
        /\ J(d, J(slash, rel)) \in S
        /\ J(colon, J(d, J(slash, rel))) \in S
        /\ J(host, J(colon, J(d, J(slash, rel)))) \in S
    BY <2>3, <2>5
  <2>7. /\ J(name, sep) \in S
        /\ J(J(name, sep), host) \in S
        /\ J(J(J(name, sep), host), colon) \in S
        /\ J(J(J(J(name, sep), host), colon), d) \in S
    BY <2>3, <2>5
  <2>8. J(name, J(sep, J(host, J(colon, J(d, J(slash, rel))))))
          = J(J(name, sep), J(host, J(colon, J(d, J(slash, rel)))))
    BY <2>4, <2>5, <2>6, <2>7
  <2>9. J(J(name, sep), J(host, J(colon, J(d, J(slash, rel)))))
          = J(J(J(name, sep), host), J(colon, J(d, J(slash, rel))))
    BY <2>4, <2>5, <2>6, <2>7
  <2>10. J(J(J(name, sep), host), J(colon, J(d, J(slash, rel))))
          = J(J(J(J(name, sep), host), colon), J(d, J(slash, rel)))
    BY <2>4, <2>5, <2>6, <2>7
  <2>11. J(J(J(J(name, sep), host), colon), J(d, J(slash, rel)))
          = J(J(J(J(J(name, sep), host), colon), d), J(slash, rel))
    BY <2>4, <2>5, <2>6, <2>7
  <2>12. J(J(J(J(J(name, sep), host), colon), d), J(slash, rel))
          = J(J(J(J(J(J(name, sep), host), colon), d), slash), rel)
    BY <2>4, <2>5, <2>6, <2>7
  <2>13. J(name, J(sep, J(host, J(colon, J(d, J(slash, rel))))))
          = J(J(J(J(J(J(name, sep), host), colon), d), slash), rel)
    BY <2>8, <2>9, <2>10, <2>11, <2>12
  <2> QED BY <2>1, <2>13 DEF J, sep, colon, slash, host
<1>9. w \in Seq(Chars)
  <2>1. d \o path \in Seq(Chars)
    BY <1>5, <1>7, Glued
  <2>2. <<":">> \o (d \o path) \in Seq(Chars)
    BY <1>5, <2>1, Glued
  <2> QED BY <1>7, <2>2, Glued
<1>10. SchemePart(url).name = name /\ From(url, SchemePart(url).after) = w
  <2> HIDE DEF w, url
  <2> QED BY <1>1, <1>8, <1>9, SchemeFound
<1> DEFINE h == HostPart(w, PortOf(p.scheme))
<1>11. h.ok /\ h.host = p.host /\ h.rest = path /\ h.port = Number(d) % PortLimit
  <2> DEFINE host    == p.host
             default == PortOf(p.scheme)
  <2>1. /\ host \in Seq(Chars \ {":", "/"}) /\ Len(host) < MaxHost
        /\ path \in Seq(Chars) /\ Len(path) > 0 /\ path[1] = "/"
    BY <1>2, <1>5, <1>6
  <2> HIDE DEF path, host, default
  <2>2. LET g == HostPart(host \o (<<":">> \o (d \o path)), default) IN
          g.ok /\ g.host = host /\ g.rest = path /\ g.port = Number(d) % PortLimit
    BY SMTT(60), <1>3, <2>1, HostFound
  <2> QED BY <2>2 DEF host, default
<1>12. h.port = p.port
  <2> HIDE DEF h
  <2>1. \A x, y \in Nat : x < y => x % y = x
    OBVIOUS
  <2>2. p.port \in Nat /\ PortLimit \in Nat /\ p.port < PortLimit
    BY <1>2, UrlAssumption
  <2> QED BY <1>3, <1>11, <2>1, <2>2
<1>13. Path(h.rest) = path
  <2> HIDE DEF h, path
  <2>1. path # <<>>
    BY <1>6
  <2> QED BY <1>11, <2>1 DEF Path
<1> HIDE DEF h, w, url, path
<1>14. ~ (Len(name) >= MaxScheme) /\ ~ (Len(path) >= MaxPath) /\ SchemeFromName(name) # {}
  <2>1. Len(name) \in Nat
    BY <1>7
  <2> QED BY <1>1, <1>6, <2>1, UrlAssumption
<1>15. (CHOOSE x \in SchemeFromName(name) : TRUE) = p.scheme
  BY <1>1
<1>16. r = [ok |-> TRUE, scheme |-> p.scheme, host |-> h.host, port |-> h.port, path |-> Path(h.rest)]
  <2>1. HostPart(w, PortOf(p.scheme)) = h
    BY DEF h
  <2> QED BY <1>1, <1>10, <1>11, <1>14, <1>15, <2>1 DEF Parse
<1> HIDE DEF r
<1>17. r.ok /\ r.scheme = p.scheme /\ r.host = h.host /\ r.port = h.port /\ r.path = Path(h.rest)
  BY <1>16
<1> QED BY <1>4, <1>11, <1>12, <1>13, <1>17 DEF r, url

\* A name that is registered fits into its slot.
LEMMA RegisterFits ==
  ASSUME Table, NEW name \in Names, Register(name)
  PROVE  Table'
<1> DEFINE n   == Min({Len(name), MaxScheme - 1})
           cut == UpTo(name, n)
<1>1. name \in Seq(Chars \ {":"}) /\ Len(name) \in Nat
  BY UrlAssumption
<1>2. n \in Nat /\ n <= Len(name) /\ n < MaxScheme
  <2> DEFINE T == {Len(name), MaxScheme - 1}
  <2>1. T \in SUBSET Nat /\ T # {} /\ MaxScheme \in Nat
    BY <1>1, UrlAssumption
  <2>2. Len(name) \in T /\ MaxScheme - 1 \in T
    OBVIOUS
  <2> HIDE DEF T
  <2>3. Min(T) \in T /\ \A i \in T : Min(T) <= i
    BY <2>1, MinIs
  <2>4. Min(T) \in Nat /\ Min(T) <= Len(name) /\ Min(T) <= MaxScheme - 1
    BY <2>1, <2>2, <2>3
  <2> QED BY <2>1, <2>4 DEF T
<1> HIDE DEF n
<1>3. cut \in Seq(Chars \ {":"}) /\ Len(cut) < MaxScheme
  <2>1. \A i \in 1 .. Len(name) : name[i] \in Chars \ {":"}
    BY <1>1
  <2>2. cut \in Seq(Chars \ {":"}) /\ Len(cut) = n
    BY <1>1, <1>2, <2>1 DEF UpTo
  <2> QED BY <1>2, <2>2
<1>4. user' = user \/ user' = Append(user, cut)
  BY DEF Register, cut, n
<1> HIDE DEF cut
<1>5. CASE user' = user
  BY <1>5 DEF Table
<1>6. CASE user' = Append(user, cut)
  <2> DEFINE S == Seq(Chars \ {":"})
  <2>1. user \in Seq(S) /\ cut \in S /\ \A k \in DOMAIN user : Len(user[k]) < MaxScheme
    BY <1>3 DEF Table
  <2> HIDE DEF S
  <2>2. user' \in Seq(S) /\ DOMAIN user' = 1 .. Len(user) + 1 /\ Len(user) \in Nat
        /\ \A k \in 1 .. Len(user) + 1 : user'[k] = IF k = Len(user) + 1 THEN cut ELSE user[k]
    BY <1>6, <2>1
  <2>3. ASSUME NEW k \in DOMAIN user' PROVE Len(user'[k]) < MaxScheme
    <3>1. CASE k = Len(user) + 1
      BY <1>3, <2>2, <3>1
    <3>2. CASE k # Len(user) + 1
      <4>1. k \in DOMAIN user /\ user'[k] = user[k]
        BY <2>1, <2>2, <3>2
      <4> QED BY <2>1, <4>1
    <3> QED BY <3>1, <3>2
  <2> QED BY <2>2, <2>3 DEF Table, S
<1> QED BY <1>4, <1>5, <1>6

-----------------------------------------------------------------------------
(* Ports in digits *)

\* The last of a set of indices.
LEMMA MaxIs ==
  ASSUME NEW n \in Nat, NEW T \in SUBSET (1 .. n), T # {}
  PROVE  Max(T) \in T /\ \A i \in T : i <= Max(T)
<1> DEFINE U == {m \in Nat : n - m \in T}
<1>1. U \in SUBSET Nat
  OBVIOUS
<1>2. U # {}
  <2>1. PICK i \in T : TRUE
    OBVIOUS
  <2>2. n - i \in Nat /\ n - (n - i) = i
    OBVIOUS
  <2>3. n - i \in U
    BY <2>2
  <2> HIDE DEF U
  <2> QED BY <2>3
<1>3. PICK m \in U : \A j \in U : m <= j
  <2> HIDE DEF U
  <2> QED BY <1>1, <1>2, LeastNat
<1> DEFINE t == n - m
<1>4. m \in Nat /\ t \in T
  OBVIOUS
<1>5. ASSUME NEW i \in T PROVE t >= i
  <2>1. n - i \in Nat /\ n - (n - i) = i /\ i \in Int
    OBVIOUS
  <2>2. n - i \in U
    BY <2>1
  <2> HIDE DEF U
  <2>3. m <= n - i
    BY <1>3, <2>2
  <2> QED BY <1>4, <2>1, <2>3
<1> HIDE DEF U, t
<1>6. Max(T) \in T /\ \A i \in T : Max(T) >= i
  BY <1>4, <1>5 DEF Max
<1>7. \A i \in T : i \in Int
  OBVIOUS
<1>8. \A i, j \in Int : i >= j => j <= i
  OBVIOUS
<1> QED BY <1>6, <1>7, <1>8

\* The fold over the first n characters of w, as the function of the sets of
\* indices by which FoldLeft defines it.
IsFold(w, n, h) ==
  h = [s \in SUBSET (1 .. n) |->
         IF s = {} THEN 0 ELSE 10 * h[s \ {Max(s)}] + Value[w[Max(s)]]]

\* A number is such a fold over its digits.
LEMMA NumberIs ==
  ASSUME NEW w \in Seq(DOMAIN Value)
  PROVE  Number(w) = (CHOOSE h : IsFold(w, Len(w), h))[1 .. Len(w)]
<1>1. w \in Seq(Chars) /\ \A i \in 1 .. Len(w) : w[i] \in DOMAIN Value
  BY UrlAssumption
<1>2. Digits(w) = Len(w)
  BY <1>1, AllDigits
<1>3. UpTo(w, Len(w)) = w
  BY DEF UpTo
<1>4. DOMAIN w = 1 .. Len(w)
  OBVIOUS
<1> QED BY <1>2, <1>3, <1>4 DEF Number, FoldLeft, MapThenFoldSet, IsFold

\* There is one.
LEMMA FoldExists ==
  ASSUME NEW w, NEW n \in Nat
  PROVE  \E h : IsFold(w, n, h)
<1> DEFINE T == {k \in Nat : ~ \E h : IsFold(w, k, h)}
<1>1. SUFFICES ASSUME T # {} PROVE FALSE
  <2>1. n \notin T => \E h : IsFold(w, n, h)
    OBVIOUS
  <2> HIDE DEF T
  <2> QED BY <2>1
<1>2. T \in SUBSET Nat
  OBVIOUS
<1>3. PICK k \in T : \A j \in T : k <= j
  <2> HIDE DEF T
  <2> QED BY <1>1, <1>2, LeastNat
<1>4. k \in Nat /\ ~ \E h : IsFold(w, k, h)
  OBVIOUS
<1>5. CASE k = 0
  <2> DEFINE h == [s \in SUBSET (1 .. k) |-> 0]
  <2>1. \A s \in SUBSET (1 .. k) : s = {}
    BY <1>5
  <2>2. IsFold(w, k, h)
    BY <2>1 DEF IsFold
  <2> HIDE DEF h
  <2> QED BY <1>4, <2>2
<1>6. CASE k # 0
  <2>1. k - 1 \in Nat /\ ~ (k <= k - 1)
    BY <1>4, <1>6
  <2>2. PICK g : IsFold(w, k - 1, g)
    BY <1>3, <2>1
  <2> DEFINE h == [s \in SUBSET (1 .. k) |->
                     IF k \in s THEN 10 * g[s \ {k}] + Value[w[k]] ELSE g[s]]
  <2>3. \A s \in SUBSET (1 .. k) : k \notin s => s \in SUBSET (1 .. k - 1)
    BY <1>4
  <2>4. \A s \in SUBSET (1 .. k - 1) :
          g[s] = IF s = {} THEN 0 ELSE 10 * g[s \ {Max(s)}] + Value[w[Max(s)]]
    BY <2>2 DEF IsFold
  <2>5. ASSUME NEW s \in SUBSET (1 .. k)
        PROVE  h[s] = IF s = {} THEN 0 ELSE 10 * h[s \ {Max(s)}] + Value[w[Max(s)]]
    <3>1. CASE s = {}
      <4>1. h[s] = g[s]
        BY <3>1
      <4> HIDE DEF h
      <4> QED BY <2>3, <2>4, <3>1, <4>1
    <3>2. CASE s # {} /\ k \notin s
      <4>1. Max(s) \in s
        BY <1>4, <3>2, MaxIs
      <4>2. h[s] = g[s] /\ h[s \ {Max(s)}] = g[s \ {Max(s)}]
        BY <3>2
      <4> HIDE DEF h
      <4> QED BY <2>3, <2>4, <3>2, <4>2
    <3>3. CASE k \in s
      <4>1. Max(s) \in s /\ k <= Max(s)
        BY <1>4, <3>3, MaxIs
      <4>2. Max(s) = k
        <5>1. Max(s) \in 1 .. k
          BY <4>1
        <5> QED BY <1>4, <4>1, <5>1
      <4>3. h[s] = 10 * g[s \ {k}] + Value[w[k]] /\ h[s \ {k}] = g[s \ {k}]
        BY <3>3
      <4> HIDE DEF h
      <4> QED BY <3>3, <4>2, <4>3
    <3> QED BY <3>1, <3>2, <3>3
  <2>6. h = [s \in SUBSET (1 .. k) |-> h[s]]
    OBVIOUS
  <2> HIDE DEF h
  <2>7. IsFold(w, k, h)
    BY <2>5, <2>6 DEF IsFold
  <2> QED BY <1>4, <2>7
<1> QED BY <1>5, <1>6

\* It takes the characters in their order.
LEMMA FoldPasses ==
  ASSUME NEW w, NEW n \in Nat, NEW h, IsFold(w, n, h)
  PROVE  /\ h[1 .. 0] = 0
         /\ \A k \in 1 .. n : h[1 .. k] = 10 * h[1 .. k - 1] + Value[w[k]]
<1>1. \A s \in SUBSET (1 .. n) :
        h[s] = IF s = {} THEN 0 ELSE 10 * h[s \ {Max(s)}] + Value[w[Max(s)]]
  BY DEF IsFold
<1>2. h[1 .. 0] = 0
  <2>1. 1 .. 0 = {}
    OBVIOUS
  <2> QED BY <1>1, <2>1
<1>3. ASSUME NEW k \in 1 .. n PROVE h[1 .. k] = 10 * h[1 .. k - 1] + Value[w[k]]
  <2> DEFINE s == 1 .. k
  <2>1. s \in SUBSET (1 .. n) /\ k \in s /\ s # {} /\ s \ {k} = 1 .. k - 1
    OBVIOUS
  <2>2. \A i \in s : i <= k /\ i \in Int
    OBVIOUS
  <2> HIDE DEF s
  <2>3. Max(s) \in s /\ k <= Max(s)
    BY <2>1, MaxIs
  <2>4. Max(s) = k
    BY <2>2, <2>3
  <2>5. h[s] = 10 * h[s \ {k}] + Value[w[k]]
    BY <1>1, <2>1, <2>4
  <2> QED BY <2>1, <2>5 DEF s
<1> QED BY <1>2, <1>3

\* strtoul over one more digit.
LEMMA OneMoreDigit ==
  ASSUME NEW d \in Seq(DOMAIN Value), NEW c \in DOMAIN Value
  PROVE  Number(Append(d, c)) = 10 * Number(d) + Value[c]
<1> DEFINE e == Append(d, c)
           n == Len(d)
           g == CHOOSE f : IsFold(d, Len(d), f)
           h == CHOOSE f : IsFold(e, Len(e), f)
<1>1. /\ n \in Nat /\ e \in Seq(DOMAIN Value) /\ Len(e) = n + 1 /\ e[n + 1] = c
      /\ \A i \in 1 .. n : e[i] = d[i]
  OBVIOUS
<1> HIDE DEF e
<1>2. IsFold(d, n, g)
  BY FoldExists DEF n
<1>3. IsFold(e, n + 1, h)
  <2>1. Len(e) \in Nat /\ Len(e) = n + 1
    BY <1>1
  <2>2. \E f : IsFold(e, Len(e), f)
    BY <2>1, FoldExists
  <2>3. IsFold(e, Len(e), CHOOSE f : IsFold(e, Len(e), f))
    BY <2>2
  <2> QED BY <2>1, <2>3
<1>4. Number(d) = g[1 .. n] /\ Number(e) = h[1 .. n + 1]
  BY <1>1, NumberIs
<1> HIDE DEF n, g, h
<1>5. /\ g[1 .. 0] = 0
      /\ \A k \in 1 .. n : g[1 .. k] = 10 * g[1 .. k - 1] + Value[d[k]]
  BY <1>1, <1>2, FoldPasses
<1>6. /\ h[1 .. 0] = 0
      /\ \A k \in 1 .. n + 1 : h[1 .. k] = 10 * h[1 .. k - 1] + Value[e[k]]
  <2>1. n + 1 \in Nat
    BY <1>1
  <2> QED BY <1>3, <2>1, FoldPasses
<1> DEFINE T == {k \in Nat : k <= n /\ g[1 .. k] # h[1 .. k]}
<1>7. T = {}
  <2>1. SUFFICES ASSUME T # {} PROVE FALSE
    OBVIOUS
  <2>2. T \in SUBSET Nat
    OBVIOUS
  <2>3. PICK k \in T : \A j \in T : k <= j
    <3> HIDE DEF T
    <3> QED BY <2>1, <2>2, LeastNat
  <2>4. k \in Nat /\ k <= n /\ g[1 .. k] # h[1 .. k]
    OBVIOUS
  <2>5. k # 0
    BY <1>5, <1>6, <2>4
  <2>6. k \in 1 .. n /\ k \in 1 .. n + 1 /\ k - 1 \in Nat /\ k - 1 <= n /\ ~ (k <= k - 1)
    BY <1>1, <2>4, <2>5
  <2>7. g[1 .. k - 1] = h[1 .. k - 1]
    BY <2>3, <2>6
  <2>8. e[k] = d[k]
    BY <1>1, <2>6
  <2> QED BY <1>5, <1>6, <2>4, <2>6, <2>7, <2>8
<1>8. g[1 .. n] = h[1 .. n]
  BY <1>1, <1>7
<1>9. h[1 .. n + 1] = 10 * h[1 .. n] + Value[c]
  <2>1. n + 1 \in 1 .. n + 1 /\ (n + 1) - 1 = n
    BY <1>1
  <2> HIDE DEF T
  <2> QED BY <1>1, <1>6, <2>1
<1> QED BY <1>4, <1>8, <1>9 DEF e

\* n has a decimal form of at most k digits, without a leading zero.
HasDigits(n, k) ==
  \E d \in Seq(DOMAIN Value) :
    /\ d # <<>> /\ Len(d) <= k /\ Number(d) = n
    /\ n # 0 => Value[d[1]] # 0
    /\ n = 0 => Len(d) = 1

\* "0" to "9" are characters.
AllTenDigits == \A v \in 0 .. 9 : \E c \in DOMAIN Value : Value[c] = v

\* The number of no digits is 0, and the number of a digit is its value.
LEMMA OneDigit ==
  ASSUME NEW n \in 0 .. 9, AllTenDigits
  PROVE  HasDigits(n, 1)
<1>1. PICK c \in DOMAIN Value : Value[c] = n
  BY DEF AllTenDigits
<1> DEFINE e == << >>
           d == Append(e, c)
<1>2. e \in Seq(DOMAIN Value) /\ Len(e) = 0
  OBVIOUS
<1>3. d \in Seq(DOMAIN Value) /\ Len(d) = 1 /\ d # <<>> /\ d[1] = c
  OBVIOUS
<1>4. Number(e) = 0
  <2>1. Number(e) = (CHOOSE h : IsFold(e, Len(e), h))[1 .. Len(e)]
    BY <1>2, NumberIs
  <2> HIDE DEF e
  <2>2. Number(e) = (CHOOSE h : IsFold(e, Len(e), h))[1 .. 0]
    BY <1>2, <2>1
  <2>3. \E h : IsFold(e, Len(e), h)
    BY <1>2, FoldExists
  <2> DEFINE g == CHOOSE h : IsFold(e, Len(e), h)
  <2>4. IsFold(e, Len(e), g)
    BY <2>3
  <2>5. Number(e) = g[1 .. 0]
    BY <2>2
  <2> HIDE DEF g
  <2>6. Len(e) \in Nat
    BY <1>2
  <2>7. g[1 .. 0] = 0
    BY <2>4, <2>6, FoldPasses
  <2> QED BY <2>5, <2>7
<1>5. Number(d) = 10 * Number(e) + Value[c]
  BY <1>2, OneMoreDigit
<1> HIDE DEF d, e
<1>6. Number(d) = n /\ (n # 0 => Value[d[1]] # 0)
  BY <1>1, <1>3, <1>4, <1>5
<1>7. Len(d) <= 1
  BY <1>3
<1> QED BY <1>3, <1>6, <1>7 DEF HasDigits

\* All numbers below a limit have one.
HaveDigits(limit, k) == \A n \in Nat : n < limit => HasDigits(n, k)

\* Ten times as many numbers have a form of one more digit.
LEMMA MoreDigits ==
  ASSUME NEW limit \in Nat, NEW k \in Nat \ {0}, NEW more \in Nat, NEW j \in Nat,
         AllTenDigits, HaveDigits(limit, k), more = 10 * limit, j = k + 1
  PROVE  HaveDigits(more, j)
<1> SUFFICES ASSUME NEW n \in Nat, n < 10 * limit
             PROVE  HasDigits(n, k + 1)
  BY DEF HaveDigits
<1>1. CASE n < 10
  <2>1. n \in 0 .. 9
    BY <1>1
  <2>2. HasDigits(n, 1)
    BY <2>1, OneDigit
  <2>3. \A d \in Seq(DOMAIN Value) : Len(d) <= 1 => Len(d) <= k + 1
    OBVIOUS
  <2> QED BY <2>2, <2>3 DEF HasDigits
<1>2. CASE ~ n < 10
  <2> DEFINE q == n \div 10
             r == n % 10
  <2>1. q \in Nat /\ q < limit /\ q # 0 /\ r \in 0 .. 9 /\ n = 10 * q + r
    BY <1>2
  <2> HIDE DEF q, r
  <2>2. PICK d \in Seq(DOMAIN Value) :
          d # <<>> /\ Len(d) <= k /\ Number(d) = q /\ Value[d[1]] # 0
    BY <2>1 DEF HasDigits, HaveDigits
  <2>3. PICK c \in DOMAIN Value : Value[c] = r
    BY <2>1 DEF AllTenDigits
  <2> DEFINE e == Append(d, c)
  <2>4. e \in Seq(DOMAIN Value) /\ e # <<>> /\ Len(e) <= k + 1 /\ e[1] = d[1]
    BY <2>2
  <2>5. Number(e) = n
    <3>1. Number(e) = 10 * Number(d) + Value[c]
      BY OneMoreDigit
    <3> HIDE DEF e
    <3> QED BY <2>1, <2>2, <2>3, <3>1
  <2> HIDE DEF e
  <2>6. n # 0
    BY <1>2
  <2> QED BY <2>2, <2>4, <2>5, <2>6 DEF HasDigits
<1> QED BY <1>1, <1>2

\* What has a decimal form short enough can be printed.
LEMMA IsPrinted ==
  ASSUME NEW port \in Nat, HasDigits(port, MaxPortSpec)
  PROVE  Printings(port) # {}
<1>1. PICK d \in Seq(DOMAIN Value) :
        /\ d # <<>> /\ Len(d) <= MaxPortSpec /\ Number(d) = port
        /\ port # 0 => Value[d[1]] # 0
        /\ port = 0 => Len(d) = 1
  BY DEF HasDigits
<1>2. Len(d) > 1 => Value[d[1]] # 0
  <2>1. SUFFICES ASSUME Len(d) > 1 PROVE Value[d[1]] # 0
    OBVIOUS
  <2>2. \A m \in Nat : m > 1 => m # 1
    OBVIOUS
  <2>3. Len(d) \in Nat
    BY <1>1
  <2>4. port # 0
    BY <1>1, <2>1, <2>2, <2>3
  <2> QED BY <1>1, <2>4
<1>3. Len(d) \in 0 .. MaxPortSpec /\ d \in [1 .. Len(d) -> DOMAIN Value]
  BY <1>1, UrlAssumption
<1>4. d \in SeqOf(DOMAIN Value, MaxPortSpec) \ {<<>>}
  BY <1>1, <1>3 DEF SeqOf
<1> QED BY <1>1, <1>2, <1>4 DEF Printings

\* The limits of the code: BUTIL_MAX_PORTSPEC, and the width of a port.
CodeLimits == AllTenDigits /\ MaxPortSpec = 5 /\ PortLimit = 65536

Thousand == 1000

\* 65536 is less than a hundred thousand.
LEMMA LimitsAre ==
  CodeLimits => AllTenDigits /\ MaxPortSpec = 5 /\ PortLimit <= 66 * Thousand
BY SMTT(60) DEF CodeLimits, Thousand

\* With ten digits and the limits of the code, "%u" of every port a 16-bit
\* field holds is a text of at most five digits, without a leading zero, that
\* strtoul reads as this port: what RoundTrip supposes of the ports of Parts.
THEOREM PortsArePrinted ==
  CodeLimits => \A port \in 0 .. PortLimit - 1 : Printings(port) # {}
<1> SUFFICES ASSUME CodeLimits, NEW port \in 0 .. PortLimit - 1
             PROVE  Printings(port) # {}
  OBVIOUS
<1>1. AllTenDigits /\ MaxPortSpec = 5
  BY LimitsAre
<1>2. HaveDigits(10, 1)
  <2>1. \A n \in Nat : n < 10 => n \in 0 .. 9
    OBVIOUS
  <2> QED BY <1>1, <2>1, OneDigit DEF HaveDigits
<1>3. HaveDigits(100, 2)
  BY <1>1, <1>2, MoreDigits
<1>4. HaveDigits(Thousand, 3)
  <2>1. Thousand \in Nat /\ Thousand = 10 * 100
    BY DEF Thousand
  <2> QED BY <1>1, <1>3, <2>1, MoreDigits
<1>5. HaveDigits(10 * Thousand, 4)
  <2>1. Thousand \in Nat
    BY DEF Thousand
  <2> QED BY <1>1, <1>4, <2>1, MoreDigits
<1>6. HaveDigits(100 * Thousand, MaxPortSpec)
  <2>1. Thousand \in Nat
    BY DEF Thousand
  <2>2. 100 * Thousand \in Nat /\ 10 * Thousand \in Nat /\ 100 * Thousand = 10 * (10 * Thousand)
    BY <2>1
  <2> QED BY <1>1, <1>5, <2>2, MoreDigits
<1>7. port \in Nat /\ port < 100 * Thousand
  <2>1. Thousand \in Nat /\ PortLimit \in Nat /\ PortLimit <= 66 * Thousand
    BY LimitsAre, UrlAssumption DEF Thousand
  <2> QED BY <2>1
<1>8. HasDigits(port, MaxPortSpec)
  BY <1>6, <1>7 DEF HaveDigits
<1> QED BY <1>7, <1>8, IsPrinted

-----------------------------------------------------------------------------
(* The calendar *)

\* The second of the day, and the clock it is read from.
SecondOf(h, m, s) == h * 3600 + m * 60 + s

\* Hours, minutes and seconds are read from the second of the day they make.
LEMMA Clock ==
  \A h, m, s \in Int :
    0 <= h /\ h <= 23 /\ 0 <= m /\ m <= 59 /\ 0 <= s /\ s <= 59 =>
      LET n == SecondOf(h, m, s) IN
        /\ n \in Int /\ 0 <= n /\ n < 86400
        /\ n \div 3600 = h /\ (n \div 60) % 60 = m /\ n % 60 = s
BY DEF SecondOf

\* Division by the seconds of a day rounds down, before 1970, too.
LEMMA Quotient ==
  \A n, q, r \in Int :
    0 <= r /\ r < 86400 /\ n = q * 86400 + r => n \div 86400 = q /\ n % 86400 = r
OBVIOUS

\* The length of a year, ...
LEMMA YearLength ==
  \A y \in Nat : ToYear(y + 1) = ToYear(y) + 365 + (IF Leap(y) THEN 1 ELSE 0) /\ ToYear(y) \in Int
BY DEF ToYear, Leap

\* ... so that years do not overlap, ...
LEMMA YearOrder ==
  \A y, z \in Nat : y < z => ToYear(y + 1) <= ToYear(z)
BY DEF ToYear

\* ... and none of its months starts before the year; months do not overlap, ...
LEMMA MonthInt == \A y \in Nat, m \in 1 .. 12 : ToMonth(y, m) \in Int /\ ToYear(y) <= ToMonth(y, m)
BY YearLength DEF ToMonth

\* ... as each ends before a later one starts, ...
LEMMA MonthOrder ==
  \A y \in Nat, m, k \in 1 .. 12 : m < k => ToMonth(y, m + 1) <= ToMonth(y, k)
BY YearLength DEF ToMonth

\* ... and each lies in its year.
LEMMA MonthEnds ==
  /\ \A y \in Nat, m \in 1 .. 11 : ToMonth(y, m + 1) <= ToYear(y + 1)
  /\ \A y \in Nat : ToMonth(y, 12) + 31 <= ToYear(y + 1)
BY YearLength DEF ToMonth

\* No two months have the same letters, ...
LEMMA MonthsApart ==
  \A m, k \in 1 .. 12 : Months[m] = Months[k] => m = k
BY DEF Months

\* ... and the switch over the letters finds the month they are of, with the
\* cases after a j.
LEMMA MonthIs ==
  \A m \in 1 .. 12 : MonthOf(Months[m]) = {m}
BY MonthsApart DEF Months, MonthOf

\* A time is a number.
LEMMA SecondsInt ==
  ASSUME NEW y \in Nat, NEW m \in 1 .. 12, NEW d \in Int,
         NEW hh \in Int, NEW mm \in Int, NEW ss \in Int
  PROVE  Seconds(y, m, d, hh, mm, ss) \in Int
<1> DEFINE month == ToMonth(y, m)
<1>1. month \in Int
  BY MonthInt
<1>2. Seconds(y, m, d, hh, mm, ss) = (month + d - 1) * 86400 + hh * 3600 + mm * 60 + ss
  BY DEF Seconds
<1> HIDE DEF month
<1> QED BY <1>1, <1>2

\* gmtime_r finds the date timegm has counted the seconds of.
LEMMA DateOfSeconds ==
  ASSUME Years \subseteq Nat, NEW y \in Years, NEW m \in 1 .. 12, NEW d \in Nat, d >= 1,
         IF m = 12 THEN d <= 31 ELSE d <= ToMonth(y, m + 1) - ToMonth(y, m),
         NEW hh \in 0 .. 23, NEW mm \in 0 .. 59, NEW ss \in 0 .. 59
  PROVE  DateAt(Seconds(y, m, d, hh, mm, ss)) =
           [day |-> d, month |-> Months[m], year |-> y, hh |-> hh, mm |-> mm, ss |-> ss]
<1> DEFINE t == Seconds(y, m, d, hh, mm, ss)
           days == ToMonth(y, m) + d - 1
           secs == SecondOf(hh, mm, ss)
<1>1. y \in Nat /\ ToMonth(y, m) \in Int /\ ToYear(y) \in Int /\ days \in Int
  BY MonthInt, YearLength
<1>2. /\ secs \in Int /\ 0 <= secs /\ secs < 86400 /\ secs \div 3600 = hh /\ (secs \div 60) % 60 = mm
      /\ secs % 60 = ss
  <2>1. /\ hh \in Int /\ 0 <= hh /\ hh <= 23 /\ mm \in Int /\ 0 <= mm /\ mm <= 59
        /\ ss \in Int /\ 0 <= ss /\ ss <= 59
    OBVIOUS
  <2> QED BY <2>1, Clock
<1>3. t = days * 86400 + secs
  BY <1>1 DEF Seconds, SecondOf
<1> HIDE DEF secs, t
<1>4. t \div 86400 = days /\ t % 86400 = secs
  <2> HIDE DEF days
  <2>1. t \in Int
    BY <1>1, <1>2, <1>3
  <2>2. secs \in Int /\ 0 <= secs /\ secs < 86400
    BY <1>2
  <2> QED BY <1>1, <1>3, <2>1, <2>2, Quotient
<1>5. ToMonth(y, m) <= days /\ (m = 12 \/ days < ToMonth(y, m + 1))
  <2>1. m # 12 => ToMonth(y, m + 1) \in Int
    BY <1>1, MonthInt
  <2> QED BY <1>1, <2>1
<1>6. ToYear(y) <= days /\ days < ToYear(y + 1)
  <2>1. ToYear(y + 1) \in Int /\ ToYear(y) <= ToMonth(y, m)
    BY <1>1, MonthInt, YearLength
  <2>2. CASE m = 12
    BY <1>1, <2>1, <2>2, MonthEnds
  <2>3. CASE m # 12
    <3>1. m \in 1 .. 11 /\ ToMonth(y, m + 1) \in Int /\ ToMonth(y, m + 1) <= ToYear(y + 1)
      BY <1>1, <2>3, MonthInt, MonthEnds
    <3> QED BY <1>1, <1>5, <2>1, <2>3, <3>1
  <2> QED BY <2>2, <2>3
<1> HIDE DEF days
<1>7. ASSUME NEW z \in Years, ToYear(z) <= days, days < ToYear(z + 1) PROVE z = y
  <2>1. z \in Nat /\ ToYear(z) \in Int /\ ToYear(z + 1) \in Int /\ ToYear(y + 1) \in Int
    BY <1>1, YearLength
  <2>2. ~ (y < z)
    <3>1. y < z => ToYear(y + 1) <= ToYear(z)
      BY <1>1, <2>1, YearOrder
    <3> QED BY <1>1, <1>6, <1>7, <2>1, <3>1
  <2>3. ~ (z < y)
    <3>1. z < y => ToYear(z + 1) <= ToYear(y)
      BY <1>1, <2>1, YearOrder
    <3> QED BY <1>1, <1>6, <1>7, <2>1, <3>1
  <2> QED BY <1>1, <2>1, <2>2, <2>3
<1>8. ASSUME NEW k \in 1 .. 12, ToMonth(y, k) <= days, k = 12 \/ days < ToMonth(y, k + 1)
      PROVE  k = m
  <2>1. /\ ToMonth(y, k) \in Int /\ (k # 12 => ToMonth(y, k + 1) \in Int)
        /\ (m # 12 => ToMonth(y, m + 1) \in Int)
    BY <1>1, MonthInt
  <2>2. ~ (m < k)
    <3>1. m < k => m # 12 /\ ToMonth(y, m + 1) <= ToMonth(y, k)
      BY <1>1, MonthOrder
    <3> QED BY <1>1, <1>5, <1>8, <2>1, <3>1
  <2>3. ~ (k < m)
    <3>1. k < m => k # 12 /\ ToMonth(y, k + 1) <= ToMonth(y, m)
      BY <1>1, MonthOrder
    <3> QED BY <1>1, <1>5, <1>8, <2>1, <3>1
  <2> QED BY <2>2, <2>3
<1> DEFINE D      == t \div 86400
           YearP(z) == ToYear(z) <= D /\ D < ToYear(z + 1)
           Y      == CHOOSE z \in Years : YearP(z)
           MonthP(k) == ToMonth(Y, k) <= D /\ (k = 12 \/ D < ToMonth(Y, k + 1))
           M      == CHOOSE k \in 1 .. 12 : MonthP(k)
<1>9. DateAt(t) =
        [day |-> D - ToMonth(Y, M) + 1, month |-> Months[M], year |-> Y,
         hh |-> (t % 86400) \div 3600, mm |-> ((t % 86400) \div 60) % 60,
         ss |-> (t % 86400) % 60]
  BY DEF DateAt
<1>10. Y = y
  <2>1. YearP(y) /\ \A z \in Years : YearP(z) => z = y
    BY <1>4, <1>6, <1>7
  <2> HIDE DEF YearP
  <2> QED BY <2>1
<1> HIDE DEF Y
<1>11. M = m
  <2>1. MonthP(m) /\ \A k \in 1 .. 12 : MonthP(k) => k = m
    BY <1>4, <1>5, <1>8, <1>10
  <2> HIDE DEF MonthP
  <2> QED BY <2>1
<1> HIDE DEF M
<1>12. D - ToMonth(Y, M) + 1 = d
  BY <1>1, <1>4, <1>10, <1>11 DEF days
<1> HIDE DEF D
<1> QED BY <1>2, <1>4, <1>9, <1>10, <1>11, <1>12 DEF t

\* What DatesInverse says of a date in a zone: of its time, and of the date that
\* is made of that again.
ReadBack(d, time, date) ==
  /\ InRange(d.date) /\ Real(d.date) =>
       /\ DateAt(time - (d.zone.early - d.zone.standard)) = d.date
       /\ d.zone.early = d.zone.standard /\ d.room => date = d.date
  /\ \/ ~ InRange(d.date)
     \/ d.date.month \notin {Months[m] : m \in 1 .. 12} /\ ~ ByItsEnds(d.date.month)
     => time = 0

\* What butil_rfc2616_date_to_time makes of a date, and what is made of that.
LEMMA DateAnswered ==
  ASSUME NEW d \in DateCalls, NEW t, t = DateToTime(d.date, d.zone)
  PROVE  ReadBack(d, t, TimeToDate(t, d.room))
<1> DEFINE a == d.date
           z == d.zone
<1>1. /\ a \in [day : Nat, month : Seq(STRING), year : Years, hh : Nat, mm : Nat, ss : Nat]
      /\ z.early \in Int /\ z.standard \in Int /\ Years \subseteq Nat
  BY LibraryAssumption
<1> HIDE DEF a, z
<1> DEFINE shift == z.early - z.standard
<1>2. ASSUME InRange(a), Real(a)
      PROVE  /\ DateAt(t - shift) = a
             /\ z.early = z.standard /\ d.room => TimeToDate(t, d.room) = a
  <2>1. PICK m \in 1 .. 12 :
          /\ a.month = Months[m]
          /\ a.day \in 1 .. (IF m = 12 THEN 31 ELSE ToMonth(a.year, m + 1) - ToMonth(a.year, m))
    BY <1>2 DEF Real
  <2>2. MonthOf(a.month) = {m}
    BY <2>1, MonthIs
  <2>3. (CHOOSE k \in MonthOf(a.month) : TRUE) = m
    BY <2>2
  <2> DEFINE s == Seconds(a.year, m, a.day, a.hh, a.mm, a.ss)
  <2>4. t = LocalTime(z, a.year, m, a.day, a.hh, a.mm, a.ss) - GmtOff(z)
    BY <1>2, <2>2, <2>3 DEF DateToTime, a, z
  <2>5. /\ a.hh \in 0 .. 23 /\ a.mm \in 0 .. 59 /\ a.ss \in 0 .. 59
        /\ a.day \in Nat /\ a.year \in Years /\ a.year \in Nat
    BY <1>1, <1>2 DEF InRange
  <2>6. s \in Int
    <3>1. a.hh \in Int /\ a.mm \in Int /\ a.ss \in Int /\ a.day \in Int /\ a.year \in Nat
      BY <2>5
    <3> QED BY <3>1, SecondsInt
  <2> HIDE DEF s
  <2>7. t - shift = s /\ (z.early = z.standard => t = s)
    <3>1. t = (s - z.standard) - (3 * 86400 - (3 * 86400 + z.early))
      BY <2>4 DEF LocalTime, GmtOff, s
    <3> DEFINE k == 3 * 86400
    <3>2. k \in Int /\ t = (s - z.standard) - (k - (k + z.early))
      BY <3>1
    <3> HIDE DEF k
    <3>3. t = s + (z.early - z.standard)
      BY <1>1, <2>6, <3>2
    <3> QED BY <1>1, <2>6, <3>3
  <2>8. a.day >= 1 /\ IF m = 12 THEN a.day <= 31
                      ELSE a.day <= ToMonth(a.year, m + 1) - ToMonth(a.year, m)
    <3>1. m # 12 => ToMonth(a.year, m + 1) - ToMonth(a.year, m) \in Int
      BY <2>5, MonthInt
    <3> QED BY <2>1, <2>5, <3>1
  <2>9. DateAt(s) = [day |-> a.day, month |-> Months[m], year |-> a.year,
                     hh |-> a.hh, mm |-> a.mm, ss |-> a.ss]
    <3>1. Years \subseteq Nat
      BY <1>1
    <3> HIDE DEF a
    <3>2. ASSUME NEW x \in Years, NEW dd \in Nat, NEW hh \in 0 .. 23, NEW mm \in 0 .. 59,
                 NEW ss \in 0 .. 59, dd >= 1,
                 IF m = 12 THEN dd <= 31 ELSE dd <= ToMonth(x, m + 1) - ToMonth(x, m)
          PROVE  DateAt(Seconds(x, m, dd, hh, mm, ss)) =
                   [day |-> dd, month |-> Months[m], year |-> x, hh |-> hh, mm |-> mm, ss |-> ss]
      BY ZenonT(60), <3>1, <3>2, DateOfSeconds
    <3> QED BY ZenonT(60), <2>5, <2>8, <3>2 DEF s
  <2>10. a = [day |-> a.day, month |-> a.month, year |-> a.year,
              hh |-> a.hh, mm |-> a.mm, ss |-> a.ss]
    BY <1>1
  <2>11. DateAt(s) = a
    BY <2>1, <2>9, <2>10
  <2> HIDE DEF shift
  <2> QED BY <2>7, <2>11 DEF TimeToDate
<1>3. ASSUME ~ InRange(a) \/ (a.month \notin {Months[m] : m \in 1 .. 12} /\ ~ ByItsEnds(a.month))
      PROVE  t = 0
  <2>1. a.month \notin {Months[m] : m \in 1 .. 12} /\ ~ ByItsEnds(a.month) => MonthOf(a.month) = {}
    <3>1. Months[6][3] = "n" /\ Months[7][3] = "l"
      BY DEF Months
    <3> QED BY <3>1 DEF MonthOf, ByItsEnds
  <2> QED BY <1>3, <2>1 DEF DateToTime, a
<1> QED BY <1>2, <1>3 DEF ReadBack, a, z, shift

-----------------------------------------------------------------------------
(* File types *)

\* The table has 27 rows, ...
LEMMA RowCount == DOMAIN MimeTab = 1 .. 27
BY DEF MimeTab

\* ... with these numbers, ...
LEMMA RowNumbers ==
  \A i \in 1 .. 27 :
    \/ i = 1 \/ i = 2 \/ i = 3 \/ i = 4 \/ i = 5 \/ i = 6 \/ i = 7 \/ i = 8 \/ i = 9
    \/ i = 10 \/ i = 11 \/ i = 12 \/ i = 13 \/ i = 14 \/ i = 15 \/ i = 16 \/ i = 17 \/ i = 18
    \/ i = 19 \/ i = 20 \/ i = 21 \/ i = 22 \/ i = 23 \/ i = 24 \/ i = 25 \/ i = 26 \/ i = 27
OBVIOUS

\* ... whose extension is a single piece and not a dot, if there is one.
OneWord(i) == LET ext == MimeTab[i][2] IN ext = <<>> \/ (ext = <<ext[1]>> /\ ext[1] # ".")

\* Every row is such a row.
LEMMA WordForWord ==
  /\ OneWord(1) /\ OneWord(2) /\ OneWord(3) /\ OneWord(4) /\ OneWord(5) /\ OneWord(6)
  /\ OneWord(7) /\ OneWord(8) /\ OneWord(9) /\ OneWord(10) /\ OneWord(11) /\ OneWord(12)
  /\ OneWord(13) /\ OneWord(14) /\ OneWord(15) /\ OneWord(16) /\ OneWord(17) /\ OneWord(18)
  /\ OneWord(19) /\ OneWord(20) /\ OneWord(21) /\ OneWord(22) /\ OneWord(23) /\ OneWord(24)
  /\ OneWord(25) /\ OneWord(26) /\ OneWord(27)
BY DEF MimeTab, OneWord

\* An extension has no dot in it, and no name is empty.
LEMMA Pieces ==
  \A i \in 1 .. 27 :
    /\ LET ext == MimeTab[i][2] IN ext = <<>> \/ (ext = <<ext[1]>> /\ ext[1] # ".")
    /\ MimeTab[i][3] # <<>>
<1>1. \A i \in 1 .. 27 : OneWord(i)
  BY RowNumbers, WordForWord
<1>3. \A i \in 1 .. 27 : DOMAIN MimeTab[i][3] # {}
  BY SMTT(60), RowNumbers DEF MimeTab
<1>4. \A x : x = <<>> => DOMAIN x = {}
  OBVIOUS
<1>5. \A i \in 1 .. 27 : MimeTab[i][3] # <<>>
  BY <1>3, <1>4
<1> QED BY <1>1, <1>5 DEF OneWord

\* The type of a row, its extension as a word (none: no extension) and its name, ...
Kind(i) == MimeTab[i][1]
Word(i) == IF DOMAIN MimeTab[i][2] = {} THEN "none" ELSE MimeTab[i][2][1]
Name(i) == MimeTab[i][3]

\* ... row by row.
LEMMA Kinds ==
  /\ Kind(1) = "bin" /\ Kind(2) = "css" /\ Kind(3) = "html" /\ Kind(4) = "html" /\ Kind(5) = "jpeg"
  /\ Kind(6) = "jpeg" /\ Kind(7) = "text" /\ Kind(8) = "text" /\ Kind(9) = "tiff"
  /\ Kind(10) = "tiff" /\ Kind(11) = "multi" /\ Kind(12) = "arc" /\ Kind(13) = "bz"
  /\ Kind(14) = "bz2" /\ Kind(15) = "midi" /\ Kind(16) = "midi" /\ Kind(17) = "qt"
  /\ Kind(18) = "png" /\ Kind(19) = "qt" /\ Kind(20) = "sh" /\ Kind(21) = "swf" /\ Kind(22) = "woff"
  /\ Kind(23) = "woff2" /\ Kind(24) = "xls" /\ Kind(25) = "xlsx" /\ Kind(26) = "3gp"
  /\ Kind(27) = "3g2"
BY SMTT(60) DEF MimeTab, Kind

LEMMA Words ==
  /\ Word(1) = "bin" /\ Word(2) = "css" /\ Word(3) = "htm" /\ Word(4) = "html" /\ Word(5) = "jpeg"
  /\ Word(6) = "jpg" /\ Word(7) = "text" /\ Word(8) = "txt" /\ Word(9) = "tif" /\ Word(10) = "tiff"
  /\ Word(11) = "none" /\ Word(12) = "arc" /\ Word(13) = "bz" /\ Word(14) = "bz2" /\ Word(15) = "mid"
  /\ Word(16) = "midi" /\ Word(17) = "mov" /\ Word(18) = "png" /\ Word(19) = "qt" /\ Word(20) = "sh"
  /\ Word(21) = "swf" /\ Word(22) = "woff" /\ Word(23) = "woff2" /\ Word(24) = "xls"
  /\ Word(25) = "xlsx" /\ Word(26) = "3gp" /\ Word(27) = "3g2"
<1>1. /\ Word(1) = "bin" /\ Word(2) = "css" /\ Word(3) = "htm" /\ Word(4) = "html" /\ Word(5) = "jpeg"
      /\ Word(6) = "jpg" /\ Word(7) = "text" /\ Word(8) = "txt" /\ Word(9) = "tif"
  BY SMTT(60) DEF MimeTab, Word
<1>2. /\ Word(10) = "tiff" /\ Word(11) = "none" /\ Word(12) = "arc" /\ Word(13) = "bz" /\ Word(14) = "bz2"
      /\ Word(15) = "mid" /\ Word(16) = "midi" /\ Word(17) = "mov" /\ Word(18) = "png"
  BY SMTT(60) DEF MimeTab, Word
<1>3. /\ Word(19) = "qt" /\ Word(20) = "sh" /\ Word(21) = "swf" /\ Word(22) = "woff" /\ Word(23) = "woff2"
      /\ Word(24) = "xls" /\ Word(25) = "xlsx" /\ Word(26) = "3gp" /\ Word(27) = "3g2"
  BY SMTT(60) DEF MimeTab, Word
<1> QED BY <1>1, <1>2, <1>3

\* Rows that share a type share the name.
LEMMA SameNames ==
  /\ Name(3) = Name(4) /\ Name(5) = Name(6) /\ Name(7) = Name(8) /\ Name(9) = Name(10)
  /\ Name(15) = Name(16) /\ Name(17) = Name(19)
BY SMTT(60) DEF MimeTab, Name

\* No two rows have the same extension, and rows of one type have one name.
LEMMA RowsApart ==
  \A i, k \in 1 .. 27 :
    /\ MimeTab[i][2] = MimeTab[k][2] => i = k
    /\ MimeTab[i][1] = MimeTab[k][1] => MimeTab[i][3] = MimeTab[k][3]
<1>1. \A i, k \in 1 .. 27 : Word(i) = Word(k) => i = k
  BY SMTT(60), RowNumbers, Words
<1>2. \A i, k \in 1 .. 27 : Kind(i) = Kind(k) => Name(i) = Name(k)
  BY SMTT(60), RowNumbers, Kinds, SameNames
<1> QED BY ZenonT(60), <1>1, <1>2 DEF Kind, Word, Name

\* Among rows there is a first one.
LEMMA FirstIs ==
  ASSUME NEW R \in SUBSET (1 .. 27), R # {}
  PROVE  \E m \in R : (\A k \in R : m <= k) /\ FirstRow(R) = {MimeTab[m]}
<1>1. R \in SUBSET Nat
  OBVIOUS
<1>2. PICK m \in R : \A k \in R : m <= k
  BY <1>1, LeastNat
<1>3. {i \in R : \A j \in R : i <= j} = {m}
  <2>1. ASSUME NEW i \in R, \A j \in R : i <= j PROVE i = m
    <3>1. i \in Nat /\ m \in Nat /\ i <= m /\ m <= i
      BY <1>1, <1>2, <2>1
    <3> QED BY <3>1
  <2> QED BY <1>2, <2>1
<1>4. FirstRow(R) = {MimeTab[i] : i \in {m}}
  BY <1>3 DEF FirstRow
<1> QED BY <1>2, <1>4

\* What follows the last dot of a path is the extension it ends with, whatever
\* dots are before.
LEMMA LastDot ==
  ASSUME NEW stem \in Seq(STRING), NEW ext, ext = <<>> \/ (ext = <<ext[1]>> /\ ext[1] # ".")
  PROVE  Extension(stem \o (<<".">> \o ext)) = {ext}
<1> DEFINE S    == STRING \cup {".", ext[1]}
           path == stem \o (<<".">> \o ext)
           n    == Len(stem)
           dots == {i \in DOMAIN path : path[i] = "."}
<1>1. stem \in Seq(S) /\ n \in Nat
  OBVIOUS
<1>2. ext \in Seq(S) /\ Len(ext) \in {0, 1} /\ (Len(ext) = 1 => ext[1] # ".")
  <2> HIDE DEF S
  <2>1. "." \in S /\ ext[1] \in S
    BY DEF S
  <2>2. CASE ext = <<>>
    BY <2>2
  <2>3. CASE ext = <<ext[1]>> /\ ext[1] # "."
    <3> DEFINE x == ext[1]
    <3>1. x \in S /\ ext = <<x>> /\ x # "."
      BY <2>1, <2>3
    <3> HIDE DEF x
    <3> QED BY <3>1
  <2> QED BY <2>2, <2>3
<1>3. <<".">> \in Seq(S) /\ Len(<<".">>) = 1
  OBVIOUS
<1> HIDE DEF S
<1> DEFINE tail == <<".">> \o ext
<1>4. /\ tail \in Seq(S) /\ Len(tail) = 1 + Len(ext) /\ tail[1] = "."
      /\ Len(ext) = 1 => tail[2] = ext[1]
  BY <1>2, <1>3
<1> HIDE DEF tail
<1>5. path = stem \o tail
  BY DEF tail
<1>6. /\ path \in Seq(S) /\ Len(path) = n + 1 + Len(ext) /\ path[n + 1] = "."
      /\ Len(ext) = 1 => path[n + 2] = ext[1]
  BY <1>1, <1>2, <1>4, <1>5
<1> HIDE DEF path, n
<1>7. {i \in dots : \A j \in dots : j <= i} = {n + 1}
  <2>1. DOMAIN path = 1 .. n + 1 + Len(ext) 
    BY <1>2, <1>6
  <2>2. n + 1 \in dots
    BY <1>1, <1>6, <2>1
  <2>3. ASSUME NEW j \in dots PROVE j <= n + 1 /\ j \in Nat
    <3>1. j \in 1 .. n + 1 + Len(ext) /\ path[j] = "."
      BY <2>1, <2>3
    <3>2. j # n + 2
      BY <1>1, <1>2, <1>6, <3>1
    <3>3. j \in Nat /\ j <= n + 1 + Len(ext)
      BY <1>1, <1>2, <3>1
    <3> QED BY SMTT(60), <1>1, <1>2, <3>2, <3>3
  <2> HIDE DEF dots
  <2> QED BY <1>1, <2>2, <2>3
<1>8. Extension(path) = {SubSeq(path, i + 1, Len(path)) : i \in {n + 1}}
  BY <1>7 DEF Extension
<1>9. SubSeq(path, n + 2, Len(path)) = ext
  <2>1. SubSeq(path, n + 2, Len(path)) \in Seq(S)
    BY <1>1, <1>2, <1>6
  <2>2. Len(SubSeq(path, n + 2, Len(path))) = Len(ext)
    BY SMTT(60), <1>1, <1>2, <1>6
  <2>3. Len(ext) = 1 => SubSeq(path, n + 2, Len(path))[1] = ext[1]
    <3>1. Len(path) \in Nat /\ n + 2 \in Nat /\ n + 2 >= 1 /\ path \in Seq(S)
      BY <1>1, <1>2, <1>6
    <3> DEFINE a == n + 2
    <3>2. a \in Nat /\ a >= 1
      BY <3>1
    <3>3. Len(ext) = 1 => Len(path) = a
      BY <1>1, <1>6
    <3> HIDE DEF a
    <3>4. Len(path) = a => SubSeq(path, a, Len(path))[1] = path[a]
      BY <3>1, <3>2
    <3> QED BY <1>6, <3>3, <3>4 DEF a
  <2> HIDE DEF dots
  <2> DEFINE behind == SubSeq(path, n + 2, Len(path))
  <2>4. behind \in Seq(S) /\ Len(behind) = Len(ext) /\ (Len(ext) = 1 => behind[1] = ext[1])
    BY <2>1, <2>2, <2>3
  <2> HIDE DEF behind
  <2>5. ASSUME NEW j \in 1 .. Len(behind) PROVE behind[j] = ext[j]
    <3>1. Len(ext) = 1 /\ j = 1
      BY <1>2, <2>4, <2>5
    <3> QED BY <2>4, <3>1
  <2>6. behind = ext
    BY <1>2, <2>4, <2>5, SameMembers
  <2> QED BY <2>6 DEF behind
<1>10. Extension(path) = {SubSeq(path, n + 2, Len(path))}
  BY SMTT(60), <1>1, <1>8
<1> QED BY <1>9, <1>10 DEF path

\* The four functions, of a file with the extension of the i-th row.
LEMMA TypeAnswered ==
  ASSUME NEW path, NEW i \in 1 .. 27, Extension(path) = {MimeTab[i][2]}
  PROVE  /\ MimeStringForFile(path) = MimeTab[i][3] /\ ContentTypeForFile(path) = MimeTab[i][1]
         /\ MimeStringForType(MimeTab[i][1]) = MimeTab[i][3]
         /\ OwnName(i) => ContentTypeForMime(MimeTab[i][3]) = MimeTab[i][1]
<1>1. RowForFile(path) = {MimeTab[i]}
  <2> DEFINE R == {k \in DOMAIN MimeTab : MimeTab[k][2] \in Extension(path)}
  <2>1. R = {i}
    BY RowCount, RowsApart
  <2>2. PICK m \in R : FirstRow(R) = {MimeTab[m]}
    <3>1. R \in SUBSET (1 .. 27) /\ R # {}
      BY <2>1
    <3> HIDE DEF R
    <3> QED BY <3>1, FirstIs
  <2> QED BY SMTT(60), <2>1, <2>2 DEF RowForFile
<1>2. MimeStringForFile(path) = MimeTab[i][3] /\ ContentTypeForFile(path) = MimeTab[i][1]
  BY <1>1 DEF MimeStringForFile, ContentTypeForFile
<1>3. MimeStringForType(MimeTab[i][1]) = MimeTab[i][3]
  <2> DEFINE R == {k \in DOMAIN MimeTab : MimeTab[k][1] = MimeTab[i][1]}
  <2>1. R \in SUBSET (1 .. 27) /\ i \in R
    BY RowCount
  <2>2. MimeStringForType(MimeTab[i][1]) = (CHOOSE row \in FirstRow(R) : TRUE)[3]
    BY SMTT(60) DEF MimeStringForType
  <2>3. ASSUME NEW k \in R PROVE MimeTab[k][3] = MimeTab[i][3]
    BY <2>1, <2>3, RowsApart
  <2> HIDE DEF R
  <2>4. PICK m \in R : FirstRow(R) = {MimeTab[m]}
    BY <2>1, FirstIs
  <2> QED BY <2>2, <2>3, <2>4
<1>4. ASSUME OwnName(i) PROVE ContentTypeForMime(MimeTab[i][3]) = MimeTab[i][1]
  <2> DEFINE name == MimeTab[i][3]
             R == {k \in DOMAIN MimeTab : IsPrefix(MimeTab[k][3], name)}
  <2>1. R \in SUBSET (1 .. 27) /\ name # <<>>
    BY RowCount, Pieces
  <2>2. i \in R
    BY RowCount DEF IsPrefix
  <2>3. ASSUME NEW k \in R, k <= i PROVE MimeTab[k][1] = MimeTab[i][1]
    <3>1. CASE k = i
      BY <3>1
    <3>2. CASE k # i
      <4>1. k \in 1 .. 27
        BY <2>1
      <4>2. \A a, b \in 1 .. 27 : a <= b /\ a # b => a \in 1 .. b - 1
        OBVIOUS
      <4>3. k \in 1 .. i - 1
        BY <2>3, <3>2, <4>1, <4>2
      <4> QED BY <1>4, <2>3, <4>3 DEF OwnName
    <3> QED BY <3>1, <3>2
  <2>4. ContentTypeForMime(name) =
          IF name = <<>> \/ FirstRow(R) = {} THEN DefaultType
          ELSE (CHOOSE row \in FirstRow(R) : TRUE)[1]
    BY DEF ContentTypeForMime
  <2> HIDE DEF R, name
  <2>5. PICK m \in R : (\A k \in R : m <= k) /\ FirstRow(R) = {MimeTab[m]}
    BY <2>1, <2>2, FirstIs
  <2>6. MimeTab[m][1] = MimeTab[i][1]
    BY <2>2, <2>3, <2>5
  <2>7. ContentTypeForMime(name) = MimeTab[i][1]
    BY <2>1, <2>4, <2>5, <2>6
  <2> QED BY <2>7 DEF name
<1> QED BY <1>2, <1>3, <1>4

-----------------------------------------------------------------------------
(* Base64 *)

\* The powers of 256 the decoder divides by.
LEMMA Pow == 256 ^ 2 = 65536 /\ 256 ^ 1 = 256 /\ 256 ^ 0 = 1
OBVIOUS

\* What is known of a buffer.
LEMMA BufferIs ==
  \A b \in Buffers :
    b.src \in Seq(Byte) /\ b.url \in BOOLEAN /\ b.hex \in BOOLEAN /\ b.outsize \in Nat /\ b.outsize >= 4
BY LibraryAssumption

\* A byte, without the interval.
LEMMA ByteIs == \A n : n \in Byte <=> n \in Nat /\ n < 256
BY DEF Byte

\* Four sextets hold three bytes.
LEMMA SextetsAre ==
  \A a, b, c \in Byte :
    LET s == Sextets(a, b, c) IN
      /\ s[1] \in Nat /\ s[1] < 64 /\ s[2] \in Nat /\ s[2] < 64
      /\ s[3] \in Nat /\ s[3] < 64 /\ s[4] \in Nat /\ s[4] < 64
      /\ ((s[1] * 64 + s[2]) * 64 + s[3]) * 64 + s[4] = (a * 256 + b) * 256 + c
BY ByteIs DEF Sextets

\* Three bytes are read back from the number they make.
LEMMA BytesAre ==
  \A a, b, c \in Byte :
    LET n == (a * 256 + b) * 256 + c IN
      (n \div 65536) % 256 = a /\ (n \div 256) % 256 = b /\ n % 256 = c
<1>1. \A a, b, c \in Nat :
        a < 256 /\ b < 256 /\ c < 256 =>
          LET n == (a * 256 + b) * 256 + c IN
            (n \div 65536) % 256 = a /\ (n \div 256) % 256 = b /\ n % 256 = c
  OBVIOUS
<1>2. SUFFICES ASSUME NEW a \in Byte, NEW b \in Byte, NEW c \in Byte
               PROVE  LET n == (a * 256 + b) * 256 + c IN
                        (n \div 65536) % 256 = a /\ (n \div 256) % 256 = b /\ n % 256 = c
  OBVIOUS
<1>3. a \in Nat /\ a < 256 /\ b \in Nat /\ b < 256 /\ c \in Nat /\ c < 256
  BY ByteIs
<1> QED BY <1>1, <1>3

\* A character of either alphabet is read back as its sextet.
LEMMA SymbolRead ==
  \A v \in Nat, url \in BOOLEAN :
     v < 64 => Symbol(v, url) \in Nat /\ InAlphabet(Symbol(v, url)) /\ Sextet(Symbol(v, url)) = v
BY DEF Symbol, InAlphabet, Sextet, Dash, Underscore

\* What is written for one character.
Written(c, hex) == IF hex THEN Escaped(c) ELSE <<c>>

NoPercent(w) == \A i \in 1 .. Len(w) : w[i] # Percent

\* One character without an escape, or more with one.
LEMMA WrittenIs ==
  ASSUME NEW c \in Nat, NEW hex \in BOOLEAN
  PROVE  LET w == Written(c, hex) IN
           w \in Seq(Nat) /\ (NoPercent(w) \/ ~ hex => Len(w) = 1 /\ w[1] = c)
<1> DEFINE w == Written(c, hex)
<1>1. \A x, y \in Nat : w = <<Percent, x, y>> => w \in Seq(Nat) /\ ~ NoPercent(w)
  <2>1. Percent \in Nat
    BY DEF Percent
  <2> SUFFICES ASSUME NEW x \in Nat, NEW y \in Nat, w = <<Percent, x, y>>
               PROVE  w \in Seq(Nat) /\ ~ NoPercent(w)
    OBVIOUS
  <2> HIDE DEF w
  <2>2. Len(w) = 3 /\ w[1] = Percent /\ w \in Seq(Nat)
    BY <2>1
  <2>3. 1 \in 1 .. Len(w)
    BY <2>2
  <2> QED BY <2>2, <2>3 DEF NoPercent
<1>2. CASE ~ hex \/ c \notin {62, 63, Equals}
  <2>1. w = <<c>>
    BY <1>2 DEF Written, Escaped
  <2> HIDE DEF w
  <2> QED BY <2>1 DEF w
<1>3. CASE hex /\ c = 62
  <2>1. w = <<Percent, 54, 1>>
    BY <1>3 DEF Written, Escaped, Equals
  <2> QED BY <1>1, <1>3, <2>1
<1>4. CASE hex /\ c = 63
  <2>1. w = <<Percent, 54, 5>>
    BY <1>4 DEF Written, Escaped, Equals
  <2> QED BY <1>1, <1>4, <2>1
<1>5. CASE hex /\ c = Equals
  <2>1. w = <<Percent, 55, 3>>
    BY <1>5 DEF Written, Escaped, Equals
  <2> QED BY <1>1, <1>5, <2>1
<1> QED BY <1>2, <1>3, <1>4, <1>5

\* A text without escapes has none in its parts.
LEMMA NoPercentParts ==
  ASSUME NEW v \in Seq(Nat), NEW w \in Seq(Nat), NoPercent(v \o w)
  PROVE  NoPercent(v) /\ NoPercent(w)
<1>1. \A i \in 1 .. Len(v) : i \in 1 .. Len(v \o w) /\ (v \o w)[i] = v[i]
  OBVIOUS
<1>2. \A i \in 1 .. Len(w) : Len(v) + i \in 1 .. Len(v \o w) /\ (v \o w)[Len(v) + i] = w[i]
  OBVIOUS
<1> QED BY <1>1, <1>2 DEF NoPercent

\* Two pieces one behind the other.
LEMMA Behind ==
  \A v, w \in Seq(Nat) :
    /\ v \o w \in Seq(Nat) /\ Len(v \o w) = Len(v) + Len(w)
    /\ \A i \in Nat : 1 <= i /\ i <= Len(v) => (v \o w)[i] = v[i]
    /\ \A i \in Nat : Len(v) < i /\ i <= Len(v) + Len(w) => (v \o w)[i] = w[i - Len(v)]
OBVIOUS

\* The j-th sextet of src.
SextetOf(src, j) ==
  LET k == 3 * ((j - 1) \div 4) + 1
  IN Sextets(Padded(src, k), Padded(src, k + 1), Padded(src, k + 2))[((j - 1) % 4) + 1]

\* The group and the place of a character.
LEMMA FourByFour ==
  \A m, i \in Nat : i < 4 => (4 * m + i) \div 4 = m /\ (4 * m + i) % 4 = i
OBVIOUS

\* The four sextets of a group, and the number they make.
LEMMA FourSextets ==
  ASSUME NEW src \in Seq(Byte), NEW m \in Nat
  PROVE  LET s == Sextets(Padded(src, 3 * m + 1), Padded(src, 3 * m + 2), Padded(src, 3 * m + 3))
         IN /\ s[1] = SextetOf(src, 4 * m + 1) /\ s[2] = SextetOf(src, 4 * m + 2)
            /\ s[3] = SextetOf(src, 4 * m + 3) /\ s[4] = SextetOf(src, 4 * m + 4)
            /\ s[1] \in Nat /\ s[1] < 64 /\ s[2] \in Nat /\ s[2] < 64
            /\ s[3] \in Nat /\ s[3] < 64 /\ s[4] \in Nat /\ s[4] < 64
            /\ ((s[1] * 64 + s[2]) * 64 + s[3]) * 64 + s[4] =
                 (Padded(src, 3 * m + 1) * 256 + Padded(src, 3 * m + 2)) * 256 + Padded(src, 3 * m + 3)
<1> DEFINE a == Padded(src, 3 * m + 1)
           b == Padded(src, 3 * m + 2)
           c == Padded(src, 3 * m + 3)
           s == Sextets(a, b, c)
<1>1. \A i \in Nat : i >= 1 => Padded(src, i) \in Byte
  <2>1. 0 \in Byte
    BY ByteIs
  <2>2. \A i \in Nat : i >= 1 /\ i <= Len(src) => src[i] \in Byte
    OBVIOUS
  <2> QED BY <2>1, <2>2 DEF Padded
<1>2. a \in Byte /\ b \in Byte /\ c \in Byte
  BY <1>1
<1>3. /\ s[1] \in Nat /\ s[1] < 64 /\ s[2] \in Nat /\ s[2] < 64
      /\ s[3] \in Nat /\ s[3] < 64 /\ s[4] \in Nat /\ s[4] < 64
      /\ ((s[1] * 64 + s[2]) * 64 + s[3]) * 64 + s[4] = (a * 256 + b) * 256 + c
  <2> HIDE DEF a, b, c
  <2> QED BY <1>2, SextetsAre
<1>4. ASSUME NEW i \in Nat, i < 4 PROVE SextetOf(src, 4 * m + (i + 1)) = s[i + 1]
  <2>1. 4 * m + (i + 1) - 1 = 4 * m + i
    OBVIOUS
  <2>2. (4 * m + (i + 1) - 1) \div 4 = m /\ (4 * m + (i + 1) - 1) % 4 = i
    BY <1>4, <2>1, FourByFour
  <2>3. 3 * m + 1 + 1 = 3 * m + 2 /\ 3 * m + 1 + 2 = 3 * m + 3
    OBVIOUS
  <2> DEFINE j == 4 * m + (i + 1)
  <2>4. SextetOf(src, j) =
          Sextets(Padded(src, 3 * ((j - 1) \div 4) + 1), Padded(src, 3 * ((j - 1) \div 4) + 1 + 1),
                  Padded(src, 3 * ((j - 1) \div 4) + 1 + 2))[((j - 1) % 4) + 1]
    BY DEF SextetOf
  <2>5. (j - 1) \div 4 = m /\ (j - 1) % 4 = i
    BY <2>2
  <2> HIDE DEF j
  <2>6. SextetOf(src, j) = s[i + 1]
    BY <2>3, <2>4, <2>5
  <2> QED BY <2>6 DEF j
<1>5. SextetOf(src, 4 * m + 1) = s[1]
  BY <1>4, 0 + 1 = 1, 0 < 4
<1>6. SextetOf(src, 4 * m + 2) = s[2]
  BY <1>4, 1 + 1 = 2, 1 < 4
<1>7. SextetOf(src, 4 * m + 3) = s[3]
  BY <1>4, 2 + 1 = 3, 2 < 4
<1>8. SextetOf(src, 4 * m + 4) = s[4]
  BY <1>4, 3 + 1 = 4, 3 < 4
<1> QED BY <1>3, <1>5, <1>6, <1>7, <1>8

\* The characters of a group, and the first of its padding.
LEMMA GroupIs ==
  ASSUME NEW src \in Seq(Byte), NEW url \in BOOLEAN, NEW hex \in BOOLEAN,
         NEW m \in Nat, 3 * m + 1 <= Len(src)
  PROVE  LET g == Group(src, 3 * m + 1, url, hex)
             r == IF 3 * m + 3 <= Len(src) THEN 4 ELSE Len(src) - 3 * m + 1
         IN /\ g \in Seq(Nat)
            /\ NoPercent(g) \/ ~ hex =>
                 /\ r <= Len(g) /\ Len(g) <= 4
                 /\ g[1] = Symbol(SextetOf(src, 4 * m + 1), url)
                 /\ g[2] = Symbol(SextetOf(src, 4 * m + 2), url)
                 /\ r >= 3 => g[3] = Symbol(SextetOf(src, 4 * m + 3), url)
                 /\ r >= 4 => g[4] = Symbol(SextetOf(src, 4 * m + 4), url)
                 /\ Len(g) > r => g[r + 1] = Equals
<1> DEFINE s == Sextets(Padded(src, 3 * m + 1), Padded(src, 3 * m + 2), Padded(src, 3 * m + 3))
           y1 == Symbol(s[1], url)
           y2 == Symbol(s[2], url)
           y3 == Symbol(s[3], url)
           y4 == Symbol(s[4], url)
           pad == IF url /\ ~ hex THEN <<>> ELSE Written(Equals, hex)
           a == Written(y1, hex)
           b == Written(y2, hex)
           c == IF 3 * m + 2 <= Len(src) THEN Written(y3, hex) ELSE pad
           d == IF 3 * m + 3 <= Len(src) THEN Written(y4, hex) ELSE pad
           g == Group(src, 3 * m + 1, url, hex)
           r == IF 3 * m + 3 <= Len(src) THEN 4 ELSE Len(src) - 3 * m + 1
           plain == NoPercent(g) \/ ~ hex
<1>1. g = ((a \o b) \o c) \o d
  <2>1. /\ 3 * m + 1 + 1 = 3 * m + 2 /\ 3 * m + 1 + 2 = 3 * m + 3
        /\ 3 * m + 1 + 3 - 2 = 3 * m + 2 /\ 3 * m + 1 + 4 - 2 = 3 * m + 3
    OBVIOUS
  <2> QED BY <2>1 DEF Group, Written
<1>2. y1 \in Nat /\ y2 \in Nat /\ y3 \in Nat /\ y4 \in Nat
  <2>1. /\ s[1] \in Nat /\ s[1] < 64 /\ s[2] \in Nat /\ s[2] < 64
        /\ s[3] \in Nat /\ s[3] < 64 /\ s[4] \in Nat /\ s[4] < 64
    BY FourSextets
  <2> HIDE DEF s
  <2> QED BY <2>1, SymbolRead
<1>3. /\ y1 = Symbol(SextetOf(src, 4 * m + 1), url) /\ y2 = Symbol(SextetOf(src, 4 * m + 2), url)
      /\ y3 = Symbol(SextetOf(src, 4 * m + 3), url) /\ y4 = Symbol(SextetOf(src, 4 * m + 4), url)
  BY FourSextets
<1> HIDE DEF y1, y2, y3, y4
<1>4. Equals \in Nat
  BY DEF Equals
<1>5. /\ pad \in Seq(Nat)
      /\ NoPercent(pad) \/ ~ hex => Len(pad) = 0 \/ (Len(pad) = 1 /\ pad[1] = Equals)
  <2>1. CASE url /\ ~ hex
    <3>1. pad = <<>>
      BY <2>1
    <3> HIDE DEF pad
    <3> QED BY <3>1
  <2>2. CASE ~ (url /\ ~ hex)
    BY <1>4, <2>2, WrittenIs
  <2> QED BY <2>1, <2>2
<1> HIDE DEF pad
<1>6. /\ a \in Seq(Nat) /\ (NoPercent(a) \/ ~ hex => Len(a) = 1 /\ a[1] = y1)
      /\ b \in Seq(Nat) /\ (NoPercent(b) \/ ~ hex => Len(b) = 1 /\ b[1] = y2)
  BY <1>2, WrittenIs
<1>7. /\ c \in Seq(Nat)
      /\ NoPercent(c) \/ ~ hex =>
           \/ 3 * m + 2 <= Len(src) /\ Len(c) = 1 /\ c[1] = y3
           \/ ~ (3 * m + 2 <= Len(src)) /\ (Len(c) = 0 \/ (Len(c) = 1 /\ c[1] = Equals))
  <2>1. Written(y3, hex) \in Seq(Nat)
        /\ (NoPercent(Written(y3, hex)) \/ ~ hex => Len(Written(y3, hex)) = 1 /\ Written(y3, hex)[1] = y3)
    BY <1>2, WrittenIs
  <2> QED BY <1>5, <2>1
<1>8. /\ d \in Seq(Nat)
      /\ NoPercent(d) \/ ~ hex =>
           \/ 3 * m + 3 <= Len(src) /\ Len(d) = 1 /\ d[1] = y4
           \/ ~ (3 * m + 3 <= Len(src)) /\ (Len(d) = 0 \/ (Len(d) = 1 /\ d[1] = Equals))
  <2>1. Written(y4, hex) \in Seq(Nat)
        /\ (NoPercent(Written(y4, hex)) \/ ~ hex => Len(Written(y4, hex)) = 1 /\ Written(y4, hex)[1] = y4)
    BY <1>2, WrittenIs
  <2> QED BY <1>5, <2>1
<1> DEFINE ab  == a \o b
           abc == ab \o c
<1> HIDE DEF a, b, c, d, g
<1>9. ab \in Seq(Nat) /\ abc \in Seq(Nat) /\ g = abc \o d /\ g \in Seq(Nat)
  BY <1>1, <1>6, <1>7, <1>8, Behind
<1>10. NoPercent(g) => NoPercent(a) /\ NoPercent(b) /\ NoPercent(c) /\ NoPercent(d)
  BY <1>6, <1>7, <1>8, <1>9, NoPercentParts
<1>11. ASSUME plain
       PROVE  /\ r <= Len(g) /\ Len(g) <= 4 /\ g[1] = y1 /\ g[2] = y2
              /\ (r >= 3 => g[3] = y3) /\ (r >= 4 => g[4] = y4)
              /\ Len(g) > r => g[r + 1] = Equals
  <2>1. Len(ab) = 2 /\ ab[1] = y1 /\ ab[2] = y2
    <3>1. Len(a) = 1 /\ a[1] = y1 /\ Len(b) = 1 /\ b[1] = y2
      BY <1>6, <1>10, <1>11
    <3>2. 1 <= Len(a) /\ Len(a) < 2 /\ 2 <= Len(a) + Len(b) /\ 2 - Len(a) = 1
      BY <3>1
    <3>3. a \in Seq(Nat) /\ b \in Seq(Nat)
      BY <1>6
    <3>4. Len(ab) = Len(a) + Len(b) /\ ab[1] = a[1] /\ ab[2] = b[2 - Len(a)]
      BY <3>2, <3>3, Behind
    <3> HIDE DEF ab
    <3> QED BY <3>1, <3>2, <3>4
  <2>2. Len(abc) = 2 + Len(c) /\ abc[1] = y1 /\ abc[2] = y2 /\ (Len(c) = 1 => abc[3] = c[1])
    <3> HIDE DEF ab
    <3>1. 2 <= Len(ab) /\ Len(ab) < 3 /\ 3 - Len(ab) = 1
      BY <2>1
    <3>2. ab \in Seq(Nat) /\ c \in Seq(Nat)
      BY <1>7, <1>9
    <3>3. Len(abc) = Len(ab) + Len(c) /\ abc[1] = ab[1] /\ abc[2] = ab[2]
      BY <3>1, <3>2, Behind
    <3>4. ASSUME Len(c) = 1 PROVE abc[3] = c[3 - Len(ab)]
      <4>1. 3 <= Len(ab) + Len(c)
        BY <2>1, <3>4
      <4> QED BY <3>1, <3>2, <4>1, Behind
    <3> HIDE DEF abc
    <3> QED BY <2>1, <3>1, <3>3, <3>4
  <2> HIDE DEF abc
  <2>3. Len(c) \in {0, 1} /\ Len(d) \in {0, 1}
    BY <1>7, <1>8, <1>10, <1>11
  <2>4. /\ Len(g) = 2 + Len(c) + Len(d) /\ g[1] = y1 /\ g[2] = y2
        /\ (Len(c) = 1 => g[3] = c[1]) /\ (Len(d) = 1 => g[3 + Len(c)] = d[1])
    <3>1. 2 <= Len(abc) /\ (Len(c) = 1 => 3 <= Len(abc)) /\ Len(abc) < 3 + Len(c)
          /\ 3 + Len(c) - Len(abc) = 1 /\ 3 + Len(c) \in Nat
          /\ (Len(d) = 1 => 3 + Len(c) <= Len(abc) + Len(d))
      BY <2>2, <2>3
    <3>2. abc \in Seq(Nat) /\ d \in Seq(Nat) /\ g = abc \o d
      BY <1>8, <1>9
    <3>3. Len(g) = Len(abc) + Len(d) /\ g[1] = abc[1] /\ g[2] = abc[2]
      BY <3>1, <3>2, Behind
    <3>4. ASSUME Len(c) = 1 PROVE g[3] = abc[3]
      <4>1. 3 <= Len(abc)
        BY <3>1, <3>4
      <4> QED BY <3>2, <4>1, Behind
    <3>5. ASSUME Len(d) = 1 PROVE g[3 + Len(c)] = d[1]
      <4>1. 3 + Len(c) <= Len(abc) + Len(d)
        BY <3>1, <3>5
      <4>2. g[3 + Len(c)] = d[3 + Len(c) - Len(abc)]
        BY <3>1, <3>2, <4>1, Behind
      <4> QED BY <3>1, <4>2
    <3> QED BY <2>2, <3>3, <3>4, <3>5
  <2>5. CASE 3 * m + 3 <= Len(src)
    <3>1. Len(c) = 1 /\ c[1] = y3 /\ Len(d) = 1 /\ d[1] = y4
      BY <1>7, <1>8, <1>10, <1>11, <2>5
    <3>2. r = 4
      BY <2>5
    <3> HIDE DEF r
    <3> QED BY <2>4, <3>1, <3>2
  <2>6. CASE ~ (3 * m + 3 <= Len(src)) /\ 3 * m + 2 <= Len(src)
    <3>1. /\ Len(c) = 1 /\ c[1] = y3
          /\ Len(d) = 0 \/ (Len(d) = 1 /\ d[1] = Equals)
      BY <1>7, <1>8, <1>10, <1>11, <2>6
    <3>2. r = 3
      BY <2>6
    <3>3. Len(g) = 3 + Len(d) /\ g[3] = y3 /\ (Len(d) = 1 => g[4] = Equals)
      <4>1. 2 + Len(c) = 3 /\ 3 + Len(c) = 4
        BY <3>1
      <4> QED BY <2>4, <3>1, <4>1
    <3> HIDE DEF r
    <3>4. r + 1 = 4
      BY <3>2
    <3> QED BY SMTT(60), <2>3, <2>4, <3>1, <3>2, <3>3, <3>4
  <2>7. CASE ~ (3 * m + 2 <= Len(src))
    <3>1. /\ Len(c) = 0 \/ (Len(c) = 1 /\ c[1] = Equals)
          /\ Len(d) = 0 \/ (Len(d) = 1 /\ d[1] = Equals)
      BY <1>7, <1>8, <1>10, <1>11, <2>7
    <3>2. r = 2
      BY <2>7
    <3>3. Len(g) > 2 => g[3] = Equals
      <4>1. CASE Len(c) = 1
        BY <2>4, <3>1, <4>1
      <4>2. CASE Len(c) = 0
        BY <2>4, <3>1, <4>2
      <4> QED BY <3>1, <4>1, <4>2
    <3> HIDE DEF r
    <3>4. r + 1 = 3
      BY <3>2
    <3>5. r <= Len(g) /\ Len(g) <= 4
      <4>1. \A x, y \in {0, 1} : 2 <= 2 + x + y /\ 2 + x + y <= 4
        OBVIOUS
      <4>2. Len(g) = 2 + Len(c) + Len(d)
        BY <2>4
      <4>3. 2 <= Len(g) /\ Len(g) <= 4
        BY <2>3, <4>1, <4>2
      <4> QED BY <3>2, <4>3
    <3>6. ~ (r >= 3) /\ ~ (r >= 4) /\ (Len(g) > r => g[r + 1] = Equals)
      BY <3>2, <3>3, <3>4
    <3> QED BY <2>4, <3>5, <3>6
  <2> QED BY <2>5, <2>6, <2>7
<1> QED BY <1>3, <1>9, <1>11 DEF g

\* What the loop of butil_base64_encode starts with, and the states it has had.
NothingYet == [text |-> <<>>, used |-> 0, next |-> 1]

GroupsAdded(b, n, f) ==
  f = [k \in 0 .. n |-> IF k = 0 THEN NothingYet ELSE AddGroup(b, f[k - 1])]

\* The loop is well defined.
LEMMA LoopExists ==
  ASSUME NEW b, NEW n \in Nat
  PROVE  \E f : GroupsAdded(b, n, f)
<1> DEFINE T == {k \in Nat : ~ \E f : GroupsAdded(b, k, f)}
<1>1. SUFFICES ASSUME T # {} PROVE FALSE
  OBVIOUS
<1>2. PICK k \in T : \A j \in T : k <= j
  BY <1>1, LeastNat
<1>3. k \in Nat /\ ~ \E f : GroupsAdded(b, k, f)
  OBVIOUS
<1> HIDE DEF T
<1>4. CASE k = 0
  <2> DEFINE f == [i \in 0 .. 0 |-> NothingYet]
  <2>1. f = [i \in 0 .. 0 |-> IF i = 0 THEN NothingYet ELSE AddGroup(b, f[i - 1])]
    OBVIOUS
  <2> HIDE DEF f
  <2>2. GroupsAdded(b, 0, f)
    BY <2>1 DEF GroupsAdded
  <2> QED BY <1>3, <1>4, <2>2
<1>5. CASE k # 0
  <2>1. k - 1 \in Nat /\ ~ (k <= k - 1)
    BY <1>3, <1>5
  <2>2. PICK g : GroupsAdded(b, k - 1, g)
    BY <1>2, <2>1 DEF T
  <2> DEFINE f == [i \in 0 .. k |-> IF i = 0 THEN NothingYet ELSE AddGroup(b, g[i - 1])]
  <2>3. \A i \in 0 .. k - 1 :
          g[i] = IF i = 0 THEN NothingYet ELSE AddGroup(b, g[i - 1])
    BY <2>2 DEF GroupsAdded
  <2>4. \A i \in 0 .. k - 1 : f[i] = g[i]
    <3>1. \A i \in 0 .. k - 1 : i \in 0 .. k
      BY <1>3
    <3> QED BY <2>3, <3>1
  <2>5. ASSUME NEW i \in 0 .. k
        PROVE  f[i] = IF i = 0 THEN NothingYet ELSE AddGroup(b, f[i - 1])
    <3>1. f[i] = IF i = 0 THEN NothingYet ELSE AddGroup(b, g[i - 1])
      OBVIOUS
    <3>2. i # 0 => f[i - 1] = g[i - 1]
      <4>1. i # 0 => i - 1 \in 0 .. k - 1
        BY <1>3
      <4> HIDE DEF f
      <4> QED BY <2>4, <4>1
    <3> HIDE DEF f
    <3> QED BY <3>1, <3>2
  <2>6. f = [i \in 0 .. k |-> f[i]]
    OBVIOUS
  <2> HIDE DEF f
  <2>7. GroupsAdded(b, k, f)
    BY <2>5, <2>6 DEF GroupsAdded
  <2> QED BY <1>3, <2>7
<1> QED BY <1>4, <1>5

\* The characters of m groups that stand for sextets.
Sextets64(src, m) == IF 3 * m <= Len(src) THEN 4 * m ELSE Len(src) + m

\* text is the encoding of m groups of src: the sextets, then padding.
EncodingOf(src, url, m, text) ==
  LET n == Sextets64(src, m) IN
    /\ n <= Len(text) /\ (3 * m <= Len(src) => Len(text) = n)
    /\ \A j \in Nat : 1 <= j /\ j <= n => text[j] = Symbol(SextetOf(src, j), url)
    /\ Len(text) > n => text[n + 1] = Equals

\* After k passes of the loop: m groups are written, and there is no room for
\* another one if these are fewer than the passes.
SoFar(b, k, m, st) ==
  /\ m \in Nat /\ m <= k /\ 3 * m < Len(b.src) + 3
  /\ st.next = 3 * m + 1 /\ st.text \in Seq(Nat) /\ st.used \in Nat
  /\ m = k \/ ~ Fits(st.used, b.outsize)
  /\ ~ b.hex => st.used = 4 * m /\ Len(st.text) <= 4 * m /\ (m = 0 \/ 4 * m < b.outsize)
  /\ NoPercent(st.text) \/ ~ b.hex => EncodingOf(b.src, b.url, m, st.text)

\* Before the first pass.
LEMMA NothingSoFar ==
  ASSUME NEW b, b.src \in Seq(Byte)
  PROVE  SoFar(b, 0, 0, NothingYet)
<1> DEFINE text == NothingYet.text
<1>1. text = <<>> /\ NothingYet.used = 0 /\ NothingYet.next = 1
  BY DEF NothingYet
<1>2. Len(b.src) \in Nat
  OBVIOUS
<1> HIDE DEF text
<1>3. text \in Seq(Nat) /\ Len(text) = 0
  BY <1>1
<1>4. EncodingOf(b.src, b.url, 0, text)
  <2>1. Sextets64(b.src, 0) = 0
    BY <1>2 DEF Sextets64
  <2> QED BY <1>3, <2>1 DEF EncodingOf
<1> QED BY <1>1, <1>2, <1>3, <1>4 DEF SoFar, text

\* One more group behind the text.
LEMMA OneMoreGroup ==
  ASSUME NEW src \in Seq(Byte), NEW url \in BOOLEAN, NEW hex \in BOOLEAN, NEW m \in Nat,
         3 * m + 1 <= Len(src), NEW text \in Seq(Nat), EncodingOf(src, url, m, text),
         NoPercent(Group(src, 3 * m + 1, url, hex)) \/ ~ hex
  PROVE  EncodingOf(src, url, m + 1, text \o Group(src, 3 * m + 1, url, hex))
<1> DEFINE g == Group(src, 3 * m + 1, url, hex)
           r == IF 3 * m + 3 <= Len(src) THEN 4 ELSE Len(src) - 3 * m + 1
           w == text \o g
           n == Sextets64(src, m + 1)
<1>1. /\ g \in Seq(Nat) /\ r <= Len(g) /\ Len(g) <= 4
      /\ g[1] = Symbol(SextetOf(src, 4 * m + 1), url)
      /\ g[2] = Symbol(SextetOf(src, 4 * m + 2), url)
      /\ r >= 3 => g[3] = Symbol(SextetOf(src, 4 * m + 3), url)
      /\ r >= 4 => g[4] = Symbol(SextetOf(src, 4 * m + 4), url)
      /\ Len(g) > r => g[r + 1] = Equals
  <2>1. /\ g \in Seq(Nat)
        /\ NoPercent(g) \/ ~ hex =>
             /\ r <= Len(g) /\ Len(g) <= 4
             /\ g[1] = Symbol(SextetOf(src, 4 * m + 1), url)
             /\ g[2] = Symbol(SextetOf(src, 4 * m + 2), url)
             /\ r >= 3 => g[3] = Symbol(SextetOf(src, 4 * m + 3), url)
             /\ r >= 4 => g[4] = Symbol(SextetOf(src, 4 * m + 4), url)
             /\ Len(g) > r => g[r + 1] = Equals
    BY GroupIs
  <2>2. NoPercent(g) \/ ~ hex
    OBVIOUS
  <2> HIDE DEF g, r
  <2> QED BY <2>1, <2>2
<1> HIDE DEF g, r
<1>13. g \in Seq(Nat)
  BY <1>1
<1>14. r <= Len(g) /\ Len(g) <= 4
  BY <1>1
<1>2. Len(src) \in Nat /\ Len(text) \in Nat /\ Len(g) \in Nat
  BY <1>13
<1>3. r \in Nat /\ 2 <= r /\ r <= 4 /\ (3 * (m + 1) <= Len(src) => r = 4)
  BY <1>2 DEF r
<1>4. n = 4 * m + r
  <2>1. CASE 3 * m + 3 <= Len(src)
    <3>1. 3 * (m + 1) <= Len(src) /\ 4 * (m + 1) = 4 * m + 4
      BY <1>2, <2>1
    <3> QED BY <2>1, <3>1 DEF Sextets64, r
  <2>2. CASE ~ (3 * m + 3 <= Len(src))
    <3>1. ~ (3 * (m + 1) <= Len(src))
      BY <1>2, <2>2
    <3>2. n = Len(src) + (m + 1) /\ r = Len(src) - 3 * m + 1
      BY <2>2, <3>1 DEF Sextets64, r
    <3> HIDE DEF n, r
    <3> QED BY <1>2, <3>2
  <2> QED BY <2>1, <2>2
<1>5. Len(text) = 4 * m /\ \A j \in Nat : 1 <= j /\ j <= 4 * m => text[j] = Symbol(SextetOf(src, j), url)
  <2>1. Sextets64(src, m) = 4 * m /\ 3 * m <= Len(src)
    BY <1>2 DEF Sextets64
  <2> QED BY <2>1 DEF EncodingOf
<1> HIDE DEF n, w
<1>6. Len(w) = 4 * m + Len(g)
  BY <1>1, <1>5, Behind DEF w
<1>7. ASSUME NEW j \in Nat, 1 <= j, j <= 4 * m PROVE w[j] = Symbol(SextetOf(src, j), url)
  <2>1. w[j] = text[j]
    <3>1. j <= Len(text)
      BY <1>5, <1>7
    <3> QED BY <1>1, <1>7, <3>1, Behind DEF w
  <2> QED BY <1>5, <1>7, <2>1
<1>8. ASSUME NEW i \in Nat, 1 <= i, i <= Len(g) PROVE w[4 * m + i] = g[i]
  <2>1. /\ 4 * m + i \in Nat /\ Len(text) < 4 * m + i /\ 4 * m + i <= Len(text) + Len(g)
        /\ 4 * m + i - Len(text) = i
    BY <1>2, <1>5, <1>8
  <2>2. w[4 * m + i] = g[4 * m + i - Len(text)]
    BY SMTT(60), <1>1, <2>1, Behind DEF w
  <2> QED BY <2>1, <2>2
<1>9. ASSUME NEW j \in Nat, 4 * m < j, j <= 4 * m + r PROVE w[j] = Symbol(SextetOf(src, j), url)
  <2> DEFINE i == j - 4 * m
  <2>1. i \in Nat /\ 1 <= i /\ i <= r /\ i <= Len(g) /\ j = 4 * m + i
    BY <1>1, <1>2, <1>3, <1>9
  <2>2. w[j] = g[i]
    <3> HIDE DEF i
    <3> QED BY <1>8, <2>1
  <2>3. i = 1 \/ i = 2 \/ i = 3 \/ i = 4
    <3> HIDE DEF i
    <3> QED BY <1>3, <2>1
  <2>4. i = 3 => r >= 3
    <3> HIDE DEF i
    <3> QED BY <2>1
  <2>5. i = 4 => r >= 4
    <3> HIDE DEF i
    <3> QED BY <2>1
  <2> HIDE DEF i
  <2> QED BY <1>1, <2>1, <2>2, <2>3, <2>4, <2>5
<1>10. Len(w) > n => w[n + 1] = Equals
  <2>1. SUFFICES ASSUME Len(w) > n PROVE w[n + 1] = Equals
    OBVIOUS
  <2>2. Len(g) > r /\ r + 1 \in Nat /\ 1 <= r + 1 /\ r + 1 <= Len(g) /\ n + 1 = 4 * m + (r + 1)
    BY <1>2, <1>3, <1>4, <1>6, <2>1
  <2> QED BY <1>1, <1>8, <2>2
<1>11. n <= Len(w) /\ (3 * (m + 1) <= Len(src) => Len(w) = n)
  <2>1. n <= Len(w)
    BY <1>2, <1>3, <1>4, <1>6, <1>14
  <2>2. r = 4 => Len(g) = 4
    <3>1. \A x, y \in Nat : x = 4 /\ x <= y /\ y <= 4 => y = 4
      OBVIOUS
    <3>2. r \in Nat /\ Len(g) \in Nat
      BY <1>2, <1>3
    <3> QED BY <1>14, <3>1, <3>2
  <2> QED BY <1>3, <1>4, <1>6, <2>1, <2>2
<1>12. \A j \in Nat : 1 <= j /\ j <= n => w[j] = Symbol(SextetOf(src, j), url)
  BY <1>4, <1>7, <1>9
<1> QED BY <1>10, <1>11, <1>12 DEF EncodingOf, n, w, g

\* A pass of the loop.
LEMMA OnePass ==
  ASSUME NEW b \in Buffers, NEW k \in Nat, k < Groups(b), NEW m, NEW st, SoFar(b, k, m, st)
  PROVE  \E n : SoFar(b, k + 1, n, AddGroup(b, st))
<1> DEFINE src == b.src
           g == Group(src, 3 * k + 1, b.url, b.hex)
           used == st.used + (IF b.hex THEN Len(g) ELSE 4)
           next == [text |-> st.text \o g, used |-> used, next |-> st.next + 3]
<1>1. src \in Seq(Byte) /\ b.url \in BOOLEAN /\ b.hex \in BOOLEAN /\ b.outsize \in Nat
  BY BufferIs
<1>2. Len(src) \in Nat /\ 3 * k + 1 <= Len(src)
  <2>1. Len(src) \in Nat
    BY <1>1
  <2> HIDE DEF src
  <2>2. \A n \in Nat : k < (n + 2) \div 3 => 3 * k + 1 <= n
    OBVIOUS
  <2>3. k < (Len(src) + 2) \div 3
    BY DEF Groups, src
  <2> QED BY <2>1, <2>2, <2>3
<1>3. CASE ~ Fits(st.used, b.outsize)
  <2>1. AddGroup(b, st) = st
    BY <1>3 DEF AddGroup
  <2>2. SoFar(b, k + 1, m, st)
    BY <1>3 DEF SoFar
  <2> QED BY <2>1, <2>2
<1>4. CASE Fits(st.used, b.outsize)
  <2>1. m = k
    BY <1>4 DEF SoFar
  <2>2. st.next = 3 * k + 1 /\ st.text \in Seq(Nat) /\ st.used \in Nat
    BY <2>1 DEF SoFar
  <2>3. AddGroup(b, st) = next
    BY <1>4, <2>2 DEF AddGroup
  <2>4. next.text = st.text \o g /\ next.used = used /\ next.next = st.next + 3
    OBVIOUS
  <2>5. /\ g \in Seq(Nat)
        /\ ~ b.hex => Len(g) <= 4
    BY <1>1, <1>2, GroupIs
  <2> HIDE DEF next, g
  <2>6. /\ st.text \o g \in Seq(Nat) /\ Len(st.text \o g) = Len(st.text) + Len(g)
        /\ Len(st.text) \in Nat /\ Len(g) \in Nat
    BY <2>2, <2>5, Behind
  <2>7. used \in Nat
    BY <1>1, <2>2, <2>6
  <2>8. ASSUME ~ b.hex
        PROVE  next.used = 4 * (k + 1) /\ Len(next.text) <= 4 * (k + 1) /\ 4 * (k + 1) < b.outsize
    <3>1. st.used = 4 * k /\ Len(st.text) <= 4 * k
      BY <2>1, <2>8 DEF SoFar
    <3>2. used = st.used + 4
      BY <2>8
    <3>3. st.used < b.outsize - 4
      BY <1>4 DEF Fits
    <3> HIDE DEF used
    <3>4. Len(g) <= 4
      BY <2>5, <2>8
    <3>5. next.used = 4 * (k + 1)
      BY <2>2, <2>4, <3>1, <3>2
    <3>6. Len(next.text) <= 4 * (k + 1)
      BY <2>4, <2>6, <3>1, <3>4
    <3>7. 4 * (k + 1) < b.outsize
      BY <1>1, <3>1, <3>3
    <3> QED BY <3>5, <3>6, <3>7
  <2>9. ASSUME NoPercent(next.text) \/ ~ b.hex
        PROVE  EncodingOf(src, b.url, k + 1, next.text)
    <3>1. NoPercent(next.text) => NoPercent(st.text) /\ NoPercent(g)
      BY <2>2, <2>4, <2>5, NoPercentParts
    <3>2. EncodingOf(src, b.url, k, st.text)
      BY <2>1, <2>9, <3>1 DEF SoFar
    <3>3. NoPercent(g) \/ ~ b.hex
      BY <2>9, <3>1
    <3> QED BY <1>1, <1>2, <2>2, <2>4, <3>2, <3>3, OneMoreGroup DEF g
  <2>10. k + 1 \in Nat /\ k + 1 <= k + 1 /\ 3 * (k + 1) < Len(src) + 3 /\ next.next = 3 * (k + 1) + 1
    BY <1>2, <2>2, <2>4
  <2> HIDE DEF used
  <2>11. SoFar(b, k + 1, k + 1, next)
    BY <2>4, <2>6, <2>7, <2>8, <2>9, <2>10 DEF SoFar
  <2> QED BY <2>3, <2>11
<1> QED BY <1>3, <1>4

\* What butil_base64_encode has written when it returns.
LEMMA EncodeIs ==
  ASSUME NEW b \in Buffers
  PROVE  \E m, st : /\ SoFar(b, Groups(b), m, st)
                    /\ Encode64(b).text = st.text /\ Encode64(b).ok = (st.next > Len(b.src))
<1> DEFINE G == Groups(b)
           P(f) == GroupsAdded(b, G, f)
           done == CHOOSE f : P(f)
           T == {k \in Nat : k <= G /\ ~ \E m : SoFar(b, k, m, done[k])}
<1>1. b.src \in Seq(Byte) /\ G \in Nat
  <2>1. b.src \in Seq(Byte)
    BY BufferIs
  <2>2. \A n \in Nat : (n + 2) \div 3 \in Nat
    OBVIOUS
  <2>3. Len(b.src) \in Nat
    BY <2>1
  <2> QED BY <2>1, <2>2, <2>3 DEF Groups
<1>2. /\ Encode64(b).text = done[G].text /\ Encode64(b).ok = (done[G].next > Len(b.src))
  BY DEF Encode64, GroupsAdded, NothingYet
<1> HIDE DEF G
<1>3. P(done)
  <2>1. \E f : P(f)
    BY <1>1, LoopExists
  <2> HIDE DEF P
  <2> QED BY <2>1
<1> HIDE DEF done
<1>4. /\ \A k \in 0 .. G : done[k] = IF k = 0 THEN NothingYet ELSE AddGroup(b, done[k - 1])
  BY <1>3 DEF GroupsAdded
<1>5. T = {}
  <2>1. SUFFICES ASSUME T # {} PROVE FALSE
    OBVIOUS
  <2>2. PICK k \in T : \A j \in T : k <= j
    BY <2>1, LeastNat
  <2>3. k \in Nat /\ k <= G /\ ~ \E m : SoFar(b, k, m, done[k])
    OBVIOUS
  <2>4. k \in 0 .. G
    BY <1>1, <2>3
  <2>5. CASE k = 0
    <3>1. done[0] = NothingYet
      BY <1>4, <2>4, <2>5
    <3> QED BY <1>1, <2>3, <2>5, <3>1, NothingSoFar
  <2>6. CASE k # 0
    <3>1. k - 1 \in Nat /\ k - 1 < G /\ k - 1 <= G /\ ~ (k <= k - 1) /\ (k - 1) + 1 = k
      BY <1>1, <2>3, <2>6
    <3>2. PICK m : SoFar(b, k - 1, m, done[k - 1])
      BY <2>2, <3>1
    <3>3. \E n : SoFar(b, (k - 1) + 1, n, AddGroup(b, done[k - 1]))
      BY <3>1, <3>2, OnePass DEF G
    <3>4. done[k] = AddGroup(b, done[k - 1])
      BY <1>4, <2>4, <2>6
    <3> QED BY <2>3, <3>1, <3>3, <3>4
  <2> QED BY <2>5, <2>6
<1>6. \E m : SoFar(b, G, m, done[G])
  <2>1. G \notin T /\ G <= G
    BY <1>1, <1>5
  <2> QED BY <1>1, <2>1
<1> QED BY <1>2, <1>6 DEF G

\* How many groups cover n bytes.
LEMMA Covered ==
  \A n, m : n \in Nat /\ m \in Nat /\ m <= (n + 2) \div 3 => (3 * m + 1 > n <=> m = (n + 2) \div 3)
OBVIOUS

\* Without escapes the room that is asked for is the room that is needed.
LEMMA EncodingFits ==
  ASSUME NEW b \in Buffers, ~ b.hex
  PROVE  /\ Encode64(b).ok <=> Groups(b) = 0 \/ 4 * Groups(b) < b.outsize
         /\ Len(Encode64(b).text) < b.outsize
<1>1. PICK m, st : /\ SoFar(b, Groups(b), m, st)
                   /\ Encode64(b).text = st.text /\ Encode64(b).ok = (st.next > Len(b.src))
  BY EncodeIs
<1>2. b.src \in Seq(Byte) /\ b.outsize \in Nat /\ b.outsize >= 4
  BY BufferIs
<1>3. Len(b.src) \in Nat
  BY <1>2
<1>4. /\ m \in Nat /\ m <= Groups(b) /\ st.next = 3 * m + 1 /\ st.text \in Seq(Nat)
      /\ m = Groups(b) \/ ~ Fits(st.used, b.outsize)
      /\ st.used = 4 * m /\ Len(st.text) <= 4 * m /\ (m = 0 \/ 4 * m < b.outsize)
  BY <1>1 DEF SoFar
<1>5. Groups(b) \in Nat
  <2>1. \A n \in Nat : (n + 2) \div 3 \in Nat
    OBVIOUS
  <2> QED BY <1>3, <2>1 DEF Groups
<1>6. st.next > Len(b.src) <=> m = Groups(b)
  <2>1. Groups(b) = (Len(b.src) + 2) \div 3
    BY DEF Groups
  <2>2. 3 * m + 1 > Len(b.src) <=> m = Groups(b)
    BY <1>3, <1>4, <2>1, Covered
  <2> QED BY <1>4, <2>2
<1>7. m = Groups(b) <=> Groups(b) = 0 \/ 4 * Groups(b) < b.outsize
  <2>1. CASE m = Groups(b)
    BY <1>4, <2>1
  <2>2. CASE m # Groups(b)
    <3>1. ~ (4 * m < b.outsize - 4)
      BY <1>4, <2>2 DEF Fits
    <3>2. m + 1 <= Groups(b)
      BY <1>4, <1>5, <2>2
    <3> QED BY <1>2, <1>4, <1>5, <2>2, <3>1, <3>2
  <2> QED BY <2>1, <2>2
<1>8. Len(st.text) < b.outsize
  <2>1. Len(st.text) \in Nat
    BY <1>4
  <2> QED BY <1>2, <1>4, <2>1
<1> QED BY <1>1, <1>6, <1>7, <1>8

\* Every byte of a group is a byte.
LEMMA PaddedIs ==
  ASSUME NEW src \in Seq(Byte)
  PROVE  \A i \in Nat : i >= 1 => Padded(src, i) \in Byte
<1>1. 0 \in Byte
  BY ByteIs
<1>2. \A i \in Nat : i >= 1 /\ i <= Len(src) => src[i] \in Byte
  OBVIOUS
<1> QED BY <1>1, <1>2 DEF Padded

\* A sextet is a number below 64.
LEMMA SextetSmall ==
  ASSUME NEW src \in Seq(Byte), NEW j \in Nat, 1 <= j
  PROVE  SextetOf(src, j) \in Nat /\ SextetOf(src, j) < 64
<1> DEFINE k == 3 * ((j - 1) \div 4) + 1
           r == (j - 1) % 4
           s == Sextets(Padded(src, k), Padded(src, k + 1), Padded(src, k + 2))
<1>1. k \in Nat /\ k >= 1 /\ r \in Nat /\ r < 4
  <2>1. \A x \in Nat : x \div 4 \in Nat /\ x % 4 \in Nat /\ x % 4 < 4
    OBVIOUS
  <2>2. j - 1 \in Nat
    OBVIOUS
  <2> QED BY <2>1, <2>2
<1>2. SextetOf(src, j) = s[r + 1]
  BY DEF SextetOf
<1> HIDE DEF k, r
<1>3. Padded(src, k) \in Byte /\ Padded(src, k + 1) \in Byte /\ Padded(src, k + 2) \in Byte
  BY <1>1, PaddedIs
<1>4. /\ s[1] \in Nat /\ s[1] < 64 /\ s[2] \in Nat /\ s[2] < 64
      /\ s[3] \in Nat /\ s[3] < 64 /\ s[4] \in Nat /\ s[4] < 64
  BY <1>3, SextetsAre
<1> HIDE DEF s
<1>5. r + 1 = 1 \/ r + 1 = 2 \/ r + 1 = 3 \/ r + 1 = 4
  BY <1>1
<1> QED BY <1>2, <1>4, <1>5

\* The characters of the alphabet a text starts with.
LEMMA AlphabetOf ==
  ASSUME NEW src \in Seq(Byte), NEW url \in BOOLEAN, NEW m \in Nat, 3 * m < Len(src) + 3,
         NEW text \in Seq(Nat), EncodingOf(src, url, m, text)
  PROVE  LET used == Readable(text)
             n    == Sextets64(src, m)
         IN /\ n \in Nat /\ Len(used) = n
            /\ \A j \in Nat : 1 <= j /\ j <= n => used[j] = Symbol(SextetOf(src, j), url)
<1> DEFINE stop == SelectInSeq(text, LAMBDA c : ~ InAlphabet(c))
           used == IF stop = 0 THEN text ELSE SubSeq(text, 1, stop - 1)
           n    == Sextets64(src, m)
           I    == {i \in 1 .. Len(text) : ~ InAlphabet(text[i])}
<1>1. Len(src) \in Nat /\ Len(text) \in Nat
  OBVIOUS
<1>2. n \in Nat
  BY <1>1 DEF Sextets64
<1>3. /\ n <= Len(text) /\ (Len(text) > n => text[n + 1] = Equals)
      /\ \A j \in Nat : 1 <= j /\ j <= n => text[j] = Symbol(SextetOf(src, j), url)
  BY DEF EncodingOf
<1>4. \A j \in Nat : 1 <= j => SextetOf(src, j) \in Nat /\ SextetOf(src, j) < 64
  BY SextetSmall
<1> HIDE DEF n
<1>5. \A j \in Nat : 1 <= j /\ j <= n => InAlphabet(text[j])
  BY <1>3, <1>4, SymbolRead
<1>6. stop = IF I # {} THEN Min(I) ELSE 0
  BY DEF SelectInSeq
<1> DEFINE Read == Readable(text)
<1>7. Read = used
  BY DEF Readable
<1> HIDE DEF Read
<1>8. CASE Len(text) = n
  <2>1. I = {}
    BY <1>1, <1>5, <1>8
  <2> HIDE DEF I
  <2>2. stop = 0
    BY <1>6, <2>1
  <2> HIDE DEF stop
  <2>3. used = text
    BY <2>2
  <2> HIDE DEF used
  <2>4. Len(used) = n /\ \A j \in Nat : 1 <= j /\ j <= n => used[j] = Symbol(SextetOf(src, j), url)
    BY <1>3, <1>8, <2>3
  <2> QED BY <1>2, <1>7, <2>4 DEF Read, n
<1>9. CASE Len(text) > n
  <2>1. ~ InAlphabet(text[n + 1])
    BY <1>3, <1>9 DEF InAlphabet, Equals, Underscore
  <2>2. n + 1 \in I
    BY <1>1, <1>2, <1>9, <2>1
  <2>3. \A y \in I : n + 1 <= y
    <3> SUFFICES ASSUME NEW y \in I, ~ (n + 1 <= y) PROVE FALSE
      OBVIOUS
    <3>1. y \in Nat /\ 1 <= y /\ y <= n
      BY <1>1, <1>2
    <3> QED BY <1>5, <3>1
  <2>4. \A x \in I : x \in Nat
    OBVIOUS
  <2> HIDE DEF I
  <2>5. I # {} /\ I \in SUBSET Nat
    BY <2>2, <2>4
  <2>6. stop = Min(I)
    BY <1>6, <2>5
  <2>7. Min(I) \in I /\ \A y \in I : Min(I) <= y
    BY <2>5, MinIs
  <2>8. stop \in Nat /\ n + 1 <= stop /\ stop <= n + 1
    BY <2>2, <2>3, <2>4, <2>6, <2>7
  <2> HIDE DEF stop
  <2>9. stop # 0 /\ stop - 1 = n
    BY <1>2, <2>8
  <2>10. used = SubSeq(text, 1, n)
    BY <2>9
  <2> HIDE DEF used
  <2>11. Len(used) = n /\ \A j \in Nat : 1 <= j /\ j <= n => used[j] = text[j]
    BY <1>1, <1>2, <1>3, <2>10
  <2>12. \A j \in Nat : 1 <= j /\ j <= n => used[j] = Symbol(SextetOf(src, j), url)
    BY <1>3, <2>11
  <2> QED BY <1>2, <1>7, <2>11, <2>12 DEF Read, n
<1> QED BY <1>1, <1>2, <1>3, <1>8, <1>9 DEF Read, n

\* The bytes m groups stand for.
Held(src, m) == IF 3 * m <= Len(src) THEN 3 * m ELSE Len(src)

\* How the numbers of bytes and of characters go together.
LEMMA Counted ==
  ASSUME NEW src \in Seq(Byte), NEW m \in Nat, 3 * m < Len(src) + 3
  PROVE  LET n == Sextets64(src, m) IN
           /\ n \in Nat /\ n <= 4 * m /\ n % 4 # 1 /\ (3 * n) \div 4 = Held(src, m)
           /\ n < 4 * m => Len(src) < 3 * m
           /\ n + 1 < 4 * m => Len(src) + 1 < 3 * m
           /\ n + 2 >= 4 * m
           /\ Held(src, m) \in Nat /\ Held(src, m) <= 3 * m /\ Held(src, m) <= Len(src)
<1>1. \A x, l \in Nat :
        /\ (4 * x) % 4 # 1 /\ (3 * (4 * x)) \div 4 = 3 * x
        /\ l < 3 * x /\ 3 * x < l + 3 =>
             /\ (l + x) % 4 # 1 /\ (3 * (l + x)) \div 4 = l
             /\ l + x <= 4 * x /\ (l + x + 1 < 4 * x => l + 1 < 3 * x)
             /\ l + x + 2 >= 4 * x
  OBVIOUS
<1>2. Len(src) \in Nat
  OBVIOUS
<1>3. CASE 3 * m <= Len(src)
  <2>1. Sextets64(src, m) = 4 * m /\ Held(src, m) = 3 * m
    BY <1>3 DEF Sextets64, Held
  <2> QED BY <1>1, <1>2, <1>3, <2>1
<1>4. CASE ~ (3 * m <= Len(src))
  <2>1. Sextets64(src, m) = Len(src) + m /\ Held(src, m) = Len(src) /\ Len(src) < 3 * m
    BY <1>2, <1>4 DEF Sextets64, Held
  <2>2. /\ (Len(src) + m) % 4 # 1 /\ (3 * (Len(src) + m)) \div 4 = Len(src)
        /\ Len(src) + m <= 4 * m /\ (Len(src) + m + 1 < 4 * m => Len(src) + 1 < 3 * m)
        /\ Len(src) + m + 2 >= 4 * m
    BY <1>1, <1>2, <2>1
  <2> QED BY <1>2, <2>1, <2>2
<1> QED BY <1>3, <1>4

\* The sextets of zeros behind the source.
LEMMA ZeroSextets ==
  /\ \A a \in Byte : Sextets(a, 0, 0)[3] = 0 /\ Sextets(a, 0, 0)[4] = 0
  /\ \A a, b \in Byte : Sextets(a, b, 0)[4] = 0
BY ByteIs DEF Sextets

\* Behind the characters of the alphabet the last group has sextets of zeros.
LEMMA ZerosBehind ==
  ASSUME NEW src \in Seq(Byte), NEW m \in Nat, 3 * m < Len(src) + 3,
         NEW j \in Nat, Sextets64(src, m) < j, j <= 4 * m
  PROVE  SextetOf(src, j) = 0
<1> DEFINE n == Sextets64(src, m)
           q == m - 1
           a == Padded(src, 3 * q + 1)
           b == Padded(src, 3 * q + 2)
           c == Padded(src, 3 * q + 3)
<1>1. /\ n \in Nat /\ n + 2 >= 4 * m /\ Len(src) \in Nat
      /\ n < 4 * m => Len(src) < 3 * m
      /\ n + 1 < 4 * m => Len(src) + 1 < 3 * m
  BY Counted
<1> HIDE DEF n
<1>2. n < j
  BY DEF n
<1>3. q \in Nat /\ Len(src) < 3 * m /\ 3 * q + 3 = 3 * m
  BY <1>1, <1>2
<1>4. j = 4 * m \/ (j + 1 = 4 * m /\ Len(src) + 1 < 3 * m)
  BY <1>1, <1>2
<1>5. /\ SextetOf(src, 4 * q + 3) = Sextets(a, b, c)[3]
      /\ SextetOf(src, 4 * q + 4) = Sextets(a, b, c)[4]
  <2> HIDE DEF q
  <2> QED BY <1>3, FourSextets
<1>6. a \in Byte /\ b \in Byte
  <2> HIDE DEF q
  <2>1. 3 * q + 1 \in Nat /\ 3 * q + 1 >= 1 /\ 3 * q + 2 \in Nat /\ 3 * q + 2 >= 1
    BY <1>3
  <2> QED BY <2>1, PaddedIs
<1>7. c = 0
  <2>1. ~ (3 * q + 3 <= Len(src))
    BY <1>1, <1>3
  <2> QED BY <2>1 DEF Padded
<1>8. Len(src) + 1 < 3 * m => b = 0
  <2>1. Len(src) + 1 < 3 * m => ~ (3 * q + 2 <= Len(src))
    BY <1>1, <1>3
  <2> QED BY <2>1 DEF Padded
<1>9. 4 * q + 4 = 4 * m /\ (j + 1 = 4 * m => j = 4 * q + 3)
  BY <1>3
<1> HIDE DEF a, b, c, q
<1>10. Sextets(a, b, c)[4] = 0 /\ (Len(src) + 1 < 3 * m => Sextets(a, b, c)[3] = 0)
  BY <1>6, <1>7, <1>8, ZeroSextets
<1>11. CASE j = 4 * m
  BY <1>5, <1>9, <1>10, <1>11
<1>12. CASE j + 1 = 4 * m /\ Len(src) + 1 < 3 * m
  BY <1>5, <1>9, <1>10, <1>12
<1> QED BY <1>4, <1>11, <1>12

\* What m groups stand for is decoded.
LEMMA DecodedIs ==
  ASSUME NEW src \in Seq(Byte), NEW url \in BOOLEAN, NEW m \in Nat, 3 * m < Len(src) + 3,
         NEW text \in Seq(Nat), EncodingOf(src, url, m, text)
  PROVE  /\ Decode64(text).ok
         /\ Decode64(text).data = [i \in 1 .. Held(src, m) |-> src[i]]
<1> DEFINE used    == Readable(text)
           at(i)   == IF i <= Len(used) THEN Sextet(used[i]) ELSE 0
           bits(g) == ((at(4 * g + 1) * 64 + at(4 * g + 2)) * 64 + at(4 * g + 3)) * 64 + at(4 * g + 4)
           byte(n) == (bits(n \div 3) \div 256 ^ (2 - (n % 3))) % 256
           L       == Sextets64(src, m)
           H       == Held(src, m)
<1>1. /\ L \in Nat /\ L <= 4 * m /\ L % 4 # 1 /\ (3 * L) \div 4 = H
      /\ H \in Nat /\ H <= 3 * m /\ H <= Len(src)
  BY Counted
<1>2. /\ Len(used) = L
      /\ \A j \in Nat : 1 <= j /\ j <= L => used[j] = Symbol(SextetOf(src, j), url)
  BY AlphabetOf
<1>3. /\ Decode64(text).ok <=> Len(used) % 4 # 1
      /\ Decode64(text).data = [i \in 1 .. (3 * Len(used)) \div 4 |-> byte(i - 1)]
  BY DEF Decode64
<1> HIDE DEF used, L, H
<1>4. ASSUME NEW j \in Nat, 1 <= j, j <= 4 * m PROVE at(j) = SextetOf(src, j)
  <2>1. CASE j <= L
    <3>1. SextetOf(src, j) \in Nat /\ SextetOf(src, j) < 64
      BY <1>4, SextetSmall
    <3>2. Sextet(Symbol(SextetOf(src, j), url)) = SextetOf(src, j)
      BY <3>1, SymbolRead
    <3> QED BY <1>2, <1>4, <2>1, <3>2
  <2>2. CASE ~ (j <= L)
    <3>1. L < j
      BY <1>1, <2>2
    <3>2. SextetOf(src, j) = 0
      BY <1>4, <3>1, ZerosBehind DEF L
    <3> QED BY <1>2, <2>2, <3>2
  <2> QED BY <2>1, <2>2
<1> HIDE DEF at
<1>5. ASSUME NEW g \in Nat, g < m
      PROVE  bits(g) = (Padded(src, 3 * g + 1) * 256 + Padded(src, 3 * g + 2)) * 256 + Padded(src, 3 * g + 3)
  <2>1. 4 * g + 4 <= 4 * m
    BY <1>5
  <2>2. /\ at(4 * g + 1) = SextetOf(src, 4 * g + 1) /\ at(4 * g + 2) = SextetOf(src, 4 * g + 2)
        /\ at(4 * g + 3) = SextetOf(src, 4 * g + 3) /\ at(4 * g + 4) = SextetOf(src, 4 * g + 4)
    BY <1>4, <2>1
  <2> DEFINE s == Sextets(Padded(src, 3 * g + 1), Padded(src, 3 * g + 2), Padded(src, 3 * g + 3))
  <2>3. /\ s[1] = SextetOf(src, 4 * g + 1) /\ s[2] = SextetOf(src, 4 * g + 2)
        /\ s[3] = SextetOf(src, 4 * g + 3) /\ s[4] = SextetOf(src, 4 * g + 4)
        /\ ((s[1] * 64 + s[2]) * 64 + s[3]) * 64 + s[4] =
             (Padded(src, 3 * g + 1) * 256 + Padded(src, 3 * g + 2)) * 256 + Padded(src, 3 * g + 3)
    BY SMTT(60), FourSextets
  <2> HIDE DEF s
  <2> QED BY <2>2, <2>3
<1> HIDE DEF bits
<1>6. ASSUME NEW i \in Nat, 1 <= i, i <= H PROVE byte(i - 1) = src[i]
  <2> DEFINE g == (i - 1) \div 3
             r == (i - 1) % 3
             a == Padded(src, 3 * g + 1)
             b == Padded(src, 3 * g + 2)
             c == Padded(src, 3 * g + 3)
             w == 256 ^ (2 - r)
  <2>1. g \in Nat /\ r \in Nat /\ i = 3 * g + r + 1 /\ g < m /\ (r = 0 \/ r = 1 \/ r = 2)
    <3>1. \A x \in Nat : /\ x \div 3 \in Nat /\ x % 3 \in Nat /\ x = 3 * (x \div 3) + (x % 3)
                         /\ x % 3 = 0 \/ x % 3 = 1 \/ x % 3 = 2
      OBVIOUS
    <3>2. i - 1 \in Nat /\ i - 1 < 3 * m
      BY <1>1, <1>6
    <3>3. g \in Nat /\ r \in Nat /\ i - 1 = 3 * g + r /\ (r = 0 \/ r = 1 \/ r = 2)
      BY <3>1, <3>2
    <3> HIDE DEF g, r
    <3> QED BY <1>6, <3>2, <3>3
  <2>2. byte(i - 1) = (bits(g) \div w) % 256
    OBVIOUS
  <2> HIDE DEF g, r, byte, w
  <2>3. a \in Byte /\ b \in Byte /\ c \in Byte
    BY <2>1, PaddedIs
  <2>4. bits(g) = (a * 256 + b) * 256 + c
    BY <1>5, <2>1
  <2> HIDE DEF a, b, c
  <2>5. (bits(g) \div 65536) % 256 = a /\ (bits(g) \div 256) % 256 = b /\ bits(g) % 256 = c
    BY <2>3, <2>4, BytesAre
  <2>6. src[i] = Padded(src, i)
    <3>1. i <= Len(src)
      BY <1>1, <1>6
    <3> QED BY <3>1 DEF Padded
  <2>7. bits(g) \in Int
    BY <2>3, <2>4, ByteIs
  <2>8. CASE r = 0
    <3>1. 2 - r = 2 /\ i = 3 * g + 1
      BY <2>1, <2>8
    <3>2. byte(i - 1) = (bits(g) \div 65536) % 256
      <4>1. w = 256 ^ 2
        BY <3>1 DEF w
      <4>2. w = 65536
        BY <4>1, Pow
      <4> QED BY <2>2, <4>2
    <3> QED BY <2>5, <2>6, <3>1, <3>2 DEF a
  <2>9. CASE r = 1
    <3>1. 2 - r = 1 /\ i = 3 * g + 2
      BY <2>1, <2>9
    <3>2. byte(i - 1) = (bits(g) \div 256) % 256
      <4>1. w = 256 ^ 1
        BY <3>1 DEF w
      <4>2. w = 256
        BY <4>1, Pow
      <4> QED BY <2>2, <4>2
    <3> QED BY <2>5, <2>6, <3>1, <3>2 DEF b
  <2>10. CASE r = 2
    <3>1. 2 - r = 0 /\ i = 3 * g + 3
      BY <2>1, <2>10
    <3>2. byte(i - 1) = (bits(g) \div 1) % 256
      <4>1. w = 256 ^ 0
        BY <3>1 DEF w
      <4>2. w = 1
        BY <4>1, Pow
      <4> QED BY <2>2, <4>2
    <3>3. bits(g) \div 1 = bits(g)
      BY <2>7
    <3> QED BY <2>5, <2>6, <3>1, <3>2, <3>3 DEF c
  <2> QED BY <2>1, <2>8, <2>9, <2>10
<1> HIDE DEF byte
<1>7. Decode64(text).data = [i \in 1 .. H |-> byte(i - 1)]
  BY <1>1, <1>2, <1>3
<1>8. [i \in 1 .. H |-> byte(i - 1)] = [i \in 1 .. H |-> src[i]]
  BY <1>1, <1>6
<1>9. Decode64(text).ok
  BY <1>1, <1>2, <1>3
<1> QED BY <1>7, <1>8, <1>9 DEF H

\* An encoding without escapes is decoded to the bytes it holds, all of them when
\* it is complete.
LEMMA EncodedThenDecoded ==
  ASSUME NEW b \in Buffers, NoPercent(Encode64(b).text)
  PROVE  LET back == Decode64(Encode64(b).text) IN
           /\ back.ok
           /\ IsPrefix(back.data, b.src)
           /\ Encode64(b).ok => back.data = b.src
<1> DEFINE text == Encode64(b).text
           back == Decode64(text)
           src  == b.src
<1>1. PICK m, st : /\ SoFar(b, Groups(b), m, st)
                   /\ Encode64(b).text = st.text /\ Encode64(b).ok = (st.next > Len(b.src))
  BY EncodeIs
<1>2. src \in Seq(Byte) /\ b.url \in BOOLEAN
  BY BufferIs
<1>3. /\ m \in Nat /\ 3 * m < Len(src) + 3 /\ st.next = 3 * m + 1 /\ st.text \in Seq(Nat)
      /\ EncodingOf(src, b.url, m, st.text)
  BY <1>1 DEF SoFar
<1>4. back.ok /\ back.data = [i \in 1 .. Held(src, m) |-> src[i]]
  <2>1. Decode64(st.text).ok /\ Decode64(st.text).data = [i \in 1 .. Held(src, m) |-> src[i]]
    <3> HIDE DEF src
    <3> QED BY <1>2, <1>3, DecodedIs
  <2> QED BY <1>1, <2>1
<1> HIDE DEF text, back, src
<1>5. Len(src) \in Nat /\ Held(src, m) \in Nat /\ Held(src, m) <= Len(src)
  BY <1>2, <1>3, Counted
<1>6. IsPrefix(back.data, src)
  <2> DEFINE H == Held(src, m)
             d == [i \in 1 .. H |-> src[i]]
  <2>1. d = SubSeq(src, 1, H)
    BY <1>2, <1>5
  <2>2. d \in Seq(Byte) /\ Len(d) = H
    BY <1>2, <1>5
  <2>3. SubSeq(d, 1, H) = d
    BY <1>5, <2>2
  <2> HIDE DEF d, H
  <2>4. back.data = d
    BY <1>4 DEF d, H
  <2>5. H <= Len(src)
    BY <1>5 DEF H
  <2> QED BY <2>1, <2>2, <2>4, <2>5, <2>3 DEF IsPrefix
<1>7. ASSUME Encode64(b).ok PROVE back.data = src
  <2>1. 3 * m + 1 > Len(src)
    BY <1>1, <1>3, <1>7 DEF src
  <2>2. Held(src, m) = Len(src)
    BY <1>3, <1>5, <2>1 DEF Held
  <2>3. src = [i \in 1 .. Len(src) |-> src[i]]
    BY <1>2
  <2> QED BY <1>4, <2>2, <2>3
<1> QED BY <1>4, <1>6, <1>7 DEF back, text, src

-----------------------------------------------------------------------------
(* UTF-8 *)

\* The powers of 64 in the forms.
LEMMA Pow64 == 64 ^ 0 = 1 /\ 64 ^ 1 = 64 /\ 64 ^ 2 = 4096 /\ 64 ^ 3 = (64 * 4096)
OBVIOUS

\* A point without a form is behind all of the shorter forms.
LEMMA FormsBelow == \A u \in Nat : ~ HasForm(u) => u >= 65536
BY SMTT(60) DEF HasForm

\* A point takes as many bytes as it has passed limits, and one more.
LEMMA WidthIs ==
  ASSUME NEW u \in Nat
  PROVE  Width(u) = IF u < 128 THEN 1 ELSE IF u < 2048 THEN 2
                    ELSE IF u < 65536 THEN 3 ELSE IF HasForm(u) THEN 4 ELSE 5
<1> DEFINE T == {n \in 1 .. 4 : u >= Utf8Limits[n]}
<1>1. \A n \in 1 .. 4 : n = 1 \/ n = 2 \/ n = 3 \/ n = 4
  OBVIOUS
<1>2. /\ Utf8Limits[1] = 128 /\ Utf8Limits[2] = 2048
      /\ Utf8Limits[3] = 65536 /\ (u >= Utf8Limits[4] <=> ~ HasForm(u))
  BY SMTT(60) DEF Utf8Limits, HasForm
<1>3. ~ HasForm(u) => u >= 65536
  BY FormsBelow
<1>4. \A m \in Nat : Cardinality(1 .. m) = m
  <2> SUFFICES ASSUME NEW m \in Nat PROVE Cardinality(1 .. m) = m
    OBVIOUS
  <2>1. Cardinality(1 .. m) = IF 1 > m THEN 0 ELSE m - 1 + 1
    BY FS_Interval
  <2> QED BY <2>1
<1>5. Width(u) = Cardinality(T) + 1
  BY DEF Width
<1>6. ASSUME NEW m \in Nat, m <= 4, m >= 1 => u >= Utf8Limits[m], m < 4 => ~ (u >= Utf8Limits[m + 1])
      PROVE  Width(u) = m + 1
  <2>1. \A n \in 1 .. 4 : u >= Utf8Limits[n] <=> n <= m
    <3>1. m = 0 \/ m = 1 \/ m = 2 \/ m = 3 \/ m = 4
      BY <1>6
    <3>2. CASE m = 0
      BY <1>1, <1>2, <1>3, <1>6, <3>2
    <3>3. CASE m = 1
      BY <1>1, <1>2, <1>3, <1>6, <3>3
    <3>4. CASE m = 2
      BY <1>1, <1>2, <1>3, <1>6, <3>4
    <3>5. CASE m = 3
      BY <1>1, <1>2, <1>3, <1>6, <3>5
    <3>6. CASE m = 4
      BY <1>1, <1>2, <1>3, <1>6, <3>6
    <3> QED BY <3>1, <3>2, <3>3, <3>4, <3>5, <3>6
  <2>2. T = 1 .. m
    <3>1. \A n : n \in T <=> n \in 1 .. 4 /\ n <= m
      BY <2>1
    <3> HIDE DEF T
    <3>2. \A n : n \in 1 .. 4 /\ n <= m <=> n \in 1 .. m
      BY <1>6
    <3> QED BY <3>1, <3>2, Zenon
  <2> HIDE DEF T
  <2>3. Cardinality(T) = m
    BY <1>4, <2>2
  <2> QED BY <1>5, <2>3
<1>7. CASE u < 128
  BY <1>2, <1>3, <1>6, <1>7, 0 + 1 = 1
<1>8. CASE ~ (u < 128) /\ u < 2048
  BY <1>2, <1>3, <1>6, <1>8, 1 + 1 = 2
<1>9. CASE ~ (u < 2048) /\ u < 65536
  BY <1>2, <1>3, <1>6, <1>9, 2 + 1 = 3
<1>10. CASE ~ (u < 65536) /\ HasForm(u)
  BY <1>2, <1>3, <1>6, <1>10, 3 + 1 = 4
<1>11. CASE ~ HasForm(u)
  BY <1>2, <1>3, <1>6, <1>11, 4 + 1 = 5
<1> QED BY <1>7, <1>8, <1>9, <1>10, <1>11

\* What the form of a point is, by its limits.
TrailByte(n) == 128 + (n % 64)
IsForm(u, e) ==
  /\ e \in Seq(Nat)
  /\ u < 128 => Len(e) = 1 /\ e[1] = u
  /\ 128 <= u /\ u < 2048 => Len(e) = 2 /\ e[1] = 192 + (u \div 64) /\ e[2] = TrailByte(u)
  /\ 2048 <= u /\ u < 65536 =>
       Len(e) = 3 /\ e[1] = 224 + (u \div 4096) /\ e[2] = TrailByte(u \div 64) /\ e[3] = TrailByte(u)
  /\ 65536 <= u /\ HasForm(u) =>
       /\ Len(e) = 4 /\ e[1] = 240 + (u \div (64 * 4096))
       /\ e[2] = TrailByte(u \div 4096) /\ e[3] = TrailByte(u \div 64) /\ e[4] = TrailByte(u)
  /\ ~ HasForm(u) => Len(e) = 0

\* The four forms.
LEMMA FormIs == ASSUME NEW u \in Nat PROVE IsForm(u, Utf8Encode(u))
<1> DEFINE e == Utf8Encode(u)
<1> SUFFICES IsForm(u, e)
  OBVIOUS
<1>1. /\ TrailByte(u) \in Nat /\ TrailByte(u \div 64) \in Nat /\ TrailByte(u \div 4096) \in Nat
      /\ 192 + (u \div 64) \in Nat /\ 224 + (u \div 4096) \in Nat /\ 240 + (u \div (64 * 4096)) \in Nat
  BY DEF TrailByte
<1>2. Trail(u, 0) = TrailByte(u) /\ Trail(u, 1) = TrailByte(u \div 64) /\ Trail(u, 2) = TrailByte(u \div 4096)
  <2>1. u \div 1 = u
    OBVIOUS
  <2>2. Trail(u, 0) = 128 + ((u \div 1) % 64)
    BY Pow64 DEF Trail, TrailByte
  <2>3. Trail(u, 1) = 128 + ((u \div 64) % 64)
    BY Pow64 DEF Trail, TrailByte
  <2>4. Trail(u, 2) = 128 + ((u \div 4096) % 64)
    BY Pow64 DEF Trail, TrailByte
  <2> QED BY <2>1, <2>2, <2>3, <2>4 DEF TrailByte
<1>3. ~ HasForm(u) => u >= 65536
  BY FormsBelow
<1>4. CASE u < 128
  <2>1. Width(u) = 1
    BY <1>3, <1>4, WidthIs
  <2>2. e = <<u>>
    BY <2>1 DEF Utf8Encode
  <2> HIDE DEF e
  <2> QED BY <1>3, <1>4, <2>2 DEF IsForm
<1>5. CASE ~ (u < 128) /\ u < 2048
  <2>1. Width(u) = 2
    BY <1>3, <1>5, WidthIs
  <2>2. e = <<192 + (u \div 64), TrailByte(u)>>
    BY <1>2, <2>1 DEF Utf8Encode
  <2> DEFINE x == 192 + (u \div 64)
  <2> HIDE DEF e, x
  <2>3. e = <<x, TrailByte(u)>> /\ x \in Nat
    BY <1>1, <2>2 DEF x
  <2>4. e \in Seq(Nat) /\ Len(e) = 2 /\ e[1] = x /\ e[2] = TrailByte(u)
    BY <1>1, <2>3
  <2> QED BY <1>3, <1>5, <2>4 DEF IsForm, x
<1>6. CASE ~ (u < 2048) /\ u < 65536
  <2>1. Width(u) = 3
    BY <1>3, <1>6, WidthIs
  <2>2. e = <<224 + (u \div 4096), TrailByte(u \div 64), TrailByte(u)>>
    BY <1>2, <2>1, Pow64 DEF Utf8Encode
  <2> DEFINE x == 224 + (u \div 4096)
             y == TrailByte(u \div 64)
  <2> HIDE DEF e, x, y
  <2>3. e = <<x, y, TrailByte(u)>> /\ x \in Nat /\ y \in Nat
    BY <1>1, <2>2 DEF x, y
  <2>4. e \in Seq(Nat) /\ Len(e) = 3 /\ e[1] = x /\ e[2] = y /\ e[3] = TrailByte(u)
    BY <1>1, <2>3
  <2> QED BY <1>3, <1>6, <2>4 DEF IsForm, x, y
<1>7. CASE ~ (u < 65536) /\ HasForm(u)
  <2>1. Width(u) = 4
    BY <1>3, <1>7, WidthIs
  <2>2. e = <<240 + (u \div (64 * 4096)), TrailByte(u \div 4096), TrailByte(u \div 64), TrailByte(u)>>
    BY <1>2, <2>1, Pow64 DEF Utf8Encode
  <2> DEFINE x == 240 + (u \div (64 * 4096))
             y == TrailByte(u \div 4096)
             z == TrailByte(u \div 64)
  <2> HIDE DEF e, x, y, z
  <2>3. e = <<x, y, z, TrailByte(u)>> /\ x \in Nat /\ y \in Nat /\ z \in Nat
    BY <1>1, <2>2 DEF x, y, z
  <2>4. e \in Seq(Nat) /\ Len(e) = 4 /\ e[1] = x /\ e[2] = y /\ e[3] = z /\ e[4] = TrailByte(u)
    BY <1>1, <2>3
  <2> QED BY <1>3, <1>7, <2>4 DEF IsForm, x, y, z
<1>8. CASE ~ HasForm(u)
  <2>1. Width(u) = 5
    BY <1>3, <1>8, WidthIs
  <2>2. e = <<>>
    BY <2>1 DEF Utf8Encode
  <2> HIDE DEF e
  <2>3. e \in Seq(Nat) /\ Len(e) = 0
    BY <2>2
  <2> QED BY <1>3, <1>8, <2>3 DEF IsForm
<1> QED BY <1>4, <1>5, <1>6, <1>7, <1>8

\* The bits by which the first byte tells the forms apart.
LEMMA TrailingIs ==
  ASSUME NEW b \in Nat, b < 256
  PROVE  /\ b < 128 => Trailing(b) = 0
         /\ 192 <= b /\ b < 224 => Trailing(b) = 1
         /\ 224 <= b /\ b < 240 => Trailing(b) = 2
         /\ 240 <= b /\ b < 248 => Trailing(b) = 3
BY DEF Trailing, Bit

\* The bits of a point, put together again.
LEMMA BitsBack ==
  \A u \in Nat :
    /\ u < 2048 => ((192 + (u \div 64)) % 32) * 64 + ((128 + (u % 64)) % 64) = u
    /\ u < 65536 =>
         (((224 + (u \div 4096)) % 16) * 64 + ((128 + ((u \div 64) % 64)) % 64)) * 64
           + ((128 + (u % 64)) % 64) = u
    /\ HasForm(u) =>
         ((((240 + (u \div (64 * 4096))) % 8) * 64 + ((128 + ((u \div 4096) % 64)) % 64)) * 64
           + ((128 + ((u \div 64) % 64)) % 64)) * 64 + ((128 + (u % 64)) % 64) = u
BY SMTT(60) DEF HasForm

\* A form is read back as its point, and half a form as no point.
LEMMA FormRead ==
  ASSUME NEW u \in Nat, HasForm(u), NEW r \in Seq(Nat), Len(r) >= 1,
         \A i \in Nat : 1 <= i /\ i <= Len(r) /\ i <= Len(Utf8Encode(u)) => r[i] = Utf8Encode(u)[i]
  PROVE  LET n == Len(Utf8Encode(u)) IN
           /\ n \in Nat /\ n >= 1
           /\ Len(r) >= n => Utf8Decode(r).read = n /\ Utf8Decode(r).point = u
           /\ ~ (Len(r) >= n) => Utf8Decode(r).read = 0 \/ Utf8Decode(r).read = SizeLimit - 1
<1> DEFINE e == Utf8Encode(u)
           n == Len(e)
           d == Utf8Decode(r)
<1>1. IsForm(u, e)
  BY FormIs
<1>2. \A i \in Nat : 1 <= i /\ i <= Len(r) /\ i <= n => r[i] = e[i]
  OBVIOUS
<1> HIDE DEF e, n
<1>3. Len(r) \in Nat
  OBVIOUS
<1>4. u < 128 \/ (128 <= u /\ u < 2048) \/ (2048 <= u /\ u < 65536) \/ (65536 <= u /\ HasForm(u))
  OBVIOUS
<1> DEFINE b(i) == r[i] % 64
<1>5. \A m \in {0, 1, 2, 3} : Trailing(r[1]) = m =>
        IF Len(r) - 1 < m THEN d.read = IF m = 1 THEN SizeLimit - 1 ELSE 0
        ELSE /\ d.read = m + 1
             /\ m = 0 => d.point = r[1]
             /\ m = 1 => d.point = (r[1] % 32) * 64 + b(2)
             /\ m = 2 => d.point = ((r[1] % 16) * 64 + b(2)) * 64 + b(3)
             /\ m = 3 => d.point = (((r[1] % 8) * 64 + b(2)) * 64 + b(3)) * 64 + b(4)
  BY DEF Utf8Decode
<1> HIDE DEF d
<1>6. CASE u < 128
  <2>0. n = 1 /\ e[1] = u
    BY <1>1, <1>6 DEF IsForm, n
  <2>1. n = 1 /\ r[1] = u
    BY <1>2, <1>3, <2>0
  <2>2. Trailing(r[1]) = 0
    BY <1>6, <2>1, TrailingIs
  <2>3. d.read = 1 /\ d.point = r[1]
    <3> HIDE DEF b
    <3> QED BY <1>3, <1>5, <2>2
  <2> QED BY <2>1, <2>3 DEF d, n, e
<1>7. CASE 128 <= u /\ u < 2048
  <2>0. n = 2 /\ e[1] = 192 + (u \div 64) /\ e[2] = TrailByte(u)
    BY <1>1, <1>7 DEF IsForm, n
  <2>1. n = 2 /\ r[1] = 192 + (u \div 64)
    BY <1>2, <1>3, <2>0
  <2>2. Trailing(r[1]) = 1
    <3>1. 192 + (u \div 64) \in Nat /\ 192 <= 192 + (u \div 64) /\ 192 + (u \div 64) < 224
      BY <1>7
    <3> QED BY <2>1, <3>1, TrailingIs
  <2>3. ASSUME Len(r) >= 2 PROVE d.read = 2 /\ d.point = u
    <3>1. r[2] = TrailByte(u)
      BY <1>2, <1>3, <2>0, <2>3
    <3>2. d.read = 2 /\ d.point = (r[1] % 32) * 64 + b(2)
      BY <1>3, <1>5, <2>2, <2>3
    <3> QED BY <1>7, <2>1, <3>1, <3>2, BitsBack DEF TrailByte
  <2>4. ~ (Len(r) >= 2) => d.read = SizeLimit - 1
    BY <1>3, <1>5, <2>2
  <2> QED BY <2>1, <2>3, <2>4 DEF d, n, e
<1>8. CASE 2048 <= u /\ u < 65536
  <2>0. n = 3 /\ e[1] = 224 + (u \div 4096) /\ e[2] = TrailByte(u \div 64) /\ e[3] = TrailByte(u)
    BY <1>1, <1>8 DEF IsForm, n
  <2>1. n = 3 /\ r[1] = 224 + (u \div 4096)
    BY <1>2, <1>3, <2>0
  <2>2. Trailing(r[1]) = 2
    <3>1. 224 + (u \div 4096) \in Nat /\ 224 <= 224 + (u \div 4096) /\ 224 + (u \div 4096) < 240
      BY <1>8
    <3> QED BY <2>1, <3>1, TrailingIs
  <2>3. ASSUME Len(r) >= 3 PROVE d.read = 3 /\ d.point = u
    <3>1. r[2] = TrailByte(u \div 64) /\ r[3] = TrailByte(u)
      BY <1>2, <1>3, <2>0, <2>3
    <3>2. d.read = 3 /\ d.point = ((r[1] % 16) * 64 + b(2)) * 64 + b(3)
      BY <1>3, <1>5, <2>2, <2>3
    <3> QED BY <1>8, <2>1, <3>1, <3>2, BitsBack DEF TrailByte
  <2>4. ~ (Len(r) >= 3) => d.read = 0
    BY <1>3, <1>5, <2>2
  <2> QED BY <2>1, <2>3, <2>4 DEF d, n, e
<1>9. CASE 65536 <= u /\ HasForm(u)
  <2>0. /\ n = 4 /\ e[1] = 240 + (u \div (64 * 4096))
       /\ e[2] = TrailByte(u \div 4096) /\ e[3] = TrailByte(u \div 64) /\ e[4] = TrailByte(u)
    BY <1>1, <1>9 DEF IsForm, n
  <2>1. n = 4 /\ r[1] = 240 + (u \div (64 * 4096))
    BY <1>2, <1>3, <2>0
  <2>2. Trailing(r[1]) = 3
    <3>1. /\ 240 + (u \div (64 * 4096)) \in Nat /\ 240 <= 240 + (u \div (64 * 4096))
          /\ 240 + (u \div (64 * 4096)) < 248
      BY <1>9, SMTT(60) DEF HasForm
    <3> QED BY <2>1, <3>1, TrailingIs
  <2>3. ASSUME Len(r) >= 4 PROVE d.read = 4 /\ d.point = u
    <3>1. r[2] = TrailByte(u \div 4096) /\ r[3] = TrailByte(u \div 64) /\ r[4] = TrailByte(u)
      BY <1>2, <1>3, <2>0, <2>3
    <3>2. d.read = 4 /\ d.point = (((r[1] % 8) * 64 + b(2)) * 64 + b(3)) * 64 + b(4)
      BY <1>3, <1>5, <2>2, <2>3
    <3> QED BY <1>9, <2>1, <3>1, <3>2, BitsBack DEF TrailByte
  <2>4. ~ (Len(r) >= 4) => d.read = 0
    BY <1>3, <1>5, <2>2
  <2> QED BY <2>1, <2>3, <2>4 DEF d, n, e
<1> QED BY <1>4, <1>6, <1>7, <1>8, <1>9

\* What the encodings of the first k points are, for every k.
TextsAre(points, t) ==
  /\ t[0] = <<>>
  /\ \A k \in 1 .. Len(points) :
       t[k - 1] \in Seq(Nat) /\ t[k] \in Seq(Nat) /\ t[k] = t[k - 1] \o Utf8Encode(points[k])

\* The text of a list of points is well defined.
LEMMA TextIs ==
  ASSUME NEW points \in Seq(Nat)
  PROVE  TextsAre(points, Utf8Texts(points))
<1> DEFINE n == Len(points)
           S == Seq(Nat)
           step == [k \in 1 .. n |-> [w \in S |-> w \o Utf8Encode(points[k])]]
           P(t) == t = [k \in 0 .. n |-> IF k = 0 THEN <<>> ELSE t[k - 1] \o Utf8Encode(points[k])]
<1>1. n \in Nat
  OBVIOUS
<1>2. ASSUME NEW k \in 1 .. n PROVE Utf8Encode(points[k]) \in S
  <2>1. points[k] \in Nat
    OBVIOUS
  <2>2. IsForm(points[k], Utf8Encode(points[k]))
    BY <2>1, FormIs
  <2> QED BY <2>2 DEF IsForm
<1>3. \A k \in 1 .. n, w \in S : step[k][w] \in S
  BY <1>2
<1>4. <<>> \in S
  OBVIOUS
<1>5. PICK f : Loop(S, n, <<>>, step, f)
  <2> HIDE DEF n, S, step
  <2> QED BY <1>1, <1>3, <1>4, LoopDefined
<1>6. \A k \in 0 .. n : k # 0 => k \in 1 .. n /\ k - 1 \in 0 .. n
  BY <1>1
<1>7. f[0] = <<>> /\ \A k \in 0 .. n : f[k] \in S
  <2> HIDE DEF S, n
  <2> QED BY <1>5 DEF Loop
<1>8. \A k \in 1 .. n : k \in 0 .. n /\ k - 1 \in 0 .. n /\ k # 0
  BY <1>1
<1>9. ASSUME NEW k \in 1 .. n PROVE f[k] = f[k - 1] \o Utf8Encode(points[k])
  <2>1. f[k - 1] \in S /\ f[k] = step[k][f[k - 1]]
    <3> HIDE DEF S, n, step
    <3> QED BY <1>5, <1>7, <1>8 DEF Loop
  <2> QED BY <2>1
<1>10. P(f)
  <2>1. \A k \in 0 .. n :
          f[k] = IF k = 0 THEN <<>> ELSE f[k - 1] \o Utf8Encode(points[k])
    <3> HIDE DEF n, S
    <3> QED BY <1>6, <1>7, <1>9
  <2>2. f = [k \in 0 .. n |-> f[k]]
    <3> HIDE DEF n, S, step
    <3> QED BY <1>5 DEF Loop
  <2> HIDE DEF n, S
  <2> QED BY <2>1, <2>2
<1>11. Utf8Texts(points) = CHOOSE t : P(t)
  BY DEF Utf8Texts
<1>12. P(Utf8Texts(points))
  <2>1. \E t : P(t)
    <3> HIDE DEF P
    <3> QED BY <1>10
  <2> HIDE DEF P
  <2> QED BY <1>11, <2>1
<1> DEFINE t == Utf8Texts(points)
<1>13. \A k \in 0 .. n :
         t[k] = IF k = 0 THEN <<>> ELSE t[k - 1] \o Utf8Encode(points[k])
  <2>1. t = [k \in 0 .. n |-> IF k = 0 THEN <<>> ELSE t[k - 1] \o Utf8Encode(points[k])]
    BY <1>12
  <2> HIDE DEF t, n
  <2>2. \A k \in 0 .. n :
          [i \in 0 .. n |-> IF i = 0 THEN <<>> ELSE t[i - 1] \o Utf8Encode(points[i])][k]
            = IF k = 0 THEN <<>> ELSE t[k - 1] \o Utf8Encode(points[k])
    OBVIOUS
  <2> QED BY <2>1, <2>2
<1> HIDE DEF t, P
<1> DEFINE T == {k \in Nat : k <= n /\ t[k] \notin S}
<1>14. T = {}
  <2> SUFFICES ASSUME T # {} PROVE FALSE
    OBVIOUS
  <2>1. PICK k \in T : \A j \in T : k <= j
    <3>1. T \in SUBSET Nat
      OBVIOUS
    <3> HIDE DEF T
    <3> QED BY <3>1, LeastNat
  <2>2. k \in 0 .. n /\ t[k] \notin S
    OBVIOUS
  <2>3. k # 0
    <3> HIDE DEF S, T
    <3> QED BY <1>4, <1>13, <2>2
  <2>4. k \in 1 .. n /\ k - 1 \in Nat /\ k - 1 <= n /\ ~ (k <= k - 1)
    BY <1>1, <2>2, <2>3
  <2>5. t[k - 1] \in S
    BY <2>1, <2>4
  <2>6. t[k] = t[k - 1] \o Utf8Encode(points[k])
    <3> HIDE DEF n
    <3> QED BY <1>13, <2>2, <2>3
  <2> QED BY <1>2, <2>2, <2>4, <2>5, <2>6
<1>15. \A k \in 0 .. n : t[k] \in S
  <2>1. \A k \in 0 .. n : k \in Nat /\ k <= n
    BY <1>1
  <2> HIDE DEF S, n
  <2>2. \A k \in Nat : k \notin T => ~ (k <= n /\ t[k] \notin S)
    OBVIOUS
  <2> HIDE DEF T
  <2> QED BY <1>14, <2>1, <2>2
<1>16. 0 \in 0 .. n
  BY <1>1
<1>17. t[0] = <<>>
  <2> HIDE DEF n
  <2> QED BY <1>13, <1>16
<1>18. \A k \in 1 .. n : t[k - 1] \in S /\ t[k] \in S /\ t[k] = t[k - 1] \o Utf8Encode(points[k])
  <2> HIDE DEF n, S
  <2> QED BY <1>8, <1>13, <1>15
<1> QED BY <1>17, <1>18 DEF TextsAre, t

\* What the first k points with a form are, for every k.
FormedAre(points, f) ==
  /\ f[0] = <<>>
  /\ \A k \in 1 .. Len(points) :
       f[k] = IF HasForm(points[k]) THEN Append(f[k - 1], points[k]) ELSE f[k - 1]

\* They are well defined.
LEMMA FormedIs ==
  ASSUME NEW points \in Seq(Nat)
  PROVE  FormedAre(points, Formed(points))
<1> DEFINE n == Len(points)
           S == Seq(Nat)
           More(k, w) == IF HasForm(points[k]) THEN Append(w, points[k]) ELSE w
           step == [k \in 1 .. n |-> [w \in S |-> More(k, w)]]
           P(g) == g = [k \in 0 .. n |-> IF k = 0 THEN <<>> ELSE More(k, g[k - 1])]
<1>1. n \in Nat /\ <<>> \in S
  OBVIOUS
<1>2. \A k \in 1 .. n, w \in S : More(k, w) \in S
  OBVIOUS
<1>3. Formed(points) = CHOOSE g : P(g)
  BY DEF Formed
<1> HIDE DEF S, More
<1>4. \A k \in 1 .. n, w \in S : step[k][w] = More(k, w) /\ step[k][w] \in S
  BY <1>2
<1>5. PICK g : Loop(S, n, <<>>, step, g)
  <2> HIDE DEF n, step
  <2> QED BY <1>1, <1>4, LoopDefined
<1> HIDE DEF step
<1>6. \A k \in 0 .. n : k # 0 => k \in 1 .. n /\ k - 1 \in 0 .. n
  BY <1>1
<1> HIDE DEF n
<1>7. g[0] = <<>> /\ \A k \in 0 .. n : g[k] \in S
  BY <1>5 DEF Loop
<1>8. \A k \in 1 .. n : g[k] = step[k][g[k - 1]]
  BY <1>5 DEF Loop
<1>9. \A k \in 0 .. n : g[k] = IF k = 0 THEN <<>> ELSE More(k, g[k - 1])
  BY <1>4, <1>6, <1>7, <1>8
<1>10. g = [k \in 0 .. n |-> g[k]]
  BY <1>5 DEF Loop
<1>11. P(g)
  BY <1>9, <1>10
<1>12. P(Formed(points))
  <2>1. \E h : P(h)
    <3> HIDE DEF P
    <3> QED BY <1>11
  <2> HIDE DEF P
  <2> QED BY <1>3, <2>1
<1> DEFINE f == Formed(points)
<1>13. \A k \in 0 .. n : f[k] = IF k = 0 THEN <<>> ELSE More(k, f[k - 1])
  <2>1. f = [k \in 0 .. n |-> IF k = 0 THEN <<>> ELSE More(k, f[k - 1])]
    BY <1>12
  <2> HIDE DEF f, P
  <2>2. \A k \in 0 .. n :
          [i \in 0 .. n |-> IF i = 0 THEN <<>> ELSE More(i, f[i - 1])][k]
            = IF k = 0 THEN <<>> ELSE More(k, f[k - 1])
    OBVIOUS
  <2> QED BY <2>1, <2>2
<1> HIDE DEF f, P
<1>14. 0 \in 0 .. n /\ \A k \in 1 .. n : k \in 0 .. n /\ k # 0
  BY <1>1
<1>15. f[0] = <<>>
  BY <1>13, <1>14
<1>16. \A k \in 1 .. n : f[k] = More(k, f[k - 1])
  BY <1>13, <1>14
<1> QED BY <1>15, <1>16 DEF FormedAre, f, More, n

\* The text of the first k points is where the text of the first j starts, and
\* what the longer list has more in vain has no form.
Grown(points, t, f, k, j) ==
  /\ Len(t[k]) <= Len(t[j])
  /\ \A i \in Nat : 1 <= i /\ i <= Len(t[k]) => t[j][i] = t[k][i]
  /\ Len(t[k]) = Len(t[j]) => f[k] = f[j]

\* A point with a form has at least one byte, the others none.
LEMMA FormOrNone ==
  ASSUME NEW u \in Nat
  PROVE  /\ Utf8Encode(u) \in Seq(Nat)
         /\ HasForm(u) => Len(Utf8Encode(u)) >= 1
         /\ ~ HasForm(u) => Len(Utf8Encode(u)) = 0
<1> DEFINE e == Utf8Encode(u)
<1>1. IsForm(u, e)
  BY FormIs
<1> HIDE DEF e
<1>2. u < 128 \/ (128 <= u /\ u < 2048) \/ (2048 <= u /\ u < 65536)
        \/ (65536 <= u /\ HasForm(u)) \/ ~ HasForm(u)
  OBVIOUS
<1>3. /\ e \in Seq(Nat) /\ (HasForm(u) => Len(e) >= 1) /\ (~ HasForm(u) => Len(e) = 0)
  BY <1>1, <1>2 DEF IsForm
<1> QED BY <1>3 DEF e

\* A text only grows at its end.
LEMMA TextGrows ==
  ASSUME NEW points \in Seq(Nat), NEW t, TextsAre(points, t), NEW f, FormedAre(points, f),
         NEW k \in Nat, NEW m \in Nat, k <= m, m <= Len(points)
  PROVE  Grown(points, t, f, k, m)
<1> DEFINE n == Len(points)
           T == {j \in Nat : k <= j /\ j <= n /\ ~ Grown(points, t, f, k, j)}
<1>1. n \in Nat
  OBVIOUS
<1>2. SUFFICES ASSUME T # {} PROVE FALSE
  <2>1. m \notin T => Grown(points, t, f, k, m)
    OBVIOUS
  <2> HIDE DEF T
  <2> QED BY <2>1
<1>3. PICK j \in T : \A i \in T : j <= i
  <2>1. T \in SUBSET Nat
    OBVIOUS
  <2> HIDE DEF T
  <2> QED BY <1>2, <2>1, LeastNat
<1>4. j \in Nat /\ k <= j /\ j <= n /\ ~ Grown(points, t, f, k, j)
  OBVIOUS
<1>5. j # k
  BY <1>4 DEF Grown
<1>6. j \in 1 .. n /\ j - 1 \in Nat /\ k <= j - 1 /\ j - 1 <= n /\ ~ (j <= j - 1)
  BY <1>1, <1>4, <1>5
<1>7. Grown(points, t, f, k, j - 1)
  BY <1>3, <1>6
<1> DEFINE e == Utf8Encode(points[j])
           a == t[j - 1]
           b == t[j]
<1>8. a \in Seq(Nat) /\ b = a \o e /\ b \in Seq(Nat)
  BY <1>6 DEF TextsAre
<1>9. points[j] \in Nat
  BY <1>6
<1>10. e \in Seq(Nat) /\ (~ HasForm(points[j]) \/ Len(e) >= 1)
  BY <1>9, FormOrNone
<1>11. ~ HasForm(points[j]) => f[j] = f[j - 1]
  <2> HIDE DEF n
  <2> QED BY <1>6 DEF FormedAre, n
<1> HIDE DEF e
<1>12. Len(b) = Len(a) + Len(e) /\ Len(a) \in Nat /\ Len(e) \in Nat
  BY <1>8, <1>10
<1>13. \A i \in Nat : 1 <= i /\ i <= Len(a) => b[i] = a[i]
  BY <1>8, <1>10
<1> DEFINE c == t[k]
<1>14. /\ Len(c) <= Len(a)
       /\ \A i \in Nat : 1 <= i /\ i <= Len(c) => a[i] = c[i]
       /\ Len(c) = Len(a) => f[k] = f[j - 1]
  BY <1>7 DEF Grown
<1>15. Len(c) \in Nat
  <2>1. k = 0 \/ k \in 1 .. n
    BY <1>1, <1>4
  <2>2. k = 0 => Len(c) = 0
    BY DEF TextsAre
  <2>3. k \in 1 .. n => c \in Seq(Nat)
    BY DEF TextsAre
  <2> HIDE DEF c
  <2> QED BY <2>1, <2>2, <2>3
<1> HIDE DEF a, b, c
<1>16. /\ Len(c) <= Len(b)
       /\ \A i \in Nat : 1 <= i /\ i <= Len(c) => b[i] = c[i]
       /\ Len(c) = Len(b) => f[k] = f[j]
  BY SMTT(60), <1>10, <1>11, <1>12, <1>13, <1>14, <1>15
<1>17. Grown(points, t, f, k, j)
  BY <1>16 DEF Grown, b, c
<1> QED BY <1>4, <1>17

\* The bytes from a position on.
LEMMA BytesFrom ==
  ASSUME NEW w \in Seq(Nat), NEW i \in Nat, i < Len(w)
  PROVE  /\ From(w, i) \in Seq(Nat) /\ Len(From(w, i)) = Len(w) - i
         /\ \A j \in Nat : 1 <= j /\ j <= Len(w) - i => From(w, i)[j] = w[i + j]
<1>1. Len(w) \in Nat
  OBVIOUS
<1>2. \A j \in 1 .. Len(w) : w[j] \in Nat
  OBVIOUS
<1>3. From(w, i) \in Seq(Nat)
  BY <1>1, <1>2 DEF From
<1>4. Len(From(w, i)) = Len(w) - i
  BY <1>1 DEF From
<1>5. ASSUME NEW j \in Nat, 1 <= j, j <= Len(w) - i PROVE From(w, i)[j] = w[i + j]
  BY <1>1, <1>5 DEF From
<1> QED BY <1>3, <1>4, <1>5

\* What a pass of the caller's loop leaves.
Passes == [at : Nat, points : Seq(Nat)]

\* The decoder's answer about bytes, if it is a number of them, comes with a point.
LEMMA DecodeTyped ==
  ASSUME NEW r \in Seq(Nat), Len(r) >= 1, Len(r) < SizeLimit - 1, SizeLimit \in Nat
  PROVE  Utf8Decode(r).read \in Int
         /\ (Utf8Decode(r).read \in 1 .. Len(r) => Utf8Decode(r).point \in Nat)
<1> DEFINE n == Trailing(r[1])
           d == Utf8Decode(r)
<1>1. n = 0 \/ n = 1 \/ n = 2 \/ n = 3
  BY DEF Trailing
<1>2. Len(r) \in Nat /\ \A i \in Nat : 1 <= i /\ i <= Len(r) => r[i] \in Nat
  OBVIOUS
<1> HIDE DEF n
<1>3. CASE Len(r) - 1 < n
  <2>1. d = [read |-> IF n = 1 THEN SizeLimit - 1 ELSE 0]
    BY <1>3 DEF Utf8Decode, n
  <2>2. d.read = IF n = 1 THEN SizeLimit - 1 ELSE 0
    BY <2>1
  <2> HIDE DEF d
  <2>3. d.read \in Int /\ d.read \notin 1 .. Len(r)
    BY <1>2, <2>2
  <2> QED BY <2>3 DEF d
<1>4. CASE ~ (Len(r) - 1 < n)
  <2>1. /\ d.read = n + 1
        /\ n = 0 => d.point = r[1]
        /\ n = 1 => d.point = (r[1] % 32) * 64 + (r[2] % 64)
        /\ n = 2 => d.point = ((r[1] % 16) * 64 + (r[2] % 64)) * 64 + (r[3] % 64)
        /\ n = 3 => d.point = (((r[1] % 8) * 64 + (r[2] % 64)) * 64 + (r[3] % 64)) * 64 + (r[4] % 64)
    BY <1>1, <1>4 DEF Utf8Decode, n
  <2> HIDE DEF d
  <2>2. \A x \in Nat : x % 32 \in Nat /\ x % 16 \in Nat /\ x % 8 \in Nat
    OBVIOUS
  <2>3. r[1] \in Nat /\ (n >= 1 => r[2] \in Nat) /\ (n >= 2 => r[3] \in Nat) /\ (n >= 3 => r[4] \in Nat)
    BY <1>1, <1>2, <1>4
  <2> DEFINE Six(x, y) == x * 64 + (y % 64)
  <2>4. \A x \in Nat, y \in Nat : Six(x, y) \in Nat
    OBVIOUS
  <2>5. /\ n = 1 => d.point = Six(r[1] % 32, r[2])
        /\ n = 2 => d.point = Six(Six(r[1] % 16, r[2]), r[3])
        /\ n = 3 => d.point = Six(Six(Six(r[1] % 8, r[2]), r[3]), r[4])
    BY <2>1
  <2> HIDE DEF Six
  <2>6. CASE n = 0
    BY <2>1, <2>3, <2>6 DEF d
  <2>7. CASE n = 1
    <3>1. (r[1] % 32) \in Nat /\ r[2] \in Nat
      BY <2>2, <2>3, <2>7
    <3>2. d.point \in Nat
      BY <2>4, <2>5, <2>7, <3>1
    <3> QED BY <2>1, <2>7, <3>2 DEF d
  <2>8. CASE n = 2
    <3>1. r[1] \in Nat /\ r[2] \in Nat /\ r[3] \in Nat
      BY <2>3, <2>8
    <3> DEFINE x == r[1] % 16
    <3>2. x \in Nat
      BY <2>2, <3>1
    <3> HIDE DEF x
    <3>3. Six(x, r[2]) \in Nat
      BY <2>4, <3>1, <3>2
    <3>4. Six(Six(x, r[2]), r[3]) \in Nat
      BY <2>4, <3>1, <3>3
    <3>5. d.point \in Nat
      BY <2>5, <2>8, <3>4 DEF x
    <3> QED BY <2>1, <2>8, <3>5 DEF d
  <2>9. CASE n = 3
    <3>1. r[1] \in Nat /\ r[2] \in Nat /\ r[3] \in Nat /\ r[4] \in Nat
      BY <2>3, <2>9
    <3> DEFINE x == r[1] % 8
    <3>2. x \in Nat
      BY <2>2, <3>1
    <3> HIDE DEF x
    <3>3. Six(x, r[2]) \in Nat
      BY <2>4, <3>1, <3>2
    <3>4. Six(Six(x, r[2]), r[3]) \in Nat
      BY <2>4, <3>1, <3>3
    <3>5. Six(Six(Six(x, r[2]), r[3]), r[4]) \in Nat
      BY <2>4, <3>1, <3>4
    <3>6. d.point \in Nat
      BY <2>5, <2>9, <3>5 DEF x
    <3> QED BY <2>1, <2>9, <3>6 DEF d
  <2> QED BY <1>1, <2>6, <2>7, <2>8, <2>9
<1> QED BY <1>3, <1>4

\* A pass of the caller's loop leaves such a state.
LEMMA PassTyped ==
  ASSUME NEW w \in Seq(Nat), Len(w) < SizeLimit - 1, SizeLimit \in Nat, NEW st \in Passes
  PROVE  DecodeNext(w, st) \in Passes
<1> DEFINE r == From(w, st.at)
           d == Utf8Decode(r)
<1>1. st.at \in Nat /\ st.points \in Seq(Nat) /\ Len(w) \in Nat
  BY DEF Passes
<1>2. CASE st.at >= Len(w) \/ ~ Progress(d.read, Len(w) - st.at)
  BY <1>2 DEF DecodeNext
<1>3. CASE ~ (st.at >= Len(w) \/ ~ Progress(d.read, Len(w) - st.at))
  <2>1. r \in Seq(Nat) /\ Len(r) = Len(w) - st.at /\ Len(r) >= 1 /\ Len(r) < SizeLimit - 1
    BY <1>1, <1>3, BytesFrom
  <2> HIDE DEF r
  <2>2. d.read \in Int /\ (d.read \in 1 .. Len(r) => d.point \in Nat)
    BY <2>1, DecodeTyped
  <2> HIDE DEF d
  <2>3. DecodeNext(w, st) = [at |-> st.at + d.read, points |-> Append(st.points, d.point)]
    BY <1>3 DEF DecodeNext, d, r
  <2>4. d.read \in Nat /\ d.point \in Nat
    BY <1>3, <2>1, <2>2 DEF Progress
  <2>5. [at |-> st.at + d.read, points |-> Append(st.points, d.point)] \in Passes
    BY <1>1, <2>4 DEF Passes
  <2> QED BY <2>3, <2>5
<1> QED BY <1>2, <1>3

\* The state of the caller's loop before its first pass.
NothingRead == [at |-> 0, points |-> <<>>]

\* DecodeAll is the last state of a loop with a pass for every byte.
LEMMA DecodeAllIs ==
  ASSUME NEW w \in Seq(Nat), Len(w) < SizeLimit - 1, SizeLimit \in Nat
  PROVE  \E g : /\ g[0] = NothingRead /\ DecodeAll(w) = g[Len(w)]
                /\ \A p \in 1 .. Len(w) : g[p] = DecodeNext(w, g[p - 1])
<1> DEFINE n == Len(w)
           step == [p \in 1 .. n |-> [st \in Passes |-> DecodeNext(w, st)]]
           P(g) == g = [p \in 0 .. n |-> IF p = 0 THEN NothingRead ELSE DecodeNext(w, g[p - 1])]
           c == CHOOSE g : P(g)
<1>1. n \in Nat
  OBVIOUS
<1>2. NothingRead \in Passes
  BY DEF NothingRead, Passes
<1>3. DecodeAll(w) = c[n]
  BY DEF DecodeAll, NothingRead
<1>4. \A p \in 1 .. n, st \in Passes : step[p][st] = DecodeNext(w, st) /\ step[p][st] \in Passes
  BY PassTyped
<1> HIDE DEF step, n
<1>5. PICK f : Loop(Passes, n, NothingRead, step, f)
  BY <1>1, <1>2, <1>4, LoopDefined
<1>6. \A p \in 0 .. n : p # 0 => p \in 1 .. n /\ p - 1 \in 0 .. n
  BY <1>1
<1>7. f[0] = NothingRead /\ \A p \in 0 .. n : f[p] \in Passes
  BY <1>5 DEF Loop
<1>8. \A p \in 1 .. n : f[p] = step[p][f[p - 1]]
  BY <1>5 DEF Loop
<1>9. \A p \in 0 .. n : f[p] = IF p = 0 THEN NothingRead ELSE DecodeNext(w, f[p - 1])
  BY <1>4, <1>6, <1>7, <1>8
<1>10. f = [p \in 0 .. n |-> f[p]]
  BY <1>5 DEF Loop
<1>11. P(f)
  BY <1>9, <1>10
<1>12. P(c)
  <2>1. \E g : P(g)
    <3> HIDE DEF P
    <3> QED BY <1>11
  <2> HIDE DEF P
  <2> QED BY <2>1
<1>13. \A p \in 0 .. n : c[p] = IF p = 0 THEN NothingRead ELSE DecodeNext(w, c[p - 1])
  <2>1. c = [p \in 0 .. n |-> IF p = 0 THEN NothingRead ELSE DecodeNext(w, c[p - 1])]
    BY <1>12
  <2> HIDE DEF c, P
  <2>2. \A p \in 0 .. n :
          [i \in 0 .. n |-> IF i = 0 THEN NothingRead ELSE DecodeNext(w, c[i - 1])][p]
            = IF p = 0 THEN NothingRead ELSE DecodeNext(w, c[p - 1])
    OBVIOUS
  <2> QED BY <2>1, <2>2
<1> HIDE DEF c, P
<1>14. 0 \in 0 .. n /\ \A p \in 1 .. n : p \in 0 .. n /\ p # 0
  BY <1>1
<1>15. c[0] = NothingRead
  BY <1>13, <1>14
<1>16. \A p \in 1 .. n : c[p] = DecodeNext(w, c[p - 1])
  BY <1>13, <1>14
<1> QED BY <1>3, <1>15, <1>16 DEF n

\* A text of points, with its shorter texts t and their points with a form f, and
\* w, which lacks `cut' bytes of its last character.
CutText(points, t, f, cut, w) ==
  LET n == Len(points) IN
    /\ points \in Seq(Nat) /\ n >= 1 /\ TextsAre(points, t) /\ FormedAre(points, f)
    /\ cut \in Nat /\ (cut > 0 => cut < Len(Utf8Encode(points[n])))
    /\ w = UpTo(t[n], Len(t[n]) - cut)
    /\ SizeLimit \in Nat /\ Len(t[n]) < SizeLimit - 1

\* Every text is a sequence of bytes.
LEMMA TextTyped ==
  ASSUME NEW points \in Seq(Nat), Len(points) >= 1, NEW t, TextsAre(points, t)
  PROVE  \A k \in Nat : k <= Len(points) => t[k] \in Seq(Nat) /\ Len(t[k]) \in Nat
<1>1. SUFFICES ASSUME NEW k \in Nat, k <= Len(points) PROVE t[k] \in Seq(Nat)
  OBVIOUS
<1>2. Len(points) \in Nat
  OBVIOUS
<1>3. CASE k = 0
  <2>1. t[0] = <<>> /\ <<>> \in Seq(Nat)
    BY DEF TextsAre
  <2> QED BY <1>3, <2>1
<1>4. CASE k # 0
  <2>1. k \in 1 .. Len(points)
    BY <1>1, <1>2, <1>4
  <2> QED BY <2>1 DEF TextsAre
<1> QED BY <1>3, <1>4

\* The bytes that are left are the first of the text, and all of the characters
\* before the last one are there.
LEMMA CutIs ==
  ASSUME NEW points, NEW t, NEW f, NEW cut, NEW w, CutText(points, t, f, cut, w)
  PROVE  LET n == Len(points) IN
           /\ w \in Seq(Nat) /\ Len(w) \in Nat /\ Len(w) = Len(t[n]) - cut
           /\ Len(w) < SizeLimit - 1 /\ SizeLimit \in Nat
           /\ \A i \in Nat : 1 <= i /\ i <= Len(w) => w[i] = t[n][i]
           /\ cut > 0 => Len(t[n - 1]) < Len(w)
<1> DEFINE n == Len(points)
           e == Utf8Encode(points[n])
           a == t[n - 1]
           b == t[n]
<1>1. /\ points \in Seq(Nat) /\ n >= 1 /\ TextsAre(points, t)
      /\ cut \in Nat /\ (cut > 0 => cut < Len(e)) /\ w = UpTo(b, Len(b) - cut)
      /\ SizeLimit \in Nat /\ Len(b) < SizeLimit - 1
  BY DEF CutText
<1>2. n \in Nat /\ n \in 1 .. n
  BY <1>1
<1>3. points[n] \in Nat
  BY <1>1, <1>2
<1>4. e \in Seq(Nat)
  BY <1>3, FormOrNone
<1>5. a \in Seq(Nat) /\ b \in Seq(Nat) /\ b = a \o e
  BY <1>1, <1>2 DEF TextsAre
<1> HIDE DEF a, b, e
<1>6. /\ Len(b) = Len(a) + Len(e) /\ Len(a) \in Nat /\ Len(e) \in Nat
      /\ \A i \in 1 .. Len(b) : b[i] \in Nat
  BY <1>4, <1>5
<1>7. Len(b) - cut \in Nat /\ Len(b) - cut <= Len(b) /\ (cut > 0 => Len(a) < Len(b) - cut)
  BY <1>1, <1>6
<1>8. w \in Seq(Nat) /\ Len(w) = Len(b) - cut
  <2> DEFINE m == Len(b) - cut
  <2>1. m \in Nat /\ m <= Len(b)
    BY <1>7
  <2> HIDE DEF m
  <2>2. SubSeq(b, 1, m) \in Seq(Nat) /\ Len(SubSeq(b, 1, m)) = m
    BY <1>5, <1>6, <2>1
  <2> QED BY <1>1, <2>2 DEF UpTo, m
<1>9. ASSUME NEW i \in Nat, 1 <= i, i <= Len(w) PROVE w[i] = b[i]
  <2> DEFINE m == Len(b) - cut
  <2>1. m \in Nat /\ m <= Len(b) /\ i <= m
    BY <1>7, <1>8, <1>9
  <2> HIDE DEF m
  <2>2. SubSeq(b, 1, m)[i] = b[i]
    BY <1>5, <1>6, <1>9, <2>1
  <2> QED BY <1>1, <2>2 DEF UpTo, m
<1>10. Len(w) < SizeLimit - 1
  BY <1>1, <1>6, <1>7, <1>8
<1> QED BY <1>1, <1>7, <1>8, <1>9, <1>10 DEF a, b, n

\* Behind the bytes of some characters, and before the end, is the form of a
\* point, with points without a form, which have no bytes, in between.
LEMMA NextPoint ==
  ASSUME NEW points \in Seq(Nat), Len(points) >= 1, NEW t, TextsAre(points, t),
         NEW f, FormedAre(points, f),
         NEW j \in Nat, j <= Len(points), Len(t[j]) < Len(t[Len(points)])
  PROVE  \E k \in Nat : /\ 1 <= k /\ k <= Len(points) /\ HasForm(points[k])
                        /\ Len(t[k - 1]) = Len(t[j]) /\ f[k - 1] = f[j]
<1> DEFINE n == Len(points)
           at == Len(t[j])
           T == {k \in Nat : k <= n /\ at < Len(t[k])}
<1>1. n \in Nat /\ \A k \in Nat : k <= n => Len(t[k]) \in Nat
  BY TextTyped
<1>2. PICK k \in T : \A i \in T : k <= i
  <2>1. n \in T /\ T \in SUBSET Nat
    BY <1>1
  <2> HIDE DEF T
  <2>2. T # {}
    BY <2>1
  <2> QED BY <2>1, <2>2, LeastNat
<1>3. k \in Nat /\ k <= n /\ at < Len(t[k])
  OBVIOUS
<1>4. ~ (k <= j)
  <2> SUFFICES ASSUME k <= j PROVE FALSE
    OBVIOUS
  <2>1. Grown(points, t, f, k, j)
    BY <1>3, TextGrows
  <2>2. Len(t[k]) <= at
    BY <2>1 DEF Grown
  <2> QED BY <1>1, <1>3, <2>2
<1>5. k - 1 \in Nat /\ j <= k - 1 /\ k - 1 <= n /\ ~ (k <= k - 1) /\ k \in 1 .. n /\ 1 <= k
  BY <1>1, <1>3, <1>4
<1>6. ~ (at < Len(t[k - 1]))
  BY <1>2, <1>5
<1>7. Grown(points, t, f, j, k - 1)
  BY <1>5, TextGrows
<1>8. at = Len(t[k - 1]) /\ f[j] = f[k - 1]
  <2>1. Len(t[k - 1]) \in Nat /\ at \in Nat
    BY <1>1, <1>5
  <2>2. at <= Len(t[k - 1]) /\ (at = Len(t[k - 1]) => f[j] = f[k - 1])
    BY <1>7 DEF Grown
  <2> QED BY <1>6, <2>1, <2>2
<1>9. HasForm(points[k])
  <2> SUFFICES ASSUME ~ HasForm(points[k]) PROVE FALSE
    OBVIOUS
  <2> DEFINE a == t[k - 1]
             b == t[k]
             e == Utf8Encode(points[k])
  <2>1. points[k] \in Nat
    BY <1>5
  <2>2. e \in Seq(Nat) /\ Len(e) = 0
    BY <2>1, FormOrNone
  <2>3. a \in Seq(Nat) /\ b = a \o e
    BY <1>5 DEF TextsAre
  <2>4. at < Len(b) /\ at = Len(a)
    BY <1>3, <1>8
  <2> HIDE DEF a, b, e, at
  <2> QED BY <2>2, <2>3, <2>4
<1> HIDE DEF at
<1> QED BY <1>3, <1>5, <1>8, <1>9 DEF at

\* After p passes of the caller's loop: it has read the bytes of some characters
\* and found their points, and either a byte a pass or all there are, or it has
\* met what is left of the last character and stays there.
ReadSoFar(points, t, f, cut, w, p, st) ==
  \E j \in Nat :
    /\ j <= Len(points) /\ st.at = Len(t[j]) /\ st.at <= Len(w) /\ st.points = f[j]
    /\ \/ st.at >= p \/ st.at = Len(w)
       \/ /\ DecodeNext(w, st) = st /\ st.at < Len(w)
          /\ cut > 0 /\ f[j] = f[Len(points) - 1]

\* What the decoder answers behind the first j characters: another point and its
\* bytes, or no progress.
ReadNext(points, t, f, cut, w, j, d) ==
  \/ ~ Progress(d.read, Len(w) - Len(t[j])) /\ cut > 0 /\ f[j] = f[Len(points) - 1]
  \/ \E k \in Nat : /\ k <= Len(points) /\ d.read \in Nat /\ d.read >= 1
                    /\ Len(t[k]) = Len(t[j]) + d.read /\ Len(t[k]) <= Len(w)
                    /\ f[k] = Append(f[j], d.point)

\* A pass in the middle of the bytes: the next form is there, or what is left of
\* it, which is the last one.
LEMMA PassReads ==
  ASSUME NEW points, NEW t, NEW f, NEW cut, NEW w, CutText(points, t, f, cut, w),
         NEW j \in Nat, j <= Len(points), Len(t[j]) < Len(w)
  PROVE  ReadNext(points, t, f, cut, w, j, Utf8Decode(From(w, Len(t[j]))))
<1> DEFINE n == Len(points)
           at == Len(t[j])
           r == From(w, at)
           d == Utf8Decode(r)
           b == t[n]
<1>1. /\ points \in Seq(Nat) /\ n >= 1 /\ n \in Nat /\ TextsAre(points, t) /\ FormedAre(points, f)
      /\ cut \in Nat
  BY DEF CutText
<1>2. /\ w \in Seq(Nat) /\ Len(w) \in Nat /\ Len(w) = Len(b) - cut
      /\ \A i \in Nat : 1 <= i /\ i <= Len(w) => w[i] = b[i]
      /\ cut > 0 => Len(t[n - 1]) < Len(w)
      /\ Len(w) < SizeLimit - 1 /\ SizeLimit \in Nat
  BY CutIs
<1>3. \A k \in Nat : k <= n => t[k] \in Seq(Nat) /\ Len(t[k]) \in Nat
  BY <1>1, TextTyped
<1>4. at \in Nat /\ Len(b) \in Nat /\ at < Len(w) /\ at < Len(b)
  BY SMTT(60), <1>1, <1>2, <1>3
<1>5. PICK k \in Nat : /\ 1 <= k /\ k <= n /\ HasForm(points[k])
                       /\ Len(t[k - 1]) = at /\ f[k - 1] = f[j]
  BY <1>1, <1>4, NextPoint
<1> DEFINE u == points[k]
           e == Utf8Encode(u)
           a == t[k - 1]
           c == t[k]
<1>6. k \in 1 .. n /\ k - 1 \in Nat /\ k - 1 <= n
  BY <1>1, <1>5
<1>7. u \in Nat
  BY <1>1, <1>6
<1>8. a \in Seq(Nat) /\ c \in Seq(Nat) /\ c = a \o e /\ f[k] = Append(f[j], u)
  <2>1. a \in Seq(Nat) /\ c \in Seq(Nat) /\ c = a \o e
    BY <1>1, <1>6 DEF TextsAre
  <2>2. f[k] = IF HasForm(u) THEN Append(f[k - 1], u) ELSE f[k - 1]
    BY <1>1, <1>6 DEF FormedAre
  <2> QED BY <1>5, <2>1, <2>2
<1>9. e \in Seq(Nat) /\ Len(e) >= 1 /\ Len(e) \in Nat
  <2>1. HasForm(u)
    BY <1>5
  <2> HIDE DEF u
  <2> QED BY <1>7, <2>1, FormOrNone
<1>10. /\ Len(c) <= Len(b)
       /\ \A i \in Nat : 1 <= i /\ i <= Len(c) => b[i] = c[i]
  <2>1. Grown(points, t, f, k, n)
    BY <1>1, <1>5, TextGrows
  <2> QED BY <2>1 DEF Grown
<1>11. /\ r \in Seq(Nat) /\ Len(r) = Len(w) - at
       /\ \A i \in Nat : 1 <= i /\ i <= Len(w) - at => r[i] = w[at + i]
  <2> HIDE DEF at
  <2> QED BY <1>2, <1>4, BytesFrom
<1> HIDE DEF r, e, a, c, b
<1>12. /\ Len(c) = at + Len(e) /\ Len(c) \in Nat
       /\ \A i \in Nat : 1 <= i /\ i <= Len(e) => c[at + i] = e[i]
  <2>1. Len(a) = at
    BY <1>5 DEF a
  <2>2. Len(c) = Len(a) + Len(e) /\ Len(a) \in Nat
    BY SMTT(60), <1>8, <1>9
  <2>3. \A i \in Nat : 1 <= i /\ i <= Len(e) => c[Len(a) + i] = e[i]
    BY SMTT(60), <1>8, <1>9, Behind
  <2> HIDE DEF at
  <2>4. Len(c) = at + Len(e) /\ Len(c) \in Nat
    BY <1>4, <1>9, <2>1, <2>2
  <2>5. \A i \in Nat : 1 <= i /\ i <= Len(e) => c[at + i] = e[i]
    BY Zenon, <2>1, <2>3
  <2> QED BY Zenon, <2>4, <2>5
<1> HIDE DEF at
<1>13. ASSUME NEW i \in Nat, 1 <= i, i <= Len(r), i <= Len(e) PROVE r[i] = e[i]
  <2>1. at + i \in Nat /\ 1 <= at + i /\ at + i <= Len(w) /\ at + i <= Len(c) /\ i <= Len(w) - at
    BY SMTT(60), <1>2, <1>4, <1>9, <1>11, <1>12, <1>13
  <2>2. r[i] = w[at + i]
    BY <1>11, <1>13, <2>1
  <2>3. w[at + i] = b[at + i]
    BY <1>2, <2>1
  <2>4. b[at + i] = c[at + i]
    BY <1>10, <2>1
  <2>5. c[at + i] = e[i]
    BY <1>12, <1>13
  <2> QED BY <2>2, <2>3, <2>4, <2>5
<1>14. /\ Len(r) >= Len(e) => d.read = Len(e) /\ d.point = u
       /\ ~ (Len(r) >= Len(e)) => d.read = 0 \/ d.read = SizeLimit - 1
  <2>1. Len(r) >= 1
    BY <1>2, <1>4, <1>11
  <2> HIDE DEF u
  <2>2. \A i \in Nat : 1 <= i /\ i <= Len(r) /\ i <= Len(Utf8Encode(u)) => r[i] = Utf8Encode(u)[i]
    BY <1>13 DEF e
  <2>3. HasForm(u)
    BY <1>5 DEF u
  <2> QED BY <1>7, <1>11, <2>1, <2>2, <2>3, FormRead DEF e
<1> HIDE DEF d, u
<1>15. CASE Len(r) >= Len(e)
  <2>1. d.read = Len(e) /\ d.point = u
    BY <1>14, <1>15
  <2>2. d.read \in Nat /\ d.read >= 1 /\ Len(c) = at + d.read /\ Len(c) <= Len(w)
    BY <1>2, <1>4, <1>9, <1>11, <1>12, <1>15, <2>1
  <2>3. f[k] = Append(f[j], d.point)
    BY <1>8, <2>1
  <2>4. Len(c) = Len(t[k]) /\ at = Len(t[j])
    BY DEF c, at
  <2>5. ReadNext(points, t, f, cut, w, j, d)
    BY <1>5, <2>2, <2>3, <2>4 DEF ReadNext
  <2> QED BY <2>5 DEF d, r, at
<1>16. CASE ~ (Len(r) >= Len(e))
  <2>1. Len(w) < Len(c)
    BY <1>2, <1>4, <1>9, <1>11, <1>12, <1>16
  <2>2. cut > 0
    BY <1>1, <1>2, <1>4, <1>10, <1>12, <2>1
  <2>3. k = n
    <3> SUFFICES ASSUME k # n PROVE FALSE
      OBVIOUS
    <3>1. n - 1 \in Nat /\ k <= n - 1 /\ n - 1 <= n
      BY <1>1, <1>5
    <3>2. Grown(points, t, f, k, n - 1)
      BY <1>1, <3>1, TextGrows
    <3>3. Len(c) <= Len(t[n - 1])
      BY <3>2 DEF Grown, c
    <3>4. Len(t[n - 1]) \in Nat
      BY <1>3, <3>1
    <3> QED BY <1>2, <1>12, <2>1, <2>2, <3>3, <3>4
  <2>4. f[j] = f[n - 1]
    BY <1>5, <2>3
  <2>5. ~ Progress(d.read, Len(w) - at)
    <3>1. d.read = 0 \/ d.read = SizeLimit - 1
      BY <1>14, <1>16
    <3> QED BY <1>2, <1>4, <3>1 DEF Progress
  <2>6. ReadNext(points, t, f, cut, w, j, d)
    BY <2>2, <2>4, <2>5 DEF ReadNext, at
  <2> QED BY <2>6 DEF d, r, at
<1> QED BY <1>15, <1>16

\* One pass more.
LEMMA PassSoFar ==
  ASSUME NEW points, NEW t, NEW f, NEW cut, NEW w, CutText(points, t, f, cut, w),
         NEW p \in Nat, NEW st, ReadSoFar(points, t, f, cut, w, p, st)
  PROVE  ReadSoFar(points, t, f, cut, w, p + 1, DecodeNext(w, st))
<1> DEFINE n == Len(points)
           r == From(w, st.at)
           d == Utf8Decode(r)
           next == DecodeNext(w, st)
<1>1. PICK j \in Nat :
        /\ j <= n /\ st.at = Len(t[j]) /\ st.at <= Len(w) /\ st.points = f[j]
        /\ \/ st.at >= p \/ st.at = Len(w)
           \/ next = st /\ st.at < Len(w) /\ cut > 0 /\ f[j] = f[n - 1]
  BY DEF ReadSoFar
<1>2. Len(w) \in Nat
  BY CutIs
<1>3. st.at \in Nat
  <2>1. points \in Seq(Nat) /\ n >= 1 /\ TextsAre(points, t)
    BY DEF CutText
  <2>2. Len(t[j]) \in Nat
    BY <1>1, <2>1, TextTyped
  <2> QED BY <1>1, <2>2
<1>4. next = IF st.at >= Len(w) \/ ~ Progress(d.read, Len(w) - st.at) THEN st
             ELSE [at |-> st.at + d.read, points |-> Append(st.points, d.point)]
  BY DEF DecodeNext
<1> HIDE DEF d
<1>5. CASE st.at = Len(w)
  <2>1. next = st
    BY <1>2, <1>4, <1>5
  <2> HIDE DEF next
  <2>2. ReadSoFar(points, t, f, cut, w, p + 1, next)
    BY <1>1, <1>5, <2>1 DEF ReadSoFar
  <2> QED BY <2>2 DEF next
<1>6. CASE next = st /\ st.at < Len(w) /\ cut > 0 /\ f[j] = f[n - 1]
  <2>1. ReadSoFar(points, t, f, cut, w, p + 1, st)
    BY <1>1, <1>6 DEF ReadSoFar
  <2> HIDE DEF next
  <2>2. ReadSoFar(points, t, f, cut, w, p + 1, next)
    BY <1>6, <2>1
  <2> QED BY <2>2 DEF next
<1>7. CASE st.at >= p /\ st.at # Len(w)
  <2>1. st.at < Len(w) /\ st.at >= p
    BY <1>1, <1>2, <1>3, <1>7
  <2>2. \/ ~ Progress(d.read, Len(w) - st.at) /\ cut > 0 /\ f[j] = f[n - 1]
        \/ \E k \in Nat : /\ k <= n /\ d.read \in Nat /\ d.read >= 1
                          /\ Len(t[k]) = st.at + d.read /\ Len(t[k]) <= Len(w)
                          /\ f[k] = Append(f[j], d.point)
    <3>1. ReadNext(points, t, f, cut, w, j, Utf8Decode(From(w, Len(t[j]))))
      BY <1>1, <2>1, PassReads
    <3>2. ReadNext(points, t, f, cut, w, j, d)
      BY <1>1, <3>1 DEF d
    <3> QED BY <1>1, <3>2 DEF ReadNext
  <2>3. CASE ~ Progress(d.read, Len(w) - st.at) /\ cut > 0 /\ f[j] = f[n - 1]
    <3>1. next = st
      BY <1>4, <2>3
    <3>2. ReadSoFar(points, t, f, cut, w, p + 1, st)
      BY <1>1, <2>1, <2>3, <3>1 DEF ReadSoFar
    <3> HIDE DEF next
    <3>3. ReadSoFar(points, t, f, cut, w, p + 1, next)
      BY <3>1, <3>2
    <3> QED BY <3>3 DEF next
  <2> HIDE DEF next
  <2>4. ASSUME NEW k \in Nat, k <= n, d.read \in Nat, d.read >= 1,
               Len(t[k]) = st.at + d.read, Len(t[k]) <= Len(w), f[k] = Append(f[j], d.point)
        PROVE  ReadSoFar(points, t, f, cut, w, p + 1, next)
    <3>1. Progress(d.read, Len(w) - st.at) /\ ~ (st.at >= Len(w))
      BY <1>2, <1>3, <2>1, <2>4 DEF Progress
    <3>2. next = [at |-> st.at + d.read, points |-> Append(st.points, d.point)]
      BY <1>4, <3>1
    <3>3. next.at = st.at + d.read /\ next.points = Append(st.points, d.point)
      BY <3>2
    <3>4. next.at = Len(t[k]) /\ next.at <= Len(w) /\ next.points = f[k]
      BY <1>1, <2>4, <3>3
    <3>5. next.at >= p + 1
      BY SMTT(60), <1>3, <2>1, <2>4, <3>3
    <3> QED BY <2>4, <3>4, <3>5 DEF ReadSoFar
  <2> QED BY <2>2, <2>3, <2>4 DEF next
<1> QED BY <1>1, <1>5, <1>6, <1>7

\* What the caller's loop finds: the points with a form, and nothing is left, or
\* those but the last one if that is cut, and something is left of it.
LEMMA DecodedAll ==
  ASSUME NEW points, NEW t, NEW f, NEW cut, NEW w, CutText(points, t, f, cut, w)
  PROVE  /\ DecodeAll(w).points = f[Len(points) - (IF cut = 0 THEN 0 ELSE 1)]
         /\ Len(w) - DecodeAll(w).at = 0 <=> cut = 0
<1> DEFINE n == Len(points)
           Q(p, st) == ReadSoFar(points, t, f, cut, w, p, st)
<1>1. /\ w \in Seq(Nat) /\ Len(w) \in Nat /\ Len(w) = Len(t[n]) - cut
      /\ cut > 0 => Len(t[n - 1]) < Len(w)
      /\ Len(w) < SizeLimit - 1 /\ SizeLimit \in Nat
  BY CutIs
<1>2. points \in Seq(Nat) /\ n >= 1 /\ n \in Nat /\ TextsAre(points, t) /\ FormedAre(points, f) /\ cut \in Nat
  BY DEF CutText
<1>3. PICK g : /\ g[0] = NothingRead /\ DecodeAll(w) = g[Len(w)]
               /\ \A p \in 1 .. Len(w) : g[p] = DecodeNext(w, g[p - 1])
  BY <1>1, DecodeAllIs
<1>4. Q(0, NothingRead)
  <2>1. NothingRead.at = 0 /\ NothingRead.points = <<>>
    BY DEF NothingRead
  <2>2. Len(t[0]) = 0 /\ f[0] = <<>>
    BY <1>2 DEF TextsAre, FormedAre
  <2> QED BY <1>1, <1>2, <2>1, <2>2 DEF ReadSoFar
<1> DEFINE T == {p \in Nat : p <= Len(w) /\ ~ Q(p, g[p])}
<1>5. T = {}
  <2> SUFFICES ASSUME T # {} PROVE FALSE
    OBVIOUS
  <2> HIDE DEF Q
  <2>1. PICK p \in T : \A i \in T : p <= i
    <3>1. T \in SUBSET Nat
      OBVIOUS
    <3> HIDE DEF T
    <3> QED BY <3>1, LeastNat
  <2>2. p \in Nat /\ p <= Len(w) /\ ~ Q(p, g[p])
    OBVIOUS
  <2>3. p # 0
    BY <1>3, <1>4, <2>2
  <2>4. p \in 1 .. Len(w) /\ p - 1 \in Nat /\ p - 1 <= Len(w) /\ ~ (p <= p - 1) /\ p - 1 + 1 = p
    BY <1>1, <2>2, <2>3
  <2>5. Q(p - 1, g[p - 1])
    BY <2>1, <2>4
  <2> HIDE DEF T
  <2>6. Q(p - 1 + 1, DecodeNext(w, g[p - 1]))
    BY <2>4, <2>5, PassSoFar DEF Q
  <2> QED BY <1>3, <2>2, <2>4, <2>6
<1>6. Q(Len(w), g[Len(w)])
  <2> HIDE DEF Q
  <2>1. Len(w) \notin T => Q(Len(w), g[Len(w)])
    BY <1>1
  <2> HIDE DEF T
  <2> QED BY <1>5, <2>1
<1> DEFINE st == DecodeAll(w)
<1>7. PICK j \in Nat :
        /\ j <= n /\ st.at = Len(t[j]) /\ st.at <= Len(w) /\ st.points = f[j]
        /\ \/ st.at >= Len(w) \/ st.at = Len(w)
           \/ st.at < Len(w) /\ cut > 0 /\ f[j] = f[n - 1]
  <2>1. Q(Len(w), st)
    BY <1>3, <1>6
  <2> HIDE DEF st
  <2> QED BY <2>1 DEF ReadSoFar
<1> HIDE DEF st
<1>8. \A k \in Nat : k <= n => Len(t[k]) \in Nat
  BY <1>2, TextTyped
<1>9. ASSUME st.at = Len(w) PROVE cut = 0 /\ f[j] = f[n]
  <2>1. Len(t[j]) = Len(w)
    BY <1>1, <1>7, <1>8, <1>9
  <2>2. cut = 0
    <3> SUFFICES ASSUME cut > 0 PROVE FALSE
      BY <1>2
    <3>1. n - 1 \in Nat /\ n - 1 <= n /\ (j = n \/ j <= n - 1)
      BY <1>2, <1>7
    <3>2. j # n
      BY <1>1, <1>2, <1>8, <2>1
    <3>3. Grown(points, t, f, j, n - 1)
      BY <1>2, <3>1, <3>2, TextGrows
    <3>4. Len(t[j]) <= Len(t[n - 1])
      BY <3>3 DEF Grown
    <3>5. Len(t[n - 1]) \in Nat
      BY <1>8, <3>1
    <3> QED BY <1>1, <2>1, <3>4, <3>5
  <2>3. Grown(points, t, f, j, n)
    BY <1>2, <1>7, TextGrows
  <2>4. Len(t[n]) \in Nat
    BY <1>2, <1>8
  <2>5. Len(t[j]) = Len(t[n])
    BY <1>1, <2>1, <2>2, <2>4
  <2> QED BY <2>2, <2>3, <2>5 DEF Grown
<1>10. st.at \in Nat
  BY <1>7, <1>8
<1>11. CASE st.at = Len(w)
  <2>1. n - 0 = n /\ Len(w) - st.at = 0
    BY <1>1, <1>2, <1>11
  <2> QED BY <1>7, <1>9, <1>11, <2>1 DEF st
<1>12. CASE st.at # Len(w)
  <2>1. ~ (st.at >= Len(w)) /\ Len(w) - st.at # 0
    BY <1>1, <1>7, <1>10, <1>12
  <2>2. cut > 0 /\ st.points = f[n - 1]
    BY <1>7, <1>12, <2>1
  <2>3. cut # 0
    BY <1>2, <2>2
  <2> QED BY <2>1, <2>2, <2>3 DEF st
<1> QED BY <1>11, <1>12

-----------------------------------------------------------------------------
(* Theorems *)

\* Every step is a call, which answers what was asked, or takes the answer away.
LEMMA Calls ==
  [Next]_vars =>
    \/ UNCHANGED vars
    \/ \E url \in Urls : ParseUrl(url) /\ asked'.call = "parse"
    \/ \E p \in Parts : PasteUrl(p) /\ asked'.call = "paste"
    \/ \E d \in DateCalls : DateCall(d) /\ asked'.call = "date"
    \/ \E f \in Files : MimeCall(f) /\ asked'.call = "mime"
    \/ \E b \in Buffers : Base64Call(b) /\ asked'.call = "base64"
    \/ \E points \in PointLists, cut \in 0 .. 3 : Utf8Call(points, cut) /\ asked'.call = "utf8"
    \/ asked'.call \in {"none", "register"}
<1>1. SUFFICES ASSUME Next
               PROVE  \/ \E url \in Urls : ParseUrl(url) /\ asked'.call = "parse"
                      \/ \E p \in Parts : PasteUrl(p) /\ asked'.call = "paste"
                      \/ \E d \in DateCalls : DateCall(d) /\ asked'.call = "date"
                      \/ \E f \in Files : MimeCall(f) /\ asked'.call = "mime"
                      \/ \E b \in Buffers : Base64Call(b) /\ asked'.call = "base64"
                      \/ \E points \in PointLists, cut \in 0 .. 3 :
                           Utf8Call(points, cut) /\ asked'.call = "utf8"
                      \/ asked'.call \in {"none", "register"}
  OBVIOUS
<1>2. ASSUME NEW name \in Names, Register(name) PROVE asked'.call = "register"
  BY <1>2 DEF Register
<1>3. ASSUME NEW url \in Urls, ParseUrl(url) PROVE asked'.call = "parse"
  BY <1>3 DEF ParseUrl
<1>4. ASSUME NEW p \in Parts, PasteUrl(p) PROVE asked'.call = "paste"
  BY <1>4 DEF PasteUrl
<1>5. ASSUME NEW points \in PointLists, NEW cut \in 0 .. 3, Utf8Call(points, cut)
      PROVE  asked'.call = "utf8"
  BY <1>5 DEF Utf8Call
<1>6. ASSUME NEW b \in Buffers, Base64Call(b) PROVE asked'.call = "base64"
  BY <1>6 DEF Base64Call
<1>7. ASSUME NEW d \in DateCalls, DateCall(d) PROVE asked'.call = "date"
  BY <1>7 DEF DateCall
<1>8. ASSUME NEW f \in Files, MimeCall(f) PROVE asked'.call = "mime"
  BY <1>8 DEF MimeCall
<1>9. ASSUME Used PROVE asked'.call = "none"
  BY <1>9 DEF Used, Nothing
<1> QED BY <1>1, <1>2, <1>3, <1>4, <1>5, <1>6, <1>7, <1>8, <1>9
        DEF Next, UrlCalls, TextCalls

\* Whatever URL is parsed, in whatever state of the scheme table, no character
\* of it is lost or moved to another part (butil.c:768-832).
THEOREM UrlAccounted == Spec => []Accounted
<1>1. Init => Accounted
  BY DEF Init, Accounted, Nothing
<1>2. ASSUME Accounted, [Next]_vars PROVE Accounted'
  <2>1. CASE UNCHANGED vars
    BY <1>2, <2>1 DEF vars, Accounted, Spelled, PortOf
  <2>2. ASSUME NEW url \in Urls, ParseUrl(url) PROVE Accounted'
    <3>1. url \in Seq(Chars)
      BY UrlAssumption
    <3>2. asked'.url = url /\ result' = Parse(url)
      BY <2>2 DEF ParseUrl
    <3>3. ASSUME result'.ok, result'.scheme # <<"builtin", "file">>
          PROVE  /\ Spelled(result', From(url, SchemePart(url).after))
                 /\ \A i \in DOMAIN result'.host : result'.host[i] \notin {":", "/"}
                 /\ result'.path[1] = "/"
      BY <3>1, <3>2, <3>3, ParseSpelled
    <3> QED BY <3>2, <3>3 DEF Accounted
  <2>3. ASSUME asked'.call # "parse" PROVE Accounted'
    BY <2>3 DEF Accounted
  <2> QED BY <1>2, <2>1, <2>2, <2>3, Calls
<1> QED BY <1>1, <1>2, PTL DEF Spec

\* What is pasted is parsed as what it was made of, for any parts and whatever
\* schemes were registered before, in whatever order (butil.c:660-833, 863-925).
THEOREM PastedIsParsed == Spec => []RoundTrip
<1>1. Init => Table /\ RoundTrip
  BY DEF Init, Table, RoundTrip, Nothing
<1>2. ASSUME Table, [Next]_vars PROVE Table'
  <2>1. ASSUME UNCHANGED user PROVE Table'
    BY <1>2, <2>1 DEF Table
  <2>2. ASSUME NEW name \in Names, Register(name) PROVE Table'
    BY <1>2, <2>2, RegisterFits
  <2>3. UNCHANGED user \/ \E name \in Names : Register(name)
    BY <1>2 DEF Next, vars, UrlCalls, TextCalls, ParseUrl, PasteUrl, Utf8Call, Base64Call, DateCall,
                MimeCall, Used
  <2> QED BY <2>1, <2>2, <2>3
<1>3. ASSUME Table, RoundTrip, [Next]_vars PROVE RoundTrip'
  <2>1. CASE UNCHANGED vars
    BY <1>3, <2>1 DEF vars, RoundTrip, Unshadowed, BuiltIn
  <2>2. ASSUME NEW p \in Parts, PasteUrl(p) PROVE RoundTrip'
    <3>1. /\ p.scheme[1] = "user" => p.scheme[2] \in DOMAIN user
          /\ asked'.parts = p /\ result' = Parse(Paste(p)) /\ user' = user
      BY <2>2 DEF PasteUrl
    <3>2. ASSUME Unshadowed(p.scheme), p.port # 0
          PROVE  /\ result'.ok
                 /\ result'.scheme = p.scheme /\ result'.host = p.host /\ result'.port = p.port
                 /\ result'.path = (IF Char(p.path, 0) = "/" THEN p.path ELSE <<"/">> \o p.path)
      BY <1>3, <3>1, <3>2, ParsePasted
    <3>3. Unshadowed(p.scheme)' <=> Unshadowed(p.scheme)
      BY <3>1 DEF Unshadowed
    <3> QED BY <3>1, <3>2, <3>3 DEF RoundTrip, Unshadowed
  <2>3. ASSUME asked'.call # "paste" PROVE RoundTrip'
    BY <2>3 DEF RoundTrip
  <2> QED BY <1>3, <2>1, <2>2, <2>3, Calls
<1> QED BY <1>1, <1>2, <1>3, PTL DEF Spec

\* Whatever date is read in whatever zone, and whatever was called before, the
\* time is that date's but for the change of the zone, and only what is no date,
\* or taken for June or July by its ends, is excepted (butil.c:938-1145).
THEOREM DatesReadBack == Spec => []DatesInverse
<1>1. Init => DatesInverse
  BY DEF Init, DatesInverse, Nothing
<1>2. ASSUME DatesInverse, [Next]_vars PROVE DatesInverse'
  <2>1. CASE UNCHANGED vars
    BY <1>2, <2>1 DEF vars, DatesInverse
  <2>2. ASSUME NEW d \in DateCalls, DateCall(d) PROVE DatesInverse'
    <3> DEFINE t == DateToTime(d.date, d.zone)
    <3>1. asked'.of = d /\ result'.time = t /\ result'.date = TimeToDate(t, d.room)
      BY <2>2 DEF DateCall
    <3> HIDE DEF t
    <3>2. ReadBack(d, t, TimeToDate(t, d.room))
      BY DateAnswered DEF t
    <3>3. ReadBack(asked'.of, result'.time, result'.date)
      BY <3>1, <3>2
    <3>4. (asked'.call = "date" => ReadBack(asked'.of, result'.time, result'.date)) => DatesInverse'
      BY DEF ReadBack, DatesInverse
    <3> QED BY <3>3, <3>4
  <2>3. ASSUME asked'.call # "date" PROVE DatesInverse'
    BY <2>3 DEF DatesInverse
  <2> QED BY <1>2, <2>1, <2>2, <2>3, Calls
<1> QED BY <1>1, <1>2, PTL DEF Spec

\* Whatever paths are looked up, the four functions agree on every file whose
\* extension is in the table (butil.c:1239-1340).
THEOREM TypesAgree == Spec => []MimeAgrees
<1>1. Init => MimeAgrees
  BY DEF Init, MimeAgrees, Nothing
<1>2. ASSUME MimeAgrees, [Next]_vars PROVE MimeAgrees'
  <2>1. CASE UNCHANGED vars
    BY <1>2, <2>1 DEF vars, MimeAgrees
  <2>2. ASSUME NEW f \in Files, MimeCall(f) PROVE MimeAgrees'
    <3> DEFINE path == f.stem \o f.ext
               type == ContentTypeForFile(path)
    <3>1. /\ asked'.file = f /\ result'.string = MimeStringForFile(path) /\ result'.type = type
          /\ result'.named = MimeStringForType(type)
          /\ result'.back = ContentTypeForMime(MimeStringForFile(path))
      BY <2>2 DEF MimeCall
    <3>2. ASSUME NEW i \in DOMAIN MimeTab, f.ext = <<".">> \o MimeTab[i][2]
          PROVE  /\ result'.string = MimeTab[i][3] /\ result'.type = MimeTab[i][1]
                 /\ result'.named = result'.string
                 /\ OwnName(i) => result'.back = result'.type
      <4>1. i \in 1 .. 27
        BY RowCount
      <4>2. f.stem \in Seq(STRING)
        BY LibraryAssumption
      <4> DEFINE ext == MimeTab[i][2]
      <4>3. ext = <<>> \/ (ext = <<ext[1]>> /\ ext[1] # ".")
        BY <4>1, Pieces
      <4> HIDE DEF ext
      <4>4. Extension(f.stem \o (<<".">> \o ext)) = {ext}
        BY <4>2, <4>3, LastDot
      <4>5. Extension(path) = {MimeTab[i][2]}
        BY <3>2, <4>4 DEF ext
      <4> HIDE DEF path
      <4> QED BY SMTT(60), <3>1, <4>1, <4>5, TypeAnswered
    <3> QED BY <3>1, <3>2 DEF MimeAgrees
  <2>3. ASSUME asked'.call # "mime" PROVE MimeAgrees'
    BY <2>3 DEF MimeAgrees
  <2> QED BY <1>2, <2>1, <2>2, <2>3, Calls
<1> QED BY <1>1, <1>2, PTL DEF Spec

\* What Utf8RoundTrip says of a text, cut or whole, and what came back.
PointsBack(points, cut, r) ==
  /\ r.points = Formed(points)[Len(points) - (IF cut = 0 THEN 0 ELSE 1)]
  /\ (r.left = 0) = (cut = 0)

\* Whatever text is encoded, it comes back point by point, and one cut inside its
\* last character gives those before it and is left over (butil.c:195-307).
THEOREM TextsReadBack == Spec => []Utf8RoundTrip
<1>1. Init => Utf8RoundTrip
  BY DEF Init, Utf8RoundTrip, Nothing
<1>2. ASSUME Utf8RoundTrip, [Next]_vars PROVE Utf8RoundTrip'
  <2>1. CASE UNCHANGED vars
    BY <1>2, <2>1 DEF vars, Utf8RoundTrip
  <2>2. ASSUME NEW points \in PointLists, NEW cut \in 0 .. 3, Utf8Call(points, cut)
        PROVE  Utf8RoundTrip'
    <3> DEFINE t == Utf8Texts(points)
               f == Formed(points)
               n == Len(points)
               w == UpTo(t[n], Len(t[n]) - cut)
               got == DecodeAll(w)
    <3>1. /\ asked'.points = points /\ asked'.cut = cut
          /\ result' = [left |-> Len(w) - got.at, points |-> got.points]
          /\ cut > 0 => cut < Len(Utf8Encode(points[n]))
      BY <2>2 DEF Utf8Call
    <3>2. points \in Seq(Nat) /\ points # <<>> /\ SizeLimit \in Nat /\ Len(t[n]) < SizeLimit - 1
      BY LibraryAssumption
    <3>3. n >= 1
      BY <3>2
    <3>4. TextsAre(points, t) /\ FormedAre(points, f)
      BY <3>2, TextIs, FormedIs
    <3>5. cut \in Nat
      OBVIOUS
    <3> HIDE DEF t, f
    <3>6. CutText(points, t, f, cut, w)
      BY <3>1, <3>2, <3>3, <3>4, <3>5 DEF CutText
    <3> HIDE DEF w
    <3>7. /\ got.points = f[n - (IF cut = 0 THEN 0 ELSE 1)]
          /\ Len(w) - got.at = 0 <=> cut = 0
      BY <3>6, DecodedAll
    <3> HIDE DEF got
    <3>8. result'.points = got.points /\ result'.left = Len(w) - got.at
      BY <3>1
    <3>9. PointsBack(points, cut, result')
      BY <3>7, <3>8 DEF PointsBack, f
    <3>10. PointsBack(asked'.points, asked'.cut, result')
      BY <3>1, <3>9
    <3>11. (asked'.call = "utf8" => PointsBack(asked'.points, asked'.cut, result'))
             => Utf8RoundTrip'
      BY DEF PointsBack, Utf8RoundTrip
    <3> QED BY <3>10, <3>11
  <2>3. ASSUME asked'.call # "utf8" PROVE Utf8RoundTrip'
    BY <2>3 DEF Utf8RoundTrip
  <2> QED BY <1>2, <2>1, <2>2, <2>3, Calls
<1> QED BY <1>1, <1>2, PTL DEF Spec

\* What Base64RoundTrip says of a buffer and what came back.
BytesBack(b, r) ==
  Percent \notin {r.text[i] : i \in DOMAIN r.text} =>
    /\ r.back.ok
    /\ IsPrefix(r.back.data, b.src)
    /\ r.ok => r.back.data = b.src

\* Whatever is encoded, in either alphabet and into any room, is decoded to the
\* same bytes, or to the first of them (butil.c:309-524).
THEOREM BytesReadBack == Spec => []Base64RoundTrip
<1>1. Init => Base64RoundTrip
  BY DEF Init, Base64RoundTrip, Nothing
<1>2. ASSUME Base64RoundTrip, [Next]_vars PROVE Base64RoundTrip'
  <2>1. CASE UNCHANGED vars
    BY <1>2, <2>1 DEF vars, Base64RoundTrip
  <2>2. ASSUME NEW b \in Buffers, Base64Call(b) PROVE Base64RoundTrip'
    <3>1. /\ asked'.buffer = b /\ result'.text = Encode64(b).text /\ result'.ok = Encode64(b).ok
          /\ result'.back = Decode64(Encode64(b).text)
      BY <2>2 DEF Base64Call
    <3>2. BytesBack(b, result')
      <4> SUFFICES ASSUME Percent \notin {result'.text[i] : i \in DOMAIN result'.text}
                   PROVE  /\ result'.back.ok
                          /\ IsPrefix(result'.back.data, b.src)
                          /\ result'.ok => result'.back.data = b.src
        BY DEF BytesBack
      <4>1. Encode64(b).text \in Seq(Nat)
        <5>1. PICK m, st : SoFar(b, Groups(b), m, st) /\ Encode64(b).text = st.text
          BY EncodeIs
        <5> QED BY <5>1 DEF SoFar
      <4>2. NoPercent(Encode64(b).text)
        BY <3>1, <4>1 DEF NoPercent
      <4> QED BY <3>1, <4>2, EncodedThenDecoded
    <3>3. BytesBack(asked'.buffer, result')
      BY <3>1, <3>2
    <3>4. (asked'.call = "base64" => BytesBack(asked'.buffer, result')) => Base64RoundTrip'
      BY DEF BytesBack, Base64RoundTrip
    <3> QED BY <3>3, <3>4
  <2>3. ASSUME asked'.call # "base64" PROVE Base64RoundTrip'
    BY <2>3 DEF Base64RoundTrip
  <2> QED BY <1>2, <2>1, <2>2, <2>3, Calls
<1> QED BY <1>1, <1>2, PTL DEF Spec

\* Without escapes an encoding fails exactly when it may not fit, and what is
\* written always does, for every source and every room (butil.c:451).
THEOREM EncodedFits == Spec => []Base64Fits
<1>1. Init => Base64Fits
  BY DEF Init, Base64Fits, Nothing
<1>2. ASSUME Base64Fits, [Next]_vars PROVE Base64Fits'
  <2>1. CASE UNCHANGED vars
    BY <1>2, <2>1 DEF vars, Base64Fits
  <2>2. ASSUME NEW b \in Buffers, Base64Call(b) PROVE Base64Fits'
    <3>1. asked'.buffer = b /\ result'.text = Encode64(b).text /\ result'.ok = Encode64(b).ok
      BY <2>2 DEF Base64Call
    <3>2. Encode64(b).ok \in BOOLEAN
      BY DEF Encode64
    <3>3. ASSUME ~ b.hex
          PROVE  /\ result'.ok = (Groups(b) = 0 \/ 4 * Groups(b) < b.outsize)
                 /\ Len(result'.text) < b.outsize
      <4>1. /\ Encode64(b).ok <=> Groups(b) = 0 \/ 4 * Groups(b) < b.outsize
            /\ Len(Encode64(b).text) < b.outsize
        BY <3>3, EncodingFits
      <4> QED BY <3>1, <3>2, <4>1
    <3> QED BY <3>1, <3>3 DEF Base64Fits
  <2>3. ASSUME asked'.call # "base64" PROVE Base64Fits'
    BY <2>3 DEF Base64Fits
  <2> QED BY <1>2, <2>1, <2>2, <2>3, Calls
<1> QED BY <1>1, <1>2, PTL DEF Spec

=============================================================================
