------------------------------- MODULE Codec -------------------------------
(***************************************************************************)
(* The character encodings of butil.c as operators: UTF-8 and base64.  A   *)
(* byte and a code point are numbers, a buffer is a sequence of them.      *)
(***************************************************************************)
EXTENDS Integers, Sequences, FiniteSets, SequencesExt

CONSTANT SizeLimit   \* a size_t wraps there: SIZE_MAX + 1

Byte == 0 .. 255

-----------------------------------------------------------------------------
(* UTF-8 *)

Utf8Limits == <<128, 2048, 65536, 2097152>>    \* 0x80, 0x800, 0x10000, 0x200000

\* A trailing byte: six bits of the code point, the lowest at shift 0.
Trail(u, shift) == 128 + ((u \div 64 ^ shift) % 64)

\* Faulty form of Width: the limits belong to the shorter form.
WideWidth(u) == Cardinality({n \in 1 .. 4 : u > Utf8Limits[n]}) + 1

\* How many bytes u takes; a point of five or more is not encoded.
Width(u) == Cardinality({n \in 1 .. 4 : u >= Utf8Limits[n]}) + 1

\* butil_utf8_encode.
Utf8Encode(u) ==
  CASE Width(u) = 1 -> <<u>>
    [] Width(u) = 2 -> <<192 + (u \div 64), Trail(u, 0)>>
    [] Width(u) = 3 -> <<224 + (u \div 64 ^ 2), Trail(u, 1), Trail(u, 0)>>
    [] Width(u) = 4 -> <<240 + (u \div 64 ^ 3), Trail(u, 2), Trail(u, 1), Trail(u, 0)>>
    [] OTHER        -> <<>>

Bit(b, n) == (b \div n) % 2 = 1

\* The trailing bytes the first one announces; a stray trailing byte is taken
\* for a first one.
Trailing(b) ==
  IF ~ Bit(b, 128) THEN 0 ELSE IF ~ Bit(b, 32) THEN 1 ELSE IF ~ Bit(b, 16) THEN 2 ELSE 3

\* butil_utf8_decode of a buffer that is not empty: bytes read, and the point.
\* When it ends too early the answer is 0, but -1, as a size_t, in a form of two.
Utf8Decode(w) ==
  LET n    == Trailing(w[1])
      b(i) == w[i] % 64
  IN IF Len(w) - 1 < n THEN [read |-> IF n = 1 THEN SizeLimit - 1 ELSE 0]
     ELSE [read  |-> n + 1,
           point |-> CASE n = 0 -> w[1]
                       [] n = 1 -> (w[1] % 32) * 64 + b(2)
                       [] n = 2 -> ((w[1] % 16) * 64 + b(2)) * 64 + b(3)
                       [] n = 3 -> (((w[1] % 8) * 64 + b(2)) * 64 + b(3)) * 64 + b(4)]

\* A text of k points, for every k.
Utf8Texts(points) ==
  LET text[k \in 0 .. Len(points)] ==
        IF k = 0 THEN <<>> ELSE text[k - 1] \o Utf8Encode(points[k])
  IN text

-----------------------------------------------------------------------------
(* Base64.  A character is the number of its place in the alphabet; the    *)
(* characters outside of it follow: '-' and '_' of the URL alphabet, '='   *)
(* and the '%' of an escape.                                               *)

Dash       == 64
Underscore == 65
Equals     == 66
Percent    == 67

Symbol(v, url) == IF url /\ v >= 62 THEN v + 2 ELSE v

\* base64_hexencode_byte: '+', '/' and '=' become %2B, %2F and %3D.
Escaped(c) ==
  CASE c = 62     -> <<Percent, 54, 1>>
    [] c = 63     -> <<Percent, 54, 5>>
    [] c = Equals -> <<Percent, 55, 3>>
    [] OTHER      -> <<c>>

\* Faulty form of Sextets: the second and the third byte are not spread.
ThinSextets(a, b, c) == <<a \div 4, ((a % 4) * 16) + (b \div 16), b % 16, c % 64>>
Sextets(a, b, c) ==
  <<a \div 4, ((a % 4) * 16) + (b \div 16), ((b % 16) * 4) + (c \div 64), c % 64>>

\* The bytes of src, and zeros behind its end.
Padded(src, i) == IF i <= Len(src) THEN src[i] ELSE 0

\* The characters for three bytes of src from the k-th on, or for those left.
Group(src, k, url, hex) ==
  LET out(c)  == IF hex THEN Escaped(c) ELSE <<c>>
      s       == Sextets(Padded(src, k), Padded(src, k + 1), Padded(src, k + 2))
      pad     == IF url /\ ~ hex THEN <<>> ELSE out(Equals)
      last(i) == IF k + i - 2 <= Len(src) THEN out(Symbol(s[i], url)) ELSE pad
  IN out(Symbol(s[1], url)) \o out(Symbol(s[2], url)) \o last(3) \o last(4)

\* Faulty form of Fits: no room is kept for the terminating 0.
FitsExactly(used, outsize) == used <= outsize - 4
Fits(used, outsize)        == used < outsize - 4

\* The loop of butil_base64_encode: one more group of b.src if there is room; a
\* group that is not escaped counts for four.
AddGroup(b, st) ==
  LET g == Group(b.src, st.next, b.url, b.hex) IN
    IF Fits(st.used, b.outsize)
    THEN [text |-> st.text \o g, used |-> st.used + (IF b.hex THEN Len(g) ELSE 4), next |-> st.next + 3]
    ELSE st

Groups(b) == (Len(b.src) + 2) \div 3

\* butil_base64_encode of b.src into b.outsize >= 4 characters.
Encode64(b) ==
  LET done[k \in 0 .. Groups(b)] ==
        IF k = 0 THEN [text |-> <<>>, used |-> 0, next |-> 1] ELSE AddGroup(b, done[k - 1])
      all == done[Groups(b)]
  IN [ok |-> all.next > Len(b.src), text |-> all.text]

InAlphabet(c) == c <= Underscore
Sextet(c)     == IF c \in {Dash, Underscore} THEN c - 2 ELSE c

\* The part of text that is read: up to the first character of no alphabet.
Readable(text) ==
  LET stop == SelectInSeq(text, LAMBDA c : ~ InAlphabet(c))
  IN IF stop = 0 THEN text ELSE SubSeq(text, 1, stop - 1)

\* butil_base64_decode into a buffer with room (four bytes at least, which the
\* loop asks for again at every character, and never fewer).  Four characters
\* give three bytes, three give two, two give one, and one is an error.
Decode64(text) ==
  LET used  == Readable(text)
      at(i) == IF i <= Len(used) THEN Sextet(used[i]) ELSE 0
      bits(g) == ((at(4 * g + 1) * 64 + at(4 * g + 2)) * 64 + at(4 * g + 3)) * 64 + at(4 * g + 4)
      byte(n) == (bits(n \div 3) \div 256 ^ (2 - (n % 3))) % 256
  IN [ok   |-> Len(used) % 4 # 1,
      data |-> [n \in 1 .. (3 * Len(used)) \div 4 |-> byte(n - 1)]]
=============================================================================
