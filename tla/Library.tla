------------------------------ MODULE Library ------------------------------
(***************************************************************************)
(* The library of butil.c as its caller sees it: the URL functions and the *)
(* table of user schemes (Url), UTF-8 and base64 (Codec), dates (Dates)    *)
(* and file types (Mime).  A caller calls any of them in any order; what   *)
(* was asked and what came back is kept until the caller has used it.      *)
(***************************************************************************)
EXTENDS Url, Codec, Dates, Mime

CONSTANTS
  PointLists,   \* texts to be encoded, as sequences of code points
  Buffers,      \* what is encoded in base64, and how: src, url, hex, outsize
  DateCalls,    \* dates to be read and written: date, zone, room
  Files         \* paths: stem, and extension with its dot

ASSUME LibraryAssumption ==
  /\ PointLists \subseteq Seq(Nat) \ {<<>>} /\ SizeLimit \in Nat
  /\ \A points \in PointLists : Len(Utf8Texts(points)[Len(points)]) < SizeLimit - 1
  /\ Years \subseteq Nat
  /\ \A d \in DateCalls :
       /\ d.date \in [day : Nat, month : Seq(STRING), year : Years, hh : Nat, mm : Nat, ss : Nat]
       /\ d.zone \in [early : Int, standard : Int] /\ d.room \in BOOLEAN
  /\ \A b \in Buffers :
       /\ b.src \in Seq(Byte) /\ b.url \in BOOLEAN /\ b.hex \in BOOLEAN
       /\ b.outsize \in Nat /\ b.outsize >= 4
  /\ \A f \in Files : f.stem \in Seq(STRING)

-----------------------------------------------------------------------------
(* Calls. *)

\* An answer of the decoder is progress if it is a number of bytes that are there.
Progress(read, left) == read \in 1 .. left

\* One pass of a caller's loop over a buffer, until nothing is left or the answer
\* is no progress: the bytes read and the points found.  (Nothing in src calls
\* the decoder.  A caller that only looked for 0 would take SIZE_MAX for progress.)
DecodeNext(w, st) ==
  LET d == Utf8Decode(From(w, st.at)) IN
    IF st.at >= Len(w) \/ ~ Progress(d.read, Len(w) - st.at) THEN st
    ELSE [at |-> st.at + d.read, points |-> Append(st.points, d.point)]

DecodeAll(w) ==
  LET done[k \in 0 .. Len(w)] ==
        IF k = 0 THEN [at |-> 0, points |-> <<>>] ELSE DecodeNext(w, done[k - 1])
  IN done[Len(w)]

\* A text is encoded point by point, and read back without its last `cut' bytes.
Utf8Call(points, cut) ==
  LET text == Utf8Texts(points)[Len(points)]
      w    == UpTo(text, Len(text) - cut)
      got  == DecodeAll(w)
  IN /\ cut > 0 => cut < Len(Utf8Encode(points[Len(points)]))
     /\ asked' = [call |-> "utf8", points |-> points, cut |-> cut]
     /\ result' = [left |-> Len(w) - got.at, points |-> got.points]
     /\ UNCHANGED user

Base64Call(b) ==
  LET enc == Encode64(b) IN
    /\ asked' = [call |-> "base64", buffer |-> b]
    /\ result' = [ok |-> enc.ok, text |-> enc.text, back |-> Decode64(enc.text)]
    /\ UNCHANGED user

DateCall(d) ==
  LET t == DateToTime(d.date, d.zone) IN
    /\ asked' = [call |-> "date", of |-> d]
    /\ result' = [time |-> t, date |-> TimeToDate(t, d.room)]
    /\ UNCHANGED user

MimeCall(f) ==
  LET path   == f.stem \o f.ext
      string == MimeStringForFile(path)
      type   == ContentTypeForFile(path)
  IN /\ asked' = [call |-> "mime", file |-> f]
     /\ result' = [string |-> string, type |-> type, named |-> MimeStringForType(type),
                   back |-> ContentTypeForMime(string)]
     /\ UNCHANGED user

TextCalls ==
  \/ \E points \in PointLists, cut \in 0 .. 3 : Utf8Call(points, cut)
  \/ \E b \in Buffers : Base64Call(b)
  \/ \E d \in DateCalls : DateCall(d)
  \/ \E f \in Files : MimeCall(f)

\* The caller has looked at the result.
Used ==
  /\ asked # Nothing
  /\ asked' = Nothing /\ result' = Failed
  /\ UNCHANGED user

Next ==
  \/ asked = Nothing /\ (UrlCalls \/ TextCalls)
  \/ Used

Spec == Init /\ [][Next]_vars

-----------------------------------------------------------------------------
(* Properties *)

\* The points UTF-8 has a form for, and the first k points without the others,
\* for every k.
HasForm(u) == u < 2097152
Formed(points) ==
  LET f[k \in 0 .. Len(points)] ==
        IF k = 0 THEN <<>>
        ELSE IF HasForm(points[k]) THEN Append(f[k - 1], points[k]) ELSE f[k - 1]
  IN f

\* A text comes back from its encoding point by point, without the points UTF-8
\* has no form for, and nothing is left.  One cut inside its last character gives
\* those before it, and what is left of that: none of the two answers to half a
\* character is a number of bytes that are there (butil.c:195-307).
Utf8RoundTrip ==
  asked.call = "utf8" =>
    LET whole == Len(asked.points) - (IF asked.cut = 0 THEN 0 ELSE 1) IN
      /\ result.points = Formed(asked.points)[whole]
      /\ (result.left = 0) = (asked.cut = 0)

\* What was encoded in either alphabet, padded or not, is decoded to the same
\* bytes, and to the first of them when the encoding was cut for lack of room;
\* a text with an escape in it is not for the decoder (butil.c:309-524).
Base64RoundTrip ==
  asked.call = "base64" /\ Percent \notin {result.text[i] : i \in DOMAIN result.text} =>
    /\ result.back.ok
    /\ IsPrefix(result.back.data, asked.buffer.src)
    /\ result.ok => result.back.data = asked.buffer.src

\* The encoding fails exactly when the text and its terminating 0 may not fit,
\* and what it writes always does (butil.c:451, without escapes).
Base64Fits ==
  asked.call = "base64" /\ ~ asked.buffer.hex =>
    LET groups == Groups(asked.buffer) IN
      /\ result.ok = (groups = 0 \/ 4 * groups < asked.buffer.outsize)
      /\ Len(result.text) < asked.buffer.outsize

\* A date of the calendar.
Real(d) ==
  \E m \in 1 .. 12 :
    /\ d.month = Months[m]
    /\ d.day \in 1 .. (IF m = 12 THEN 31 ELSE ToMonth(d.year, m + 1) - ToMonth(d.year, m))

\* Words the code takes for June or July, and which may be neither: after a j that
\* no a follows only the third letter counts (butil.c:997-1018).
ByItsEnds(w) == w[1] = "j" /\ w[2] # "a" /\ w[3] \in {"n", "l"}

\* A date is read as the time that is written as this date again.  In a zone that
\* has changed its offset since January 1970 the time is off by the change, and
\* by nothing else.  A number out of its range, and a word that is no month, are
\* answered with 0, but for the words that are taken for June or July by their
\* ends (butil.c:938-1145).
DatesInverse ==
  asked.call = "date" =>
    LET d == asked.of.date
        z == asked.of.zone
    IN /\ InRange(d) /\ Real(d) =>
            /\ DateAt(result.time - (z.early - z.standard)) = d
            /\ z.early = z.standard /\ asked.of.room => result.date = d
       /\ \/ ~ InRange(d)
          \/ d.month \notin {Months[m] : m \in 1 .. 12} /\ ~ ByItsEnds(d.month)
          => result.time = 0

\* The first row whose name starts the i-th row's name has its type too.
OwnName(i) ==
  \A j \in 1 .. i - 1 : IsPrefix(MimeTab[j][3], MimeTab[i][3]) => MimeTab[j][1] = MimeTab[i][1]

\* The four functions agree: a file has the name and the type of the row of its
\* extension, whatever dots are in the path before it, that type has this name,
\* and the name has this type unless another row's name starts it
\* (butil.c:1239-1340).
MimeAgrees ==
  asked.call = "mime" =>
    \A i \in DOMAIN MimeTab : asked.file.ext = <<".">> \o MimeTab[i][2] =>
      /\ result.string = MimeTab[i][3] /\ result.type = MimeTab[i][1]
      /\ result.named = result.string
      /\ OwnName(i) => result.back = result.type

=============================================================================
