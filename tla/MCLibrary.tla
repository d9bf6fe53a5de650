----------------------------- MODULE MCLibrary -----------------------------
(***************************************************************************)
(* Short URLs and two slots for user schemes, and texts, buffers, dates    *)
(* and paths at the limits of their formats, for Library.  A scheme's name *)
(* longer than two characters is cut when it is registered and too long in *)
(* a URL.                                                                  *)
(***************************************************************************)
EXTENDS Library

CONSTANT UrlLength

DigitValues == [c \in {"0", "1"} |-> IF c = "1" THEN 1 ELSE 0]
Ports       == [name \in Known |-> IF name = "https" THEN 4 ELSE 8]

SomeNames == {<<"u">>, <<"u", "v">>, <<"h", "u", "v">>, <<"https">>, <<>>}
Letters   == {"https", "file", ":", "/", "h", "u", "1"}
SomeChars == Letters \cup Known \cup {"v", "0"}
ShortUrls == SeqOf(Letters, UrlLength)

SomeParts ==
  [scheme : {"builtin"} \X (Printed \cup Known) \cup {"user"} \X (1 .. NumUser),
   host : {<<"h">>, <<"h", "1", "u">>},
   port : {1, 10, 11},
   path : {<<>>, <<"/">>, <<"h">>, <<"/", ":">>, <<"/", "/">>}]

\* The first and the last point of each form.
SomePoints ==
  UNION {[1 .. n -> {0, 127, 128, 2047, 2048, 65535, 65536, 2097151, 2097152}] : n \in 1 .. 2}

\* 251 and 255 give the last characters of the alphabet.
SomeBuffers ==
  LET sources == UNION {[1 .. n -> {0, 107, 251, 255}] : n \in 0 .. 4}
  IN [src : sources, url : BOOLEAN, hex : {FALSE}, outsize : 4 .. 9]
       \cup [src : sources, url : BOOLEAN, hex : {TRUE}, outsize : {32}]

\* February of leap years and others, the ends of the century and of the time
\* a signed 32-bit number holds, and words and numbers that are no date's.
SomeYears == 1969 .. 2038
SomeDates ==
  [date : [day : {0, 1, 28, 29, 31, 32},
           month : {Months[m] : m \in 1 .. 12} \cup {<<"j", "x", "n">>, <<"j", "u", "x">>, <<"j", "a", "l">>, <<"m", "a", "i">>},
           year : {1970, 1999, 2000, 2037},
           hh : {0, 23, 24}, mm : {59}, ss : {59}],
   zone : {[early |-> -18000, standard |-> -18000], [early |-> 3600, standard |-> 0]},
   room : {TRUE}]
  \cup [date : [day : {31}, month : {Months[12]}, year : {1999}, hh : {0}, mm : {0, 60}, ss : {0, 60}],
        zone : {[early |-> 0, standard |-> 0]}, room : BOOLEAN]

SomeFiles ==
  [stem : {<<>>, <<"a">>, <<"a", ".", "css">>, <<".", "txt", "/", "a">>},
   ext : {<<>>, <<".", "none">>} \cup {<<".">> \o MimeTab[i][2] : i \in DOMAIN MimeTab}]
=============================================================================
