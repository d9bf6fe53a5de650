-------------------------------- MODULE Args --------------------------------
(***************************************************************************)
(* The option loop of main.cc.  A word of the command line is a sequence   *)
(* of characters.  `arg' points into the word being read and `argi' is an  *)
(* index from there, as in the code: a number's digits are skipped by      *)
(* letting arg point behind them, and then argi starts again from 0.       *)
(***************************************************************************)
EXTENDS Integers, Sequences, SequencesExt

CONSTANTS
  Chars,        \* the characters of words
  Lines,        \* the command lines, without the program's name
  Value,        \* the digits, and their values
  PortLimit,    \* local_port has 16 bits: 65536
  DefaultPort,  \* 4445
  DefaultLevel  \* 5

Nul == "nul"    \* what a string ends with

ASSUME ArgsAssumption ==
  /\ Nul \notin Chars /\ Lines \subseteq Seq(Seq(Chars))
  /\ \A c \in DOMAIN Value : Value[c] \in 0 .. 9
  /\ DOMAIN Value \cap {"-", "p", "l", "x"} = {}
  /\ PortLimit \in Nat \ {0}
  /\ DefaultPort \in 0 .. PortLimit - 1 /\ DefaultLevel \in Nat

VARIABLES
  line,         \* the command line the program was started with
  next,         \* how many of its words have been taken
  pc,           \* where the loop is
  arg,          \* what is left of the word being read
  argi,         \* index into arg, from 0
  result,       \* the line is refused
  localPort, loglevel, passthrough, serverUrl

optionVars == <<localPort, loglevel, passthrough, serverUrl>>
vars       == <<line, next, pc, arg, argi, result, optionVars>>

Char(w, i) == IF i < Len(w) THEN w[i + 1] ELSE Nul

\* What strtoul reads from a word: the digits at its start, none giving 0, ...
Digits(w) ==
  CHOOSE n \in 0 .. Len(w) :
    /\ \A i \in 1 .. n : w[i] \in DOMAIN Value
    /\ n < Len(w) => w[n + 1] \notin DOMAIN Value

Number(w) == FoldLeft(LAMBDA v, c : 10 * v + Value[c], 0, SubSeq(w, 1, Digits(w)))

\* Faulty form of Rest: what follows the digits is not looked at.
NoRest(w) == <<>>

\* ... and where it leaves arg.
Rest(w) == SubSeq(w, Digits(w) + 1, Len(w))

-----------------------------------------------------------------------------
Init ==
  /\ line \in Lines /\ next = 0
  /\ pc = "word" /\ arg = <<>> /\ argi = 1
  /\ result = FALSE
  /\ localPort = DefaultPort /\ loglevel = DefaultLevel
  /\ passthrough = FALSE /\ serverUrl = <<>>

MoreWords == next < Len(line)
Upcoming  == line[next + 1]

\* A word that is no option is the URL; the last one counts.
TakeUrl ==
  /\ pc = "word" /\ MoreWords /\ ~ result
  /\ Char(Upcoming, 0) # "-"
  /\ serverUrl' = Upcoming
  /\ next' = next + 1
  /\ UNCHANGED <<line, pc, arg, argi, result, localPort, loglevel, passthrough>>

TakeOption ==
  /\ pc = "word" /\ MoreWords /\ ~ result
  /\ Char(Upcoming, 0) = "-"
  /\ arg' = Upcoming /\ argi' = 1
  /\ next' = next + 1
  /\ pc' = "switch"
  /\ UNCHANGED <<line, result, optionVars>>

\* Faulty form of ValueStart: the index is not set back in the new word.
SecondInNext == 2
ValueStart   == 0

\* The number of an option is in the rest of the word or in the next word.
\* Without either strtoul reads the empty rest of the word.
ValueText ==
  IF Char(arg, argi + 1) # Nul THEN SubSeq(arg, argi + 2, Len(arg))
  ELSE IF MoreWords THEN SubSeq(Upcoming, ValueStart + 1, Len(Upcoming))
  ELSE <<>>

NoValue == Char(arg, argi + 1) = Nul /\ ~ MoreWords

\* Faulty form of ReadValue: the index counts on from the old word.
IndexKept ==
  /\ next' = IF Char(arg, argi + 1) = Nul /\ MoreWords THEN next + 1 ELSE next
  /\ arg' = Rest(ValueText) /\ argi' = argi + 1
  /\ pc' = "more"

ReadValue ==
  /\ next' = IF Char(arg, argi + 1) = Nul /\ MoreWords THEN next + 1 ELSE next
  /\ arg' = Rest(ValueText) /\ argi' = 0
  /\ pc' = "more"

OptionP ==
  /\ pc = "switch" /\ Char(arg, 1) = "p"
  /\ ReadValue
  /\ localPort' = Number(ValueText) % PortLimit
  /\ result' = (result \/ NoValue)
  /\ UNCHANGED <<line, loglevel, passthrough, serverUrl>>

\* Without a number the level is 0, and the line is not refused.
OptionL ==
  /\ pc = "switch" /\ Char(arg, 1) = "l"
  /\ ReadValue
  /\ loglevel' = Number(ValueText)
  /\ UNCHANGED <<line, result, localPort, passthrough, serverUrl>>

OptionX ==
  /\ pc = "switch" /\ Char(arg, 1) = "x"
  /\ passthrough' = TRUE
  /\ pc' = "more"
  /\ UNCHANGED <<line, next, arg, argi, result, localPort, loglevel, serverUrl>>

\* Faulty form of BadSwitch: the letter is reported, the line not refused.
Tolerated ==
  /\ pc = "switch" /\ Char(arg, 1) \notin {"p", "l", "x"}
  /\ pc' = "more"
  /\ UNCHANGED <<line, next, arg, argi, result, optionVars>>

BadSwitch ==
  /\ pc = "switch" /\ Char(arg, 1) \notin {"p", "l", "x"}
  /\ result' = TRUE
  /\ pc' = "more"
  /\ UNCHANGED <<line, next, arg, argi, optionVars>>

\* while (!result && arg && arg[argi])
SameWord ==
  /\ pc = "more"
  /\ pc' = IF ~ result /\ Char(arg, argi) # Nul THEN "switch" ELSE "word"
  /\ UNCHANGED <<line, next, arg, argi, result, optionVars>>

\* The end of the loop: the usage text, or on with the options.
Conclude ==
  /\ pc = "word" /\ (~ MoreWords \/ result)
  /\ pc' = IF result \/ serverUrl = <<>> THEN "usage" ELSE "run"
  /\ UNCHANGED <<line, next, arg, argi, result, optionVars>>

Step ==
  \/ TakeUrl \/ TakeOption
  \/ OptionP \/ OptionL \/ OptionX \/ BadSwitch
  \/ SameWord \/ Conclude

Concluded == pc \in {"usage", "run"} /\ UNCHANGED vars

Next == Step \/ Concluded

Spec == Init /\ [][Next]_vars

FairSpec == Spec /\ WF_vars(Step)

-----------------------------------------------------------------------------
(* What the usage text (main.cc:8) says of a line:                         *)
(* [-p local-port] [-l log-level] [-x] smb-server-url, here in any order,  *)
(* a number in the option's word or in the next.                           *)

\* An empty word reads as 0.
IsNumber(w) == Digits(w) = Len(w)

\* What has been said of a setting: nothing, or the set of one value.
Silent == [legal |-> TRUE, p |-> {}, l |-> {}, x |-> {}, url |-> {}]

\* A word that is not understood.
Unclear == [legal |-> FALSE, p |-> {}, l |-> {}, x |-> {}, url |-> {}]

\* What is said later counts.
Said(later, what, v) == IF later[what] = {} THEN [later EXCEPT ![what] = {v}] ELSE later

\* The words that are followed by a number.
Takes(w) == Len(w) >= 2 /\ w[1] = "-" /\ w[2] \in {"p", "l"}

\* What is said from the i-th word on, given what is said from the later ones.
From(words, i, says) ==
  LET w == words[i] IN
    IF Char(w, 0) # "-" THEN Said(says[i + 1], "url", w)
    ELSE IF w = <<"-", "x">> THEN Said(says[i + 1], "x", TRUE)
    ELSE IF Takes(w) /\ Len(w) > 2 /\ IsNumber(SubSeq(w, 3, Len(w)))
      THEN Said(says[i + 1], w[2], Number(SubSeq(w, 3, Len(w))))
    ELSE IF Takes(w) /\ Len(w) = 2 /\ i < Len(words) /\ IsNumber(words[i + 1])
      THEN Said(says[i + 2], w[2], Number(words[i + 1]))
    ELSE Unclear

Says(words) ==
  LET says[i \in 1 .. Len(words) + 1] ==
        IF i = Len(words) + 1 THEN Silent ELSE From(words, i, says)
  IN says

Meaning(words) == Says(words)[1]

\* A line of the usage text, with a URL and with a port that is one.
Proper(m) == m.legal /\ m.url \notin {{}, {<<>>}} /\ m.p \subseteq 0 .. PortLimit - 1

\* The value a setting has in the end.
Settled(said, default, v) == v \in (IF said = {} THEN {default} ELSE said)

\* A line of the usage text is run with the options it names and the defaults
\* of the others, wherever the numbers stand and whatever the order, and a line
\* that ends is not mistaken for another (main.cc:47-112).
Understood ==
  LET m == Meaning(line) IN
    pc \in {"usage", "run"} /\ Proper(m) =>
      /\ pc = "run"
      /\ Settled(m.p, DefaultPort, localPort) /\ Settled(m.l, DefaultLevel, loglevel)
      /\ Settled(m.x, FALSE, passthrough) /\ serverUrl \in m.url

EndsInL == line # <<>> /\ line[Len(line)] = <<"-", "l">>

\* A line is run only if every word of it was understood: text behind a number,
\* an unknown letter or a missing port lead to the usage text (main.cc:99-105),
\* except that a level may be missing at the end.
NothingIgnored ==
  pc = "run" => Meaning(line).legal \/ EndsInL

\* No read goes behind the end of a word (Len(arg) is the index of its nul):
\* arg[1] of the switch, arg[argi] behind the letter of -p and -l, arg[argi]
\* of the loop's condition (main.cc:58, 62, 81, 105), wherever strtoul left arg.
ReadsInside ==
  /\ pc = "switch" =>
       /\ 1 <= Len(arg)
       /\ Char(arg, 1) \in {"p", "l"} => argi + 1 <= Len(arg)
  /\ pc = "more" /\ ~ result => argi <= Len(arg)

\* The loop ends on every line, whatever is wrong with it, or comes to an x
\* where it looks for the letter of an option, in -x, -ux, -p1ux or the 1ux
\* after a -p: arg and argi come to the end of each word (main.cc:56-105).
EndsUnlessX == <>(pc \in {"usage", "run"} \/ passthrough)

\* How far the loop's place is from the end of a round of the inner loop.
Place == [more |-> 2, switch |-> 1, word |-> 1, usage |-> 0, run |-> 0]

\* Words have been taken, or the word has become shorter, or the line has been
\* refused, or else the loop is further in its round; nothing of it is undone.
Nearer ==
  /\ next <= next' /\ next' <= Len(line) /\ line' = line
  /\ next' = next =>
       /\ Len(arg') <= Len(arg) /\ (result => result')
       /\ Len(arg') = Len(arg) /\ (result' => result) => Place[pc'] < Place[pc]

\* Every step but that of -x brings the loop nearer to its end, so that no
\* option can keep it in its word, wherever strtoul leaves arg (main.cc:56-107).
Advances == [][OptionX \/ Nearer]_vars

\* The program gets through its command line, whatever it is; the usage text
\* (main.cc:8) names -x among the options it may hold.
GetsThrough == <>(pc \in {"usage", "run"})

=============================================================================
