------------------------------- MODULE MCArgs -------------------------------
(***************************************************************************)
(* Command lines of up to MaxWords words for Args.                         *)
(***************************************************************************)
EXTENDS Args

CONSTANTS Words, MaxWords

DigitValues == [c \in {"1", "2"} |-> IF c = "1" THEN 1 ELSE 2]

\* Options with and without a number, numbers, a URL, and words that are none.
PlainWords ==
  { <<"-", "p">>, <<"-", "p", "1", "2">>, <<"-", "l">>, <<"-", "l", "2">>,
    <<"1">>, <<"2", "1">>, <<"u">>, <<"p", "1">>, <<>>, <<"-">>,
    <<"-", "l", "1", "u">>, <<"-", "p", "1", "-", "l", "2">>, <<"-", "u">> }

\* An x that is, or may become, the letter of an option, and one that is not.
XWords == { <<"-", "x">>, <<"-", "u", "x">>, <<"-", "p", "1", "u", "x">>, <<"1", "u", "x">>,
            <<"-", "l", "x">> }

AllWords == PlainWords \cup XWords

Letters == UNION {{w[i] : i \in DOMAIN w} : w \in AllWords}

WithX == {<<"-", "x">>, <<"u">>}

ShortLines == SeqOf(Words, MaxWords)
=============================================================================
