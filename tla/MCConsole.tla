----------------------------- MODULE MCConsole -----------------------------
(***************************************************************************)
(* A small instance of Console: a buffer of 19 characters, of which the    *)
(* fields before the text take 12, and lines and lists that are shorter,   *)
(* just as long, and longer.                                               *)
(***************************************************************************)
EXTENDS Console

Alphabet == {"/", "?", "x", "3", " "}

Alice == <<"a">>

\* As with Alpha, Bravo and Charlie, the third name is longer.
ServerNames == [s \in 0 .. Path |-> IF s = 2 THEN <<"s", "s">> ELSE <<"s">>]

\* One of the first SYNCs, and a later one.
EarlyAndLate == {1, 10}

To(target, text) == <<"/", "m", " ">> \o target \o text

Short == UNION {[1 .. n -> Alphabet] : n \in 0 .. 3}

\* Texts that are cut, starting with each character, so also with a number.
Long == {<<c>> \o [i \in 1 .. n |-> "x"] : c \in Alphabet, n \in 3 .. 6}

Texts == {To(<<"b">>, <<" ">> \o text) : text \in Short \cup Long}

\* No command, no target, no text, the exit word, and targets with a delimiter.
SpecialLines ==
  {<<>>, <<"h", "i">>, <<"/", "m">>, <<"/", "m", " ">>, To(<<"b">>, <<>>),
   ExitPayload, To(ExitPayload, <<>>), To(<<"b">>, <<" ">> \o ExitPayload),
   To(<<>>, <<" ", "b", " ">> \o ExitPayload),
   To(<<"b", "/">>, <<" ", "x">>), To(<<"b", "/", "?", "x">>, <<" ", "3">>),
   To(<<"b", "/", "?", "3">>, <<" ", "x">>)}

\* For the numbers: three lines while getLoop runs twice.
Racing == <<To(<<"b">>, <<" ", "x">>), To(<<"b">>, <<" ", "3">>),
            To(<<"b">>, <<" ", "/">>)>>

Names == {<<"b">>, <<"b", "0">>, <<"b", "3">>, <<"3", "3">>, <<"c", "x">>, <<>>,
          <<"/">>, <<"b", ",">>}

Lists == UNION {[1 .. n -> Names] : n \in 1 .. 3}

LongList == <<<<"b">>, <<"c", "x">>, <<"b">>, <<"c", "x">>, <<"d">>>>

AllInputs ==
  {[script |-> <<line>>, rounds |-> 0, known |-> {}] : line \in Texts \cup SpecialLines}
  \cup {[script |-> Racing, rounds |-> 2, known |-> {}]}
  \cup {[script |-> <<>>, rounds |-> 0, known |-> {list}] : list \in Lists \cup {LongList}}
=============================================================================
