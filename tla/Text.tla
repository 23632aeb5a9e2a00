-------------------------------- MODULE Text --------------------------------
(***************************************************************************)
(* What the program asks of the C++ library: std::string, std::to_string,  *)
(* std::stoi and std::stringstream.  A text is a sequence of characters,   *)
(* and a character is a string of length one.                              *)
(***************************************************************************)
EXTENDS Integers, Sequences, SequencesExt

Numerals == <<"0", "1", "2", "3", "4", "5", "6", "7", "8", "9">>

Digits == ToSet(Numerals)

Blanks == {" "}

DigitValue(c) == SelectInSeq(Numerals, LAMBDA x : x = c) - 1

decimal[n \in Nat] ==
  IF n < 10 THEN <<Numerals[n + 1]>>
            ELSE Append(decimal[n \div 10], Numerals[(n % 10) + 1])

to_string(n) == IF n < 0 THEN <<"-">> \o decimal[-n] ELSE decimal[n]

\* The first of the places I in a text; 0 when there is none.
FirstOf(I) == IF I = {} THEN 0 ELSE Min(I)

\* Where d begins in s for the first time; 0 stands for npos.
find(s, d) == FirstOf({i \in 1 .. Len(s) - Len(d) + 1 :
                         SubSeq(s, i, i + Len(d) - 1) = d})

\* s without its first n characters.
Without(s, n) == SubSeq(s, n + 1, Len(s))

\* How many characters of S the text s begins with.
RunLength(s, S) ==
  LET end == FirstOf({i \in DOMAIN s : s[i] \notin S})
  IN IF end = 0 THEN Len(s) ELSE end - 1

\* What a row of digits amounts to.
digitsValue(number) ==
  LET value[k \in 0 .. Len(number)] ==
        IF k = 0 THEN 0 ELSE 10 * value[k - 1] + DigitValue(number[k])
  IN value[Len(number)]

\* The number s begins with, after blanks and a sign; none when stoi throws.
\* Here a number may have any length, where stoi throws beyond an int.
stoi(s) ==
  LET trimmed == Without(s, RunLength(s, Blanks))
      signed == trimmed # <<>> /\ Head(trimmed) \in {"-", "+"}
      unsigned == IF signed THEN Tail(trimmed) ELSE trimmed
      number == SubSeq(unsigned, 1, RunLength(unsigned, Digits))
      value == digitsValue(number)
  IN IF number = <<>> THEN {}
     ELSE {IF signed /\ Head(trimmed) = "-" THEN -value ELSE value}

\* The value an int has when it is stored in an int8_t.
int8(n) == ((n + 128) % 256) - 128

(***************************************************************************)
(* A stream is what is left of its text, and whether good() holds: reading *)
(* to the end of the text, or finding nothing to read, ends that.          *)
(***************************************************************************)
stringstream(s) == [left |-> s, good |-> TRUE]

\* ss >> variable, where old is the variable's value before.
extract(ss, old) ==
  LET trimmed == Without(ss.left, RunLength(ss.left, Blanks))
      end == FirstOf({i \in DOMAIN trimmed : trimmed[i] \in Blanks})
  IN IF ~ss.good \/ trimmed = <<>>
       THEN [value |-> old, stream |-> [left |-> trimmed, good |-> FALSE]]
     ELSE IF end = 0
       THEN [value |-> trimmed, stream |-> [left |-> <<>>, good |-> FALSE]]
     ELSE [value  |-> SubSeq(trimmed, 1, end - 1),
           stream |-> [left |-> Without(trimmed, end - 1), good |-> TRUE]]

\* std::getline(ss, variable).
getline(ss, old) == IF ss.good THEN ss.left ELSE old
=============================================================================
