----------------------------- MODULE InputLine -----------------------------
(***************************************************************************)
(* How inputLoop takes a typed line apart: a command, a target and the     *)
(* rest of the line.                                                       *)
(***************************************************************************)
EXTENDS Text

Commands == {<<"/", "m">>, <<"/", "m", "e", "s", "s", "a", "g", "e">>}

\* The target when the line names none.
Broadcast == <<"b", "r", "o", "a", "d", "c", "a", "s", "t">>

ExitPayload == <<"/", "e", "x", "i", "t">>

\* Mutant of ParsedLine: the blank after the target is skipped.
ParsedLineTrimmed(line) ==
  LET command == extract(stringstream(line), <<>>)
      target == extract(command.stream, Broadcast)
      rest == getline(target.stream, line)
  IN IF command.value \notin Commands THEN {}
     ELSE {[destination |-> target.value,
            payload     |-> Without(rest, RunLength(rest, Blanks))]}

\* What is sent where, or nothing when the line has no command.  chatInput
\* still holds the whole line when no text follows the target.
ParsedLine(line) ==
  LET command == extract(stringstream(line), <<>>)
      target == extract(command.stream, Broadcast)
  IN IF command.value \notin Commands THEN {}
     ELSE {[destination |-> target.value,
            payload     |-> getline(target.stream, line)]}
=============================================================================
