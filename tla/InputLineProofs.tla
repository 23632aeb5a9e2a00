-------------------------- MODULE InputLineProofs --------------------------
(***************************************************************************)
(* What is typed cannot lead to the exit branch of inputLoop, proved for   *)
(* every line.                                                             *)
(***************************************************************************)
EXTENDS InputLine, WellFoundedInduction, TLAPS

Texts == Seq(STRING)

Streams == [left : Texts, good : BOOLEAN]

\* A set of indexes that is not empty has a least element.
LEMMA LeastIndex ==
  ASSUME NEW I \in SUBSET Nat, I # {}
  PROVE  Min(I) \in I /\ \A j \in I : Min(I) <= j
<1>1. \E i \in I : \A j \in I : ~(<<j, i>> \in OpToRel(<, Nat))
  BY NatLessThanWellFounded, WFMin
<1>2. \E i \in I : \A j \in I : i <= j
  <2>1. PICK i \in I : \A j \in I : ~(<<j, i>> \in OpToRel(<, Nat))
    BY <1>1
  <2>2. ASSUME NEW j \in I PROVE i <= j
    <3>1. <<j, i>> \in Nat \X Nat /\ ~(j < i)
      BY <2>1 DEF OpToRel
    <3> QED
      BY <3>1
  <2> QED
    BY <2>2
<1> QED
  BY <1>2 DEF Min

\* So FirstOf is one of the places, unless there is none.
LEMMA FirstIsLeast ==
  ASSUME NEW I \in SUBSET (Nat \ {0}), I # {}
  PROVE  FirstOf(I) \in I /\ \A j \in I : FirstOf(I) <= j
  BY LeastIndex DEF FirstOf

\* FirstOf, for places in a text.
LEMMA FirstPlace ==
  ASSUME NEW s \in Texts, NEW I \in SUBSET DOMAIN s
  PROVE  /\ FirstOf(I) \in 0 .. Len(s)
         /\ FirstOf(I) = 0 \/ FirstOf(I) \in I
<1>1. DOMAIN s = 1 .. Len(s) /\ Len(s) \in Nat
  BY DEF Texts
<1>2. I \in SUBSET (Nat \ {0})
  BY <1>1
<1>3. CASE I = {}
  BY <1>1, <1>3 DEF FirstOf
<1>4. CASE I # {}
  <2>1. FirstOf(I) \in I
    BY <1>2, <1>4, FirstIsLeast
  <2> QED
    BY <2>1, <1>1, <1>4
<1> QED
  BY <1>3, <1>4

\* The blanks a text begins with are not more than its characters.
LEMMA RunLengthBound ==
  ASSUME NEW s \in Texts
  PROVE  RunLength(s, Blanks) \in 0 .. Len(s)
<1>1. PICK end \in 0 .. Len(s) :
        /\ end = 0 => RunLength(s, Blanks) = Len(s)
        /\ end # 0 => RunLength(s, Blanks) = end - 1
  <2> DEFINE I == {i \in DOMAIN s : s[i] \notin Blanks}
  <2>1. FirstOf(I) \in 0 .. Len(s)
    BY FirstPlace
  <2>2. /\ FirstOf(I) = 0 => RunLength(s, Blanks) = Len(s)
        /\ FirstOf(I) # 0 => RunLength(s, Blanks) = FirstOf(I) - 1
    BY DEF RunLength
  <2> QED
    BY <2>1, <2>2
<1>2. Len(s) \in Nat
  BY DEF Texts
<1>3. CASE end = 0
  BY <1>1, <1>2, <1>3
<1>4. CASE end # 0
  <2>1. end - 1 \in 0 .. Len(s)
    BY <1>2, <1>4
  <2> QED
    BY <2>1, <1>1, <1>4
<1> QED
  BY <1>3, <1>4

\* A text without its beginning.
LEMMA WithoutText ==
  ASSUME NEW s \in Texts, NEW n \in 0 .. Len(s)
  PROVE  Without(s, n) \in Texts /\ (n < Len(s) => Without(s, n)[1] = s[n + 1])
  BY DEF Without, Texts

\* What ss >> leaves of a stream that is still good begins with a blank.
LEMMA ExtractLeavesBlank ==
  ASSUME NEW ss \in Streams, NEW old
  PROVE  LET rest == extract(ss, old).stream
         IN rest \in Streams /\ (rest.good => rest.left[1] = " ")
<1>1. PICK trimmed \in Texts :
        trimmed = Without(ss.left, RunLength(ss.left, Blanks))
  BY RunLengthBound, WithoutText DEF Streams
<1>2. PICK end \in 0 .. Len(trimmed) :
        /\ end = 0 \/ trimmed[end] = " "
        /\ end = FirstOf({i \in DOMAIN trimmed : trimmed[i] \in Blanks})
  <2> DEFINE I == {i \in DOMAIN trimmed : trimmed[i] \in Blanks}
  <2>1. FirstOf(I) \in 0 .. Len(trimmed) /\ (FirstOf(I) = 0 \/ FirstOf(I) \in I)
    BY FirstPlace
  <2> QED
    BY <2>1 DEF Blanks
<1>3. PICK rest : rest = extract(ss, old).stream
  OBVIOUS
<1>4. rest = IF ~ss.good \/ trimmed = <<>>
               THEN [left |-> trimmed, good |-> FALSE]
             ELSE IF end = 0
               THEN [left |-> <<>>, good |-> FALSE]
             ELSE [left |-> Without(trimmed, end - 1), good |-> TRUE]
  BY <1>1, <1>2, <1>3 DEF extract
<1>5. <<>> \in Texts
  BY DEF Texts
<1>6. CASE end = 0 \/ ~ss.good \/ trimmed = <<>>
  <2>1. rest \in Streams /\ ~rest.good
    BY <1>4, <1>5, <1>6 DEF Streams
  <2> QED
    BY <1>3, <2>1
<1>7. CASE end # 0 /\ ss.good /\ trimmed # <<>>
  <2>1. Len(trimmed) \in Nat
    BY DEF Texts
  <2>2. end - 1 \in 0 .. Len(trimmed) /\ end - 1 < Len(trimmed) /\ end - 1 + 1 = end
    BY <2>1, <1>7
  <2>3. Without(trimmed, end - 1)[1] = " " /\ Without(trimmed, end - 1) \in Texts
    BY <1>2, <1>7, <2>2, WithoutText
  <2>4. rest = [left |-> Without(trimmed, end - 1), good |-> TRUE]
    BY <1>4, <1>7
  <2>5. rest \in Streams /\ rest.left[1] = " "
    BY <2>3, <2>4 DEF Streams
  <2> QED
    BY <1>3, <2>5
<1> QED
  BY <1>6, <1>7

\* The line "/exit" is one word, and that word is no command.
LEMMA ExitIsNoCommand ==
  ASSUME ExitPayload \in Texts
  PROVE  extract(stringstream(ExitPayload), <<>>).value \notin Commands
<1> DEFINE unblank == {i \in DOMAIN ExitPayload : ExitPayload[i] \notin Blanks}
           blank == {i \in DOMAIN ExitPayload : ExitPayload[i] \in Blanks}
<1>1. Len(ExitPayload) = 5 /\ DOMAIN ExitPayload = 1 .. 5
  BY DEF ExitPayload
<1>2. \A i \in 1 .. 5 : ExitPayload[i] # " "
  <2>1. /\ ExitPayload[1] = "/" /\ ExitPayload[2] = "e" /\ ExitPayload[3] = "x"
        /\ ExitPayload[4] = "i" /\ ExitPayload[5] = "t"
    BY DEF ExitPayload
  <2>2. \A i \in 1 .. 5 : i = 1 \/ i = 2 \/ i = 3 \/ i = 4 \/ i = 5
    OBVIOUS
  <2> QED
    BY <2>1, <2>2
<1>3. unblank = 1 .. 5 /\ blank = {}
  BY <1>1, <1>2 DEF Blanks
<1>4. FirstOf(unblank) = 1
  <2>1. FirstOf(1 .. 5) \in 1 .. 5 /\ \A j \in 1 .. 5 : FirstOf(1 .. 5) <= j
    BY FirstIsLeast
  <2>2. FirstOf(1 .. 5) = 1
    BY <2>1
  <2> QED
    BY <2>2, <1>3
<1>5. RunLength(ExitPayload, Blanks) = 0
  <2>1. FirstOf(unblank) # 0 => RunLength(ExitPayload, Blanks) = FirstOf(unblank) - 1
    BY DEF RunLength
  <2>2. RunLength(ExitPayload, Blanks) = 1 - 1
    BY <2>1, <1>4
  <2> QED
    BY <2>2
<1>6. Without(ExitPayload, 0) = ExitPayload
  BY <1>1 DEF Without, Texts
<1>7. FirstOf(blank) = 0
  BY <1>3 DEF FirstOf
<1>8. ExitPayload # <<>>
  BY <1>1
<1>9. extract(stringstream(ExitPayload), <<>>).value = ExitPayload
  BY <1>5, <1>6, <1>7, <1>8 DEF extract, stringstream
<1>10. ExitPayload \notin Commands
  <2>1. Len(<<"/", "m">>) = 2
    OBVIOUS
  <2>2. Len(<<"/", "m", "e", "s", "s", "a", "g", "e">>) = 8
    OBVIOUS
  <2>3. \A c \in Commands : Len(c) = 2 \/ Len(c) = 8
    BY <2>1, <2>2, Zenon DEF Commands
  <2> QED
    BY <2>3, <1>1
<1> QED
  BY <1>9, <1>10

\* The text of a line is never "/exit" (client.cpp:131-169).
THEOREM NoLineIsExit ==
  ASSUME NEW line \in Texts, NEW p \in ParsedLine(line)
  PROVE  p.payload # ExitPayload
<1> DEFINE command == extract(stringstream(line), <<>>)
           target == extract(command.stream, Broadcast)
<1>1. command.value \notin Commands => ParsedLine(line) = {}
  BY DEF ParsedLine
<1>2. p.payload = getline(target.stream, line) /\ command.value \in Commands
  BY DEF ParsedLine
<1>3. command.stream \in Streams
  <2>1. stringstream(line) \in Streams
    BY DEF stringstream, Streams
  <2> QED
    BY <2>1, ExtractLeavesBlank
<1>4. CASE target.stream.good
  <2>1. target.stream.left[1] = " "
    BY <1>3, <1>4, ExtractLeavesBlank
  <2>2. p.payload = target.stream.left
    BY <1>2, <1>4 DEF getline
  <2>3. p.payload[1] = " "
    BY <2>1, <2>2
  <2>4. ExitPayload[1] = "/"
    BY DEF ExitPayload
  <2> QED
    BY <2>3, <2>4
<1>5. CASE ~target.stream.good
  <2>1. p.payload = line
    BY <1>2, <1>5 DEF getline
  <2>2. CASE line = ExitPayload
    BY <2>2, <1>2, ExitIsNoCommand
  <2> QED
    BY <2>1, <2>2
<1> QED
  BY <1>4, <1>5
=============================================================================
