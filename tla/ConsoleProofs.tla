--------------------------- MODULE ConsoleProofs ---------------------------
(***************************************************************************)
(* The sequence numbers and the exit branch of one client, proved for all  *)
(* lines its user may type and however often getLoop runs meanwhile.       *)
(***************************************************************************)
EXTENDS Console, InputLineProofs, FiniteSetTheorems

Numbered == [number : Int, straddled : BOOLEAN]

\* Until getLoop has stored what it had loaded, no later number is safe to be
\* larger; once a message was numbered outside of such an interval, neither the
\* shared number nor any copy of it in a thread is below that message's number.
NumbersInv ==
  /\ sequence \in Int
  /\ getLoaded \in SUBSET Int
  /\ loaded \in SUBSET Int
  /\ reference \in BOOLEAN
  /\ straddled \in BOOLEAN
  /\ numbers \in Seq(Numbered)
  /\ reference => loaded = {}
  /\ reference /\ ~straddled => getLoaded \subseteq {sequence}
  /\ \A i \in DOMAIN numbers :
       ~numbers[i].straddled =>
         /\ numbers[i].number <= sequence
         /\ reference => numbers[i].number < sequence
         /\ \A n \in getLoaded \cup loaded : numbers[i].number <= n
  /\ NumbersRepeatOnlyDuringGet

numberVars == <<sequence, getLoaded, loaded, reference, straddled, numbers>>

\* What an entry of the history consists of.
LEMMA EntryTypes ==
  ASSUME NEW s \in Seq(Numbered), NEW i \in DOMAIN s
  PROVE  s[i].number \in Int /\ s[i].straddled \in BOOLEAN
<1>1. s[i] \in Numbered
  OBVIOUS
<1> QED
  BY <1>1 DEF Numbered

\* At the start no chat message has a number.
LEMMA NumbersInit == Init => NumbersInv
<1> SUFFICES ASSUME Init PROVE NumbersInv
  OBVIOUS
<1>1. numbers = <<>>
  BY DEF Init
<1>2. numbers \in Seq(Numbered) /\ DOMAIN numbers = {}
  BY <1>1
<1>3. /\ sequence = 1 /\ getLoaded = {} /\ loaded = {}
      /\ reference = FALSE /\ straddled = FALSE
  BY DEF Init
<1>4. NumbersRepeatOnlyDuringGet
  BY <1>2 DEF NumbersRepeatOnlyDuringGet
<1>5. getLoaded \in SUBSET Int /\ loaded \in SUBSET Int
  BY <1>3
<1>6. sequence \in Int
  BY <1>3
<1>7. reference \in BOOLEAN /\ straddled \in BOOLEAN
  BY <1>3, Zenon
<1>8. (reference => loaded = {})
      /\ (reference /\ ~straddled => getLoaded \subseteq {sequence})
  BY <1>3
<1>9. \A i \in DOMAIN numbers :
        ~numbers[i].straddled =>
          /\ numbers[i].number <= sequence
          /\ reference => numbers[i].number < sequence
          /\ \A n \in getLoaded \cup loaded : numbers[i].number <= n
  BY <1>2
<1> QED
  BY <1>2, <1>4, <1>5, <1>6, <1>7, <1>8, <1>9, Zenon DEF NumbersInv

\* Steps that leave the numbers, and the copies of the counter, alone.
LEMMA NumbersFrame == NumbersInv /\ UNCHANGED numberVars => NumbersInv'
  BY DEF NumbersInv, numberVars, NumbersRepeatOnlyDuringGet

\* getLoop copies the shared number, which no safe number exceeds.
LEMMA NumbersGetLoad == NumbersInv /\ GetLoad => NumbersInv'
  BY DEF NumbersInv, GetLoad, NumbersRepeatOnlyDuringGet

\* getLoop stores one more than it had copied.
LEMMA NumbersGetStore == NumbersInv /\ GetStore => NumbersInv'
<1> SUFFICES ASSUME NumbersInv, GetStore PROVE NumbersInv'
  OBVIOUS
<1>1. PICK n \in getLoaded : sequence' = n + 1
  BY DEF GetStore
<1>2. n \in Int /\ n < sequence' /\ sequence' \in Int
  BY <1>1 DEF NumbersInv
<1>3. UNCHANGED <<loaded, reference, straddled, numbers>> /\ getLoaded' = {}
  BY DEF GetStore
<1>4. ASSUME NEW i \in DOMAIN numbers, ~numbers[i].straddled
      PROVE  numbers[i].number < sequence'
  <2>1. numbers[i].number \in Int
    BY <1>4, EntryTypes DEF NumbersInv
  <2>2. numbers[i].number <= n
    BY <1>4 DEF NumbersInv
  <2> QED
    BY <2>1, <2>2, <1>2
<1>5. \A i \in DOMAIN numbers :
        ~numbers[i].straddled =>
          numbers[i].number <= sequence' /\ numbers[i].number < sequence'
  <2>1. \A i \in DOMAIN numbers : numbers[i].number \in Int
    BY EntryTypes DEF NumbersInv
  <2> QED
    BY <2>1, <1>2, <1>4
<1>6. NumbersRepeatOnlyDuringGet'
  BY <1>3 DEF NumbersInv, NumbersRepeatOnlyDuringGet
<1> QED
  BY <1>2, <1>3, <1>5, <1>6 DEF NumbersInv

\* inputLoop copies the shared number.
LEMMA NumbersInputLoad == NumbersInv /\ InputLoad => NumbersInv'
  BY DEF NumbersInv, InputLoad, NumbersRepeatOnlyDuringGet

\* inputLoop stores one more than it had copied, and remembers whether getLoop
\* holds a copy that is now out of date.
LEMMA NumbersInputStore == NumbersInv /\ InputStore => NumbersInv'
<1> SUFFICES ASSUME NumbersInv, InputStore PROVE NumbersInv'
  OBVIOUS
<1>1. PICK n \in loaded : sequence' = n + 1
  BY DEF InputStore
<1>2. n \in Int /\ n < sequence' /\ sequence' \in Int
  BY <1>1 DEF NumbersInv
<1>3. /\ UNCHANGED <<getLoaded, numbers>>
      /\ loaded' = {} /\ reference' = TRUE /\ straddled' = (getLoaded # {})
  BY DEF InputStore
<1>4. ASSUME NEW i \in DOMAIN numbers, ~numbers[i].straddled
      PROVE  numbers[i].number < sequence'
  <2>1. numbers[i].number \in Int
    BY <1>4, EntryTypes DEF NumbersInv
  <2>2. numbers[i].number <= n
    BY <1>4 DEF NumbersInv
  <2> QED
    BY <2>1, <2>2, <1>2
<1>5. \A i \in DOMAIN numbers :
        ~numbers[i].straddled =>
          numbers[i].number <= sequence' /\ numbers[i].number < sequence'
  <2>1. \A i \in DOMAIN numbers : numbers[i].number \in Int
    BY EntryTypes DEF NumbersInv
  <2> QED
    BY <2>1, <1>2, <1>4
<1>6. NumbersRepeatOnlyDuringGet'
  BY <1>3 DEF NumbersInv, NumbersRepeatOnlyDuringGet
<1> QED
  BY <1>2, <1>3, <1>5, <1>6 DEF NumbersInv

\* A message takes the number that is there when it is built: it is larger than
\* every safe number before it.
LEMMA NumbersInputSend == NumbersInv /\ InputSend => NumbersInv'
<1> SUFFICES ASSUME NumbersInv, InputSend PROVE NumbersInv'
  OBVIOUS
<1> DEFINE entry == [number |-> sequence, straddled |-> straddled]
           last == Len(numbers) + 1
<1>1. /\ reference /\ reference' = FALSE
      /\ numbers' = Append(numbers, entry)
      /\ UNCHANGED <<sequence, getLoaded, loaded, straddled>>
  BY DEF InputSend
<1>2. entry \in Numbered /\ numbers \in Seq(Numbered) /\ loaded = {}
  BY <1>1 DEF NumbersInv, Numbered
<1>3. /\ numbers' \in Seq(Numbered)
      /\ DOMAIN numbers' = DOMAIN numbers \cup {last}
      /\ numbers'[last] = entry /\ last \notin DOMAIN numbers
      /\ \A i \in DOMAIN numbers : numbers'[i] = numbers[i] /\ i < last
  BY <1>1, <1>2
<1>4. \A i \in DOMAIN numbers' :
        ~numbers'[i].straddled =>
          /\ numbers'[i].number <= sequence
          /\ \A n \in getLoaded \cup loaded : numbers'[i].number <= n
  <2> SUFFICES ASSUME NEW i \in DOMAIN numbers', ~numbers'[i].straddled
               PROVE  /\ numbers'[i].number <= sequence
                      /\ \A n \in getLoaded \cup loaded :
                           numbers'[i].number <= n
    OBVIOUS
  <2>1. CASE i \in DOMAIN numbers
    BY <2>1, <1>3 DEF NumbersInv
  <2>2. CASE i = last
    BY <2>2, <1>1, <1>2, <1>3 DEF NumbersInv
  <2> QED
    BY <2>1, <2>2, <1>3
<1>5. NumbersRepeatOnlyDuringGet'
  <2> SUFFICES ASSUME NEW i \in DOMAIN numbers', NEW j \in DOMAIN numbers',
                      i < j, numbers'[i].number >= numbers'[j].number,
                      ~numbers'[i].straddled
               PROVE  FALSE
    BY DEF NumbersRepeatOnlyDuringGet
  <2>1. i \in DOMAIN numbers /\ numbers'[i] = numbers[i]
    BY <1>3, <1>2
  <2>2. CASE j \in DOMAIN numbers
    BY <2>1, <2>2, <1>3 DEF NumbersInv, NumbersRepeatOnlyDuringGet
  <2>3. CASE j = last
    <3>1. numbers[i].number < sequence
      BY <2>1, <1>1 DEF NumbersInv
    <3>2. numbers[i].number \in Int /\ sequence \in Int
      BY <2>1, EntryTypes DEF NumbersInv
    <3> QED
      BY <2>1, <2>3, <3>1, <3>2, <1>3
  <2> QED
    BY <2>2, <2>3, <1>3
<1> QED
  BY <1>1, <1>2, <1>3, <1>4, <1>5 DEF NumbersInv

\* However the threads interleave, the number of a chat message that was not
\* numbered while getLoop was between its load and its store never comes again
\* (client.cpp:366-369).
THEOREM NumbersAreUniqueOutsideGets == Spec => []NumbersRepeatOnlyDuringGet
<1>1. Init => NumbersInv
  BY NumbersInit
<1>2. NumbersInv /\ [Next]_vars => NumbersInv'
  <2> SUFFICES ASSUME NumbersInv, [Next]_vars PROVE NumbersInv'
    OBVIOUS
  <2>1. CASE GetLoad
    BY <2>1, NumbersGetLoad
  <2>2. CASE GetStore
    BY <2>2, NumbersGetStore
  <2>3. CASE TypeLine
    BY <2>3, NumbersFrame DEF TypeLine, numberVars
  <2>4. CASE InputLoad
    BY <2>4, NumbersInputLoad
  <2>5. CASE InputStore
    BY <2>5, NumbersInputStore
  <2>6. CASE InputSend
    BY <2>6, NumbersInputSend
  <2>7. CASE UNCHANGED threadVars
    BY <2>7, NumbersFrame DEF threadVars, numberVars
  <2> QED
    BY <2>1, <2>2, <2>3, <2>4, <2>5, <2>6, <2>7 DEF Next, vars
<1>3. NumbersInv => NumbersRepeatOnlyDuringGet
  BY DEF NumbersInv
<1> QED
  BY <1>1, <1>2, <1>3, PTL DEF Spec

-----------------------------------------------------------------------------
\* The lines inputLoop reads are texts, so NoLineIsExit is about them.
LineInv ==
  /\ input \in Inputs
  /\ typed \in Nat
  /\ ExitUnreachable

\* However lines are typed, inputLoop never holds one that leads to its exit
\* branch (client.cpp:127-184): no client disconnects.
THEOREM ExitIsUnreachable == Spec => []ExitUnreachable
<1>1. Init => LineInv
  BY DEF Init, LineInv, ExitUnreachable
<1>2. LineInv /\ [Next]_vars => LineInv'
  <2> SUFFICES ASSUME LineInv, [Next]_vars PROVE LineInv'
    OBVIOUS
  <2>1. CASE TypeLine
    <3>1. /\ input' = input /\ typed' = typed + 1
          /\ typed < Len(input.script)
          /\ parsed' = ParsedLine(input.script[typed + 1])
      BY <2>1 DEF TypeLine
    <3>2. input.script \in Seq(Texts)
      BY InputsAssumption DEF LineInv, Texts
    <3>3. input.script[typed + 1] \in Texts
      BY <3>1, <3>2 DEF LineInv
    <3>4. \A p \in parsed' : p.payload # ExitPayload
      BY <3>1, <3>3, NoLineIsExit
    <3> QED
      BY <3>1, <3>4 DEF LineInv, ExitUnreachable
  <2>2. CASE InputSend
    BY <2>2 DEF InputSend, LineInv, ExitUnreachable
  <2>3. CASE UNCHANGED <<input, typed, parsed>>
    BY <2>3 DEF LineInv, ExitUnreachable
  <2> QED
    BY <2>1, <2>2, <2>3 DEF Next, vars, threadVars, GetLoad, GetStore,
                            InputLoad, InputStore
<1>3. LineInv => ExitUnreachable
  BY DEF LineInv
<1> QED
  BY <1>1, <1>2, <1>3, PTL DEF Spec

-----------------------------------------------------------------------------
\* GetLoad has checked that a round is left, and GetStore counts it.
TypeInv ==
  /\ TypeOK
  /\ getLoaded # {} => rounds < input.rounds

\* A copy of the number, or a line that was taken apart, is one or none.
LEMMA AtMostOne ==
  /\ Cardinality({}) <= 1
  /\ \A x : Cardinality({x}) <= 1
  BY FS_EmptySet, FS_Singleton

\* A line gives one message or none.
LEMMA OneMessageOfALine ==
  ASSUME NEW line
  PROVE  ParsedLine(line) = {} \/ \E p : ParsedLine(line) = {p}
  BY DEF ParsedLine

\* The threads count no further than there are lines and rounds, a thread holds
\* one copy of the number at most, and the number stays a natural one.
THEOREM ConsoleTypeCorrect == Spec => []TypeOK
<1>1. Init => TypeInv
  <2> SUFFICES ASSUME Init PROVE TypeInv
    OBVIOUS
  <2>1. reference \in BOOLEAN /\ straddled \in BOOLEAN
    BY Zenon DEF Init
  <2>2. rounds \in 0 .. input.rounds /\ typed \in 0 .. Len(input.script)
    BY InputsAssumption DEF Init
  <2> QED BY <2>1, <2>2, AtMostOne DEF Init, TypeInv, TypeOK
<1>2. TypeInv /\ [Next]_vars => TypeInv'
  <2> SUFFICES ASSUME TypeInv, [Next]_vars PROVE TypeInv'
    OBVIOUS
  <2>1. /\ input.rounds \in Nat /\ rounds \in Nat /\ typed \in Nat
        /\ Len(input.script) \in Nat
    BY InputsAssumption DEF TypeInv, TypeOK
  <2>2. CASE GetLoad
    <3>1. PICK n \in Nat : getLoaded' = {n}
      BY <2>2 DEF GetLoad, TypeInv, TypeOK
    <3> QED BY <2>1, <2>2, <3>1, AtMostOne DEF GetLoad, TypeInv, TypeOK
  <2>3. CASE GetStore
    <3>1. rounds < input.rounds
      BY <2>3 DEF GetStore, TypeInv
    <3> QED BY <2>1, <2>3, <3>1, AtMostOne DEF GetStore, TypeInv, TypeOK
  <2>4. CASE TypeLine
    <3>1. Cardinality(parsed') <= 1
      BY <2>4, AtMostOne, OneMessageOfALine DEF TypeLine
    <3>2. typed' \in 0 .. Len(input.script)
      BY <2>1, <2>4 DEF TypeLine, TypeInv, TypeOK
    <3> QED BY <2>4, <3>1, <3>2 DEF TypeLine, TypeInv, TypeOK
  <2>5. CASE InputLoad
    <3>1. PICK n \in Nat : loaded' = {n}
      BY <2>5 DEF InputLoad, TypeInv, TypeOK
    <3> QED BY <2>1, <2>5, <3>1, AtMostOne DEF InputLoad, TypeInv, TypeOK
  <2>6. CASE InputStore
    <3>1. straddled' \in BOOLEAN /\ reference' \in BOOLEAN
      BY <2>6, Zenon DEF InputStore
    <3> QED BY <2>1, <2>6, <3>1, AtMostOne DEF InputStore, TypeInv, TypeOK
  <2>7. CASE InputSend
    BY <2>1, <2>7, AtMostOne DEF InputSend, TypeInv, TypeOK
  <2>8. CASE UNCHANGED threadVars
    BY <2>8 DEF threadVars, TypeInv, TypeOK
  <2> QED
    BY <2>2, <2>3, <2>4, <2>5, <2>6, <2>7, <2>8 DEF Next, vars
<1>3. TypeInv => TypeOK
  BY DEF TypeInv
<1> QED
  BY <1>1, <1>2, <1>3, PTL DEF Spec
=============================================================================
