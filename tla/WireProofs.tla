----------------------------- MODULE WireProofs -----------------------------
(***************************************************************************)
(* What the codec does to chat messages and client lists on their way      *)
(* along the line, proved for every text, any number of servers, and any   *)
(* length of the receive buffer.                                           *)
(***************************************************************************)
EXTENDS ConsoleProofs, CodecProofs

-----------------------------------------------------------------------------
(***************************************************************************)
(* The texts a client and a server start with.                             *)
(***************************************************************************)

\* A sequence is one over any larger set.
LEMMA OverLargerSet ==
  ASSUME NEW S, NEW T, S \in SUBSET T, NEW s \in Seq(S)
  PROVE  s \in Seq(T)
  OBVIOUS

\* A sequence of strings of length one is a text.
LEMMA StringsAreTexts ==
  ASSUME NEW s \in Seq(STRING)
  PROVE  s \in CharVectors
<1>1. ASSUME NEW S, S = STRING PROVE s \in Seq(Characters)
  <2>1. S \in SUBSET Characters /\ s \in Seq(S)
    BY <1>1 DEF Characters
  <2> QED BY <2>1, OverLargerSet
<1> QED BY <1>1 DEF CharVectors

\* The same for sequences of them.
LEMMA ListsAreTexts ==
  ASSUME NEW s \in Seq(Seq(STRING))
  PROVE  s \in Seq(CharVectors)
<1>1. Seq(STRING) \in SUBSET CharVectors
  BY StringsAreTexts
<1> QED BY <1>1

\* find is 0 where there is no delimiter.
LEMMA IncludesDelimiter ==
  ASSUME NEW s \in CharVectors
  PROVE  /\ find(s, messageDelimiter) = 0 => Undelimited(s)
         /\ ~Includes(s, messageDelimiter) => Undelimited(s)
<1>1. find(s, messageDelimiter) = 0 => Undelimited(s)
  <2>1. ASSUME Delimits(s, 0) PROVE FALSE
    BY <2>1 DEF Delimits
  <2> QED BY <2>1, FirstDelimiter
<1> QED BY <1>1 DEF Includes

\* What ss >> gives is a text.
LEMMA ExtractedText ==
  ASSUME NEW ss \in Streams, NEW old \in CharVectors
  PROVE  extract(ss, old).value \in CharVectors
<1> DEFINE trimmed == Without(ss.left, RunLength(ss.left, Blanks))
           I == {i \in DOMAIN trimmed : trimmed[i] \in Blanks}
           end == FirstOf(I)
<1>1. trimmed \in Texts
  BY RunLengthBound, WithoutText DEF Streams
<1>2. end \in 0 .. Len(trimmed)
  <2>1. I \in SUBSET DOMAIN trimmed
    OBVIOUS
  <2> HIDE DEF I, trimmed
  <2> QED BY <1>1, <2>1, FirstPlace
<1>3. extract(ss, old).value =
        IF ~ss.good \/ trimmed = <<>> THEN old
        ELSE IF end = 0 THEN trimmed ELSE SubSeq(trimmed, 1, end - 1)
  BY DEF extract
<1> HIDE DEF end, I, trimmed
<1>4. trimmed \in CharVectors
  BY <1>1, StringsAreTexts DEF Texts
<1>5. end # 0 => SubSeq(trimmed, 1, end - 1) \in CharVectors
  <2>1. end # 0 => SubSeq(trimmed, 1, end - 1) \in Texts
    BY <1>1, <1>2 DEF Texts
  <2> QED BY <2>1, StringsAreTexts DEF Texts
<1> QED BY <1>3, <1>4, <1>5

\* What is typed makes a message of texts.
LEMMA ParsedTexts ==
  ASSUME NEW line \in Texts, NEW p \in ParsedLine(line)
  PROVE  p.destination \in CharVectors /\ p.payload \in CharVectors
<1> DEFINE start == stringstream(line)
           command == extract(start, <<>>)
           target == extract(command.stream, Broadcast)
<1>1. start \in Streams
  BY DEF stringstream, Streams
<1>2. command.stream \in Streams
  BY <1>1, ExtractLeavesBlank
<1>3. target.stream \in Streams
  BY <1>2, ExtractLeavesBlank
<1>4. Broadcast \in CharVectors
  BY DEF Broadcast, CharVectors, Characters
<1>5. target.value \in CharVectors
  BY <1>2, <1>4, ExtractedText
<1>6. getline(target.stream, line) \in CharVectors
  BY <1>3, StringsAreTexts DEF getline, Streams, Texts
<1>7. p = [destination |-> target.value,
           payload     |-> getline(target.stream, line)]
  BY DEF ParsedLine
<1> HIDE DEF target
<1> QED BY <1>5, <1>6, <1>7

-----------------------------------------------------------------------------
(***************************************************************************)
(* How far the numbers of a client go.                                     *)
(***************************************************************************)

\* How often the number was incremented, or a thread is about to do so.
Used == rounds + typed - (IF parsed # {} /\ ~reference THEN 1 ELSE 0)

Reached(n) == n \in Nat /\ 1 <= n /\ n <= 1 + Used

\* The number is incremented at most once for each round of getLoop and for
\* each line, so no copy of it is further than that.
CountInv ==
  /\ Reached(sequence)
  /\ \A n \in getLoaded : Reached(n)
  /\ \A n \in loaded : Reached(n) /\ parsed # {} /\ ~reference
  /\ \A p \in parsed :
       p.destination \in CharVectors /\ p.payload \in CharVectors

\* What the type invariant says of the counters.
LEMMA Counters ==
  ASSUME TypeOK
  PROVE  /\ input \in Inputs
         /\ rounds \in Nat /\ typed \in Nat /\ sequence \in Nat
         /\ Used \in Int /\ input.script \in Seq(Texts)
         /\ Used <= input.rounds + Len(input.script)
         /\ input.rounds + Len(input.script) \in Nat
         /\ reference \in BOOLEAN
<1>1. /\ input \in Inputs /\ input.script \in Seq(Texts)
      /\ input.rounds \in Nat /\ Len(input.script) \in Nat
  BY InputsAssumption DEF TypeOK, Texts
<1>2. /\ rounds \in 0 .. input.rounds /\ typed \in 0 .. Len(input.script)
      /\ sequence \in Nat /\ reference \in BOOLEAN
  BY DEF TypeOK
<1> QED BY <1>1, <1>2 DEF Used

\* At the start the number is 1, and nothing is held of it.
LEMMA CountInit == Init => CountInv
<1> SUFFICES ASSUME Init PROVE CountInv
  OBVIOUS
<1>1. /\ sequence = 1 /\ rounds = 0 /\ typed = 0
      /\ getLoaded = {} /\ loaded = {} /\ parsed = {}
  BY DEF Init
<1>2. Reached(sequence)
  BY <1>1 DEF Reached, Used
<1> QED BY <1>1, <1>2 DEF CountInv

\* Each step that increments the number counts as much more.
LEMMA CountStep ==
  ASSUME TypeOK, TypeOK', CountInv, [Next]_vars
  PROVE  CountInv'
<1>1. /\ rounds \in Nat /\ typed \in Nat /\ sequence \in Nat
      /\ input.script \in Seq(Texts)
  BY Counters
<1>2. CASE GetLoad
  <2>1. Used' = Used
    BY <1>2 DEF GetLoad, Used
  <2> QED BY <1>2, <2>1 DEF GetLoad, CountInv, Reached
<1>3. CASE GetStore
  <2>1. PICK n \in getLoaded : sequence' = n + 1
    BY <1>3 DEF GetStore
  <2>2. /\ Used' = Used + 1 /\ Used \in Int
        /\ getLoaded' = {} /\ UNCHANGED <<loaded, parsed, reference>>
    BY <1>1, <1>3 DEF GetStore, Used
  <2>3. Reached(n)
    BY <2>1 DEF CountInv
  <2>4. Reached(sequence)'
    BY <2>1, <2>2, <2>3 DEF Reached
  <2>5. \A m : Reached(m) => Reached(m)'
    BY <2>2 DEF Reached
  <2> QED BY <2>2, <2>4, <2>5 DEF CountInv
<1>4. CASE TypeLine
  <2>1. /\ parsed = {} /\ typed' = typed + 1 /\ typed < Len(input.script)
        /\ parsed' = ParsedLine(input.script[typed + 1])
        /\ UNCHANGED <<sequence, rounds, getLoaded, loaded, reference>>
    BY <1>4 DEF TypeLine
  <2>2. Used \in Int /\ (Used' = Used \/ Used' = Used + 1)
    BY <1>1, <2>1 DEF Used
  <2>3. \A m : Reached(m) => Reached(m)'
    BY <2>2 DEF Reached
  <2>4. input.script[typed + 1] \in Texts
    BY <1>1, <2>1
  <2>5. \A p \in parsed' :
          p.destination \in CharVectors /\ p.payload \in CharVectors
    BY <2>1, <2>4, ParsedTexts
  <2> QED BY <2>1, <2>3, <2>5 DEF CountInv
<1>5. CASE InputLoad
  <2>1. Used' = Used
    BY <1>5 DEF InputLoad, Used
  <2> QED BY <1>5, <2>1 DEF InputLoad, CountInv, Reached
<1>6. CASE InputStore
  <2>1. PICK n \in loaded : sequence' = n + 1
    BY <1>6 DEF InputStore
  <2>2. Reached(n) /\ parsed # {} /\ ~reference
    BY <2>1 DEF CountInv
  <2>3. /\ loaded' = {} /\ reference' = TRUE
        /\ UNCHANGED <<rounds, typed, getLoaded, parsed>>
    BY <1>6 DEF InputStore
  <2>4. Used' = Used + 1 /\ Used \in Int
    BY <1>1, <2>2, <2>3 DEF Used
  <2>5. Reached(sequence)'
    BY <2>1, <2>2, <2>4 DEF Reached
  <2>6. \A m : Reached(m) => Reached(m)'
    BY <2>4 DEF Reached
  <2> QED BY <2>3, <2>5, <2>6 DEF CountInv
<1>7. CASE InputSend
  <2>1. /\ reference /\ reference' = FALSE /\ parsed' = {}
        /\ UNCHANGED <<sequence, rounds, getLoaded, typed, loaded>>
    BY <1>7 DEF InputSend
  <2>2. Used' = Used
    BY <2>1 DEF Used
  <2> QED BY <2>1, <2>2 DEF CountInv, Reached
<1>8. CASE UNCHANGED threadVars
  <2>1. Used' = Used
    BY <1>8 DEF threadVars, Used
  <2> QED BY <1>8, <2>1 DEF threadVars, CountInv, Reached
<1> QED BY <1>2, <1>3, <1>4, <1>5, <1>6, <1>7, <1>8 DEF Next, vars

\* What a client sends as a chat message.
ChatSent(m) ==
  m \in Messages /\ NumberFits(m) /\ m.type = "mt_CLIENT_SEND"

\* So a receive buffer has room for the number of every chat message.
LEMMA SentFits ==
  ASSUME TypeOK, CountInv, NEW p \in parsed
  PROVE  ChatSent(message(sequence, "mt_CLIENT_SEND", Name, p.destination,
                          p.payload, -1))
<1> DEFINE m == message(sequence, "mt_CLIENT_SEND", Name, p.destination,
                        p.payload, -1)
<1>1. sequence \in 1 .. input.rounds + Len(input.script) + 1
  BY Counters DEF CountInv, Reached
<1>2. input \in Inputs /\ sequence \in Nat
  BY Counters
<1>3. NumberFits(m)
  BY <1>1, <1>2, NumbersAssumption DEF NumberFits, Room, message
<1>4. /\ p.destination \in CharVectors /\ p.payload \in CharVectors
      /\ Name \in CharVectors /\ -1 \in Int
  BY NameAssumption, StringsAreTexts DEF CountInv
<1>5. "mt_CLIENT_SEND" \in Types
  BY DEF Types, viewMessageTypeAsString
<1>6. m \in Messages /\ m.type = "mt_CLIENT_SEND"
  BY <1>2, <1>4, <1>5 DEF Messages, message
<1> QED BY <1>3, <1>6 DEF ChatSent

-----------------------------------------------------------------------------
(***************************************************************************)
(* Chat messages.                                                          *)
(***************************************************************************)

\* The type of a chat message that goes to this hop.
TypeAt(hop) == IF hop = Path + 1 THEN "mt_SERVER_SEND" ELSE "mt_CLIENT_SEND"

\* After the first server, a datagram is what server 1 has read, but for the
\* type and the origin.
WrittenAgain(d, r, n) ==
  /\ d.read = {r} /\ r \in decode(Received(asCharVector(d.sent)))
  /\ n \in Messages /\ SameChat(n, r) /\ n.type = TypeAt(d.hop)
  /\ d.chars = asCharVector(n)

OnTheWay(d) ==
  /\ ChatSent(d.sent)
  /\ d.hop \in 1 .. Path + 1
  /\ \/ d.hop = 1 /\ d.read = {} /\ d.chars = asCharVector(d.sent)
     \/ d.hop # 1 /\ \E r, n : WrittenAgain(d, r, n)

\* What is shown is what server 1 has read.
ShownAgain(c) ==
  /\ ChatSent(c.sent)
  /\ c.read \in decode(Received(asCharVector(c.sent)))
  /\ c.shown \in Messages /\ SameChat(c.shown, c.read)
  /\ c.shown.type = "mt_SERVER_SEND"

ChatInv ==
  /\ \A d \in chats : OnTheWay(d)
  /\ \A c \in displayed : ShownAgain(c)

\* There is a server, so a client's message is passed on once at least.
LEMMA Hops ==
  /\ Path \in Nat /\ Path + 1 # 1
  /\ TypeAt(1) = "mt_CLIENT_SEND"
  /\ \A h \in 1 .. Path + 1 : h <= Path => /\ h + 1 \in 1 .. Path + 1
                                           /\ h + 1 # 1
                                           /\ TypeAt(h) = "mt_CLIENT_SEND"
  /\ \A h : TypeAt(h) \in Types
<1>1. Path \in Nat /\ 1 <= Path
  BY WireAssumption
<1>2. "mt_SERVER_SEND" \in Types /\ "mt_CLIENT_SEND" \in Types
  BY DEF Types, viewMessageTypeAsString
<1> QED BY <1>1, <1>2 DEF TypeAt

\* What arrives at any hop is what server 1 has read.
LEMMA ArrivedAgain ==
  ASSUME NEW d, OnTheWay(d), NEW m \in Arrived(d)
  PROVE  /\ m \in Messages /\ m.type = TypeAt(d.hop)
         /\ d.hop = 1 => m \in decode(Received(asCharVector(d.sent)))
         /\ d.hop # 1 =>
              /\ d.read # {}
              /\ \A r \in d.read :
                   /\ r \in decode(Received(asCharVector(d.sent)))
                   /\ SameChat(m, r)
                   /\ d.read = {r}
<1>1. ChatSent(d.sent) /\ m \in decode(Received(d.chars))
  BY DEF OnTheWay, Arrived
<1>2. CASE d.hop = 1
  <2>1. m \in decode(Received(asCharVector(d.sent)))
    BY <1>1, <1>2 DEF OnTheWay
  <2>2. m \in Messages /\ m.type = "mt_CLIENT_SEND"
    BY <1>1, <2>1, MessageRead DEF ChatSent
  <2> QED BY <1>2, <2>1, <2>2, Hops
<1>3. CASE d.hop # 1
  <2>1. PICK r, n : WrittenAgain(d, r, n)
    BY <1>3 DEF OnTheWay
  <2>2. m \in decode(Received(asCharVector(n)))
    BY <1>1, <2>1 DEF WrittenAgain
  <2>3. m \in Messages /\ m.type = n.type /\ SameChat(m, r)
    BY <1>1, <2>1, <2>2, MessageAgain DEF ChatSent, WrittenAgain
  <2> QED BY <1>3, <2>1, <2>3 DEF WrittenAgain
<1> QED BY <1>2, <1>3

\* A server writes what it has read.
LEMMA PassedOn ==
  ASSUME NEW d \in chats, OnTheWay(d), PassChat(d)
  PROVE  \A e \in chats' : e \in chats \/ OnTheWay(e)
<1>1. d.hop \in 1 .. Path + 1 /\ d.hop <= Path
  BY DEF OnTheWay, PassChat
<1>2. PICK m, type, e :
        /\ m \in Arrived(d)
        /\ type = IF d.hop = Path THEN "mt_SERVER_SEND" ELSE m.type
        /\ e = [hop   |-> d.hop + 1,
                sent  |-> d.sent,
                read  |-> IF d.hop = 1 THEN {m} ELSE d.read,
                chars |-> asCharVector([m EXCEPT !.type = type])]
        /\ chats' = (chats \ {d}) \cup {e}
  BY DEF PassChat
<1> DEFINE n == [m EXCEPT !.type = type]
<1>3. /\ m \in Messages /\ m.type = TypeAt(d.hop)
      /\ d.hop = 1 => m \in decode(Received(asCharVector(d.sent)))
      /\ d.hop # 1 =>
           /\ d.read # {}
           /\ \A r \in d.read :
                /\ r \in decode(Received(asCharVector(d.sent)))
                /\ SameChat(m, r) /\ d.read = {r}
  BY <1>2, ArrivedAgain
<1>4. type = TypeAt(e.hop)
  <2>1. m.type = "mt_CLIENT_SEND" /\ Path \in Nat
    BY <1>1, <1>3, Hops
  <2>2. e.hop = d.hop + 1
    BY <1>2
  <2> QED BY <1>1, <1>2, <2>1, <2>2 DEF TypeAt
<1>5. n \in Messages /\ n.type = TypeAt(e.hop) /\ SameChat(n, m)
  BY <1>3, <1>4, Hops DEF Messages, SameChat
<1>6. \E r : WrittenAgain(e, r, n)
  <2>1. /\ e.chars = asCharVector(n) /\ e.sent = d.sent
        /\ e.read = IF d.hop = 1 THEN {m} ELSE d.read
    BY <1>2
  <2> HIDE DEF n
  <2>2. CASE d.hop = 1
    BY <1>3, <1>5, <2>1, <2>2 DEF WrittenAgain
  <2>3. CASE d.hop # 1
    <3>1. PICK r \in d.read : TRUE
      BY <1>3, <2>3
    <3>2. /\ r \in decode(Received(asCharVector(e.sent)))
          /\ SameChat(m, r) /\ e.read = {r}
      BY <1>3, <2>1, <2>3, <3>1
    <3>3. SameChat(n, r)
      BY <1>5, <3>2 DEF SameChat
    <3> QED BY <1>5, <2>1, <3>2, <3>3 DEF WrittenAgain
  <2> QED BY <2>2, <2>3
<1> HIDE DEF n
<1>7. OnTheWay(e)
  <2>1. ChatSent(e.sent) /\ e.hop = d.hop + 1
    BY <1>2 DEF OnTheWay
  <2> QED BY <1>1, <1>6, <2>1, Hops DEF OnTheWay
<1> QED BY <1>2, <1>7

\* Nothing is sent at the start.
LEMMA ChatInit == Init => ChatInv
  BY DEF Init, WireInit, ChatInv

\* Each step of a client, a server or a datagram keeps to what server 1 read.
LEMMA ChatStep ==
  ASSUME TypeOK, CountInv, ChatInv, [Next]_vars
  PROVE  ChatInv'
<1>1. CASE UNCHANGED <<chats, displayed>>
  BY <1>1 DEF ChatInv
<1>2. CASE InputSend
  <2>1. PICK p \in parsed :
          SendChat(message(sequence, "mt_CLIENT_SEND", Name, p.destination,
                           p.payload, -1))
    BY <1>2 DEF InputSend
  <2>2. PICK m : SendChat(m) /\ ChatSent(m)
    BY <2>1, SentFits
  <2> DEFINE d == [hop |-> 1, sent |-> m, read |-> {},
                   chars |-> asCharVector(m)]
  <2>3. OnTheWay(d)
    <3>1. 1 \in 1 .. Path + 1
      BY Hops
    <3> QED BY <2>2, <3>1 DEF OnTheWay
  <2>4. chats' = chats \cup {d} /\ displayed' = displayed
    BY <2>2 DEF SendChat
  <2> HIDE DEF d
  <2> QED BY <2>3, <2>4 DEF ChatInv
<1>3. ASSUME NEW d \in chats, PassChat(d) PROVE ChatInv'
  <2>1. OnTheWay(d) /\ displayed' = displayed
    BY <1>3 DEF ChatInv, PassChat
  <2> QED BY <1>3, <2>1, PassedOn DEF ChatInv
<1>4. ASSUME NEW d \in chats, ShowChat(d) PROVE ChatInv'
  <2>1. OnTheWay(d) /\ d.hop # 1 /\ d.hop = Path + 1
    BY <1>4, Hops DEF ChatInv, ShowChat
  <2>2. PICK m, first, c :
          /\ m \in Arrived(d) /\ first \in d.read
          /\ c = [sent |-> d.sent, read |-> first, shown |-> m]
          /\ displayed' = displayed \cup {c}
    BY <1>4 DEF ShowChat
  <2>3. /\ m \in Messages /\ m.type = TypeAt(d.hop)
        /\ first \in decode(Received(asCharVector(d.sent)))
        /\ SameChat(m, first)
    BY <2>1, <2>2, ArrivedAgain
  <2>4. m.type = "mt_SERVER_SEND"
    BY <2>1, <2>3 DEF TypeAt
  <2>5. ShownAgain(c)
    BY <2>1, <2>2, <2>3, <2>4 DEF ShownAgain, OnTheWay
  <2>6. chats' \in SUBSET chats
    BY <1>4 DEF ShowChat
  <2> QED BY <2>2, <2>5, <2>6 DEF ChatInv
<1>5. ASSUME NEW d \in chats, RefuseChat(d) PROVE ChatInv'
  BY <1>5 DEF RefuseChat, ChatInv
<1> QED
  BY <1>1, <1>2, <1>3, <1>4, <1>5 DEF Next, WireNext, GetLoad, GetStore,
     TypeLine, InputLoad, InputStore, SendList, RefuseList, FileList,
     wireVars, vars

\* The client, its datagrams and what they made of its messages, always.
LEMMA ChatsAlways == Spec => []ChatInv
<1>1. Init => CountInv /\ ChatInv
  BY CountInit, ChatInit
<1>2. TypeOK /\ TypeOK' /\ CountInv /\ ChatInv /\ [Next]_vars
        => (CountInv /\ ChatInv)'
  BY CountStep, ChatStep
<1>3. Spec => []TypeOK
  BY ConsoleTypeCorrect
<1> QED
  BY <1>1, <1>2, <1>3, PTL DEF Spec

\* Whatever a user types, wherever a buffer cuts it and however many servers it
\* passes, what is shown is what the first server read, and is a SERVER_SEND
\* (dataMessage.cpp:52-79 and 313-326): a field that was cut, or that ends at a
\* delimiter of the text itself, does not change at a later hop.
THEOREM AllHopsAgree == Spec => []HopsAgree
<1>1. ChatInv => HopsAgree
  <2> SUFFICES ASSUME ChatInv, NEW c \in displayed
               PROVE  /\ c.shown.type = "mt_SERVER_SEND"
                      /\ \A field \in {"sequence", "source", "destination",
                                       "payload"} :
                           c.shown[field] = c.read[field]
    BY DEF HopsAgree
  <2>1. SameChat(c.shown, c.read) /\ c.shown.type = "mt_SERVER_SEND"
    BY DEF ChatInv, ShownAgain
  <2> QED BY <2>1 DEF SameChat
<1> QED BY <1>1, ChatsAlways, PTL

\* A message whose header fits and whose fields have no delimiter is readable.
LEMMA IntactIsReadable ==
  ASSUME NEW m, m \in Messages, NumberFits(m),
         HeaderLength(m) <= BufferLength,
         ~Includes(m.source, messageDelimiter),
         ~Includes(m.destination, messageDelimiter),
         ~Includes(m.payload, messageDelimiter)
  PROVE  /\ Readable(m)
         /\ Len(asCharVector(m)) <= BufferLength
              => Len(m.payload) + 2 <= PayloadRoom(m)
<1> DEFINE number == to_string(m.sequence)
           word == viewMessageTypeAsString[m.type]
           last == to_string(m.origin)
<1>1. /\ m.source \in CharVectors /\ m.destination \in CharVectors
      /\ m.payload \in CharVectors /\ m.type \in Types
      /\ m.sequence \in Int /\ m.origin \in Int
  BY DEF Messages
<1>2. number \in CharVectors /\ last \in CharVectors
  BY <1>1, NumberText
<1>3. word \in CharVectors /\ Len(word) = 1
  BY <1>1, Words
<1> HIDE DEF number, word, last
<1>4. /\ Undelimited(m.source) /\ Undelimited(m.destination)
      /\ Undelimited(m.payload)
  BY <1>1, IncludesDelimiter
<1>5. PICK a \in Nat, b \in Nat, c \in Nat, p \in Nat, o \in Nat :
        /\ a = Len(number) /\ b = Len(m.source) /\ c = Len(m.destination)
        /\ p = Len(m.payload) /\ o = Len(last)
  BY <1>1, <1>2, TextProperties
<1>6. PayloadRoom(m) = BufferLength - (a + 5) - (b + 2) - (c + 2)
  BY <1>5 DEF PayloadRoom, Room, number
<1>7. HeaderLength(m) = a + 1 + b + c + 8
  BY <1>3, <1>5 DEF HeaderLength, Fields, number, word
<1>8. Len(asCharVector(m))
        = a + 2 + (1 + 2 + (b + 2 + (c + 2 + (p + 2 + (o + 2)))))
  <2> DEFINE sixth == Written(last, <<>>)
             fifth == Written(m.payload, sixth)
             fourth == Written(m.destination, fifth)
             third == Written(m.source, fourth)
             second == Written(word, third)
             first == Written(number, second)
  <2>1. asCharVector(m) = first
    BY DEF asCharVector, Fields, number, word, last
  <2>2. <<>> \in CharVectors /\ Len(<<>>) = 0
    BY DEF CharVectors
  <2>3. sixth \in CharVectors /\ Len(sixth) = Len(last) + 2
    <3>1. PICK none \in CharVectors : none = <<>> /\ Len(none) = 0
      BY <2>2, Zenon
    <3>2. sixth = Written(last, none)
      BY <3>1
    <3> HIDE DEF sixth
    <3>3. sixth \in CharVectors /\ Len(sixth) = Len(last) + 2 + Len(none)
      BY <1>2, <3>2, WrittenText
    <3>4. Len(last) \in Nat
      BY <1>2, TextProperties
    <3> QED BY <3>1, <3>3, <3>4
  <2> HIDE DEF sixth
  <2>4. fifth \in CharVectors
        /\ Len(fifth) = Len(m.payload) + 2 + Len(sixth)
    BY <1>1, <2>3, WrittenText
  <2> HIDE DEF fifth
  <2>5. fourth \in CharVectors
        /\ Len(fourth) = Len(m.destination) + 2 + Len(fifth)
    BY <1>1, <2>4, WrittenText
  <2> HIDE DEF fourth
  <2>6. third \in CharVectors
        /\ Len(third) = Len(m.source) + 2 + Len(fourth)
    BY <1>1, <2>5, WrittenText
  <2> HIDE DEF third
  <2>7. second \in CharVectors /\ Len(second) = Len(word) + 2 + Len(third)
    BY <1>3, <2>6, WrittenText
  <2> HIDE DEF second
  <2>8. Len(first) = Len(number) + 2 + Len(second)
    BY <1>2, <2>7, WrittenText
  <2> HIDE DEF first
  <2> QED BY <1>3, <1>5, <2>1, <2>3, <2>4, <2>5, <2>6, <2>7, <2>8, Zenon
<1>9. BufferLength \in Nat
  BY CodecAssumption
<1>10. PayloadRoom(m) \in Nat
  BY <1>6, <1>7, <1>9
<1>11. Len(asCharVector(m)) <= BufferLength => p + 2 <= PayloadRoom(m)
  <2>1. PICK n : n = Len(asCharVector(m))
    OBVIOUS
  <2>2. n = a + 2 + (1 + 2 + (b + 2 + (c + 2 + (p + 2 + (o + 2)))))
    BY <1>8, <2>1, Zenon
  <2>3. n <= BufferLength => p + 2 <= PayloadRoom(m)
    BY <1>6, <1>9, <2>2
  <2> QED BY <2>1, <2>3, Zenon
<1> QED BY <1>4, <1>5, <1>10, <1>11 DEF Readable

\* What a buffer has of a text begins as the text does.
LEMMA CutOffIsPrefix ==
  ASSUME NEW t \in CharVectors, NEW p, CutOff(p, t)
  PROVE  IsPrefix(p, Append(t, "/"))
<1> DEFINE a == Append(t, "/")
           n == Len(p)
<1>1. "/" \in Characters
  BY DEF Characters
<1>2. /\ a \in CharVectors /\ Len(a) = Len(t) + 1
      /\ \A i \in 1 .. Len(a) : a[i] = IF i <= Len(t) THEN t[i] ELSE "/"
  BY <1>1 DEF CharVectors
<1>3. /\ p \in CharVectors /\ n <= Len(t) + 1
      /\ \A i \in 1 .. n : p[i] = IF i <= Len(t) THEN t[i] ELSE "/"
  BY DEF CutOff
<1> HIDE DEF a
<1>4. Len(t) \in Nat /\ n \in Nat
  BY <1>3, TextProperties
<1>5. \A i \in 1 .. n : p[i] = a[i]
  BY <1>2, <1>3, <1>4
<1>6. SubSeq(p, 1, n) = SubSeq(a, 1, n)
  BY <1>2, <1>3, <1>4, <1>5 DEF CharVectors
<1> QED BY <1>2, <1>3, <1>6 DEF IsPrefix, a

\* A message is shown with the target and the text it was typed with.  One that
\* is too long for a receive buffer, and only such a one, may lose the end of
\* its text, and gains at most the half of a delimiter (dataMessage.cpp:52-79).
THEOREM TextsStayIntact == Spec => []TextIntegrity
<1>1. ASSUME NEW m, ChatSent(m), NEW r \in decode(Received(asCharVector(m))),
             HeaderLength(m) <= BufferLength,
             ~Includes(m.source, messageDelimiter),
             ~Includes(m.destination, messageDelimiter),
             ~Includes(m.payload, messageDelimiter)
      PROVE  /\ r.sequence = m.sequence /\ r.source = m.source
             /\ r.destination = m.destination
             /\ IsPrefix(r.payload, Append(m.payload, "/"))
             /\ Len(asCharVector(m)) <= BufferLength => r.payload = m.payload
  <2>1. m \in Messages /\ NumberFits(m)
    BY <1>1 DEF ChatSent
  <2>2. /\ Readable(m)
        /\ Len(asCharVector(m)) <= BufferLength
             => Len(m.payload) + 2 <= PayloadRoom(m)
    BY <1>1, <2>1, IntactIsReadable
  <2>3. /\ r.sequence = m.sequence /\ r.source = m.source
        /\ r.destination = m.destination
        /\ r.payload = Field(PayloadRead(m))
    BY <1>1, <2>2, HeaderRead
  <2>4. /\ CutOff(Field(PayloadRead(m)), m.payload)
        /\ Len(m.payload) + 2 <= PayloadRoom(m)
             => Field(PayloadRead(m)) = m.payload
    BY <2>2, PayloadCutOff
  <2>5. m.payload \in CharVectors
    BY <2>1 DEF Messages
  <2>6. IsPrefix(r.payload, Append(m.payload, "/"))
    BY <2>3, <2>4, <2>5, CutOffIsPrefix
  <2> QED BY <2>2, <2>3, <2>4, <2>6
<1>2. ChatInv => TextIntegrity
  <2> SUFFICES ASSUME ChatInv, NEW c \in displayed,
                      HeaderLength(c.sent) <= BufferLength,
                      ~Includes(c.sent.source, messageDelimiter),
                      ~Includes(c.sent.destination, messageDelimiter),
                      ~Includes(c.sent.payload, messageDelimiter)
               PROVE  /\ <<c.shown.sequence, c.shown.source,
                           c.shown.destination>>
                           = <<c.sent.sequence, c.sent.source,
                               c.sent.destination>>
                      /\ IsPrefix(c.shown.payload, Append(c.sent.payload, "/"))
                      /\ Len(asCharVector(c.sent)) <= BufferLength
                           => c.shown.payload = c.sent.payload
    BY DEF TextIntegrity
  <2>1. /\ ChatSent(c.sent)
        /\ c.read \in decode(Received(asCharVector(c.sent)))
        /\ SameChat(c.shown, c.read)
    BY DEF ChatInv, ShownAgain
  <2>2. /\ c.read.sequence = c.sent.sequence /\ c.read.source = c.sent.source
        /\ c.read.destination = c.sent.destination
        /\ IsPrefix(c.read.payload, Append(c.sent.payload, "/"))
        /\ Len(asCharVector(c.sent)) <= BufferLength
             => c.read.payload = c.sent.payload
    BY <1>1, <2>1
  <2> QED BY <2>1, <2>2 DEF SameChat
<1> QED BY <1>2, ChatsAlways, PTL

-----------------------------------------------------------------------------
(***************************************************************************)
(* Client lists.                                                           *)
(***************************************************************************)

\* The beginnings of a list.
PartOf(names, sent) ==
  \E k \in 0 .. Len(sent) : names = SubSeq(sent, 1, k)

\* No number can be taken for the origin of this list when it is cut.
Unnumbered(sent) == stoi(Tail(createServerSyncPayload(sent))) = {}

\* A server has had the beginning of a list; all of it, if Unnumbered.
HeldPart(x) ==
  /\ PartOf(x.names, x.sent)
  /\ Unnumbered(x.sent) => x.names = x.sent /\ x.origin = 0

Synced(number, hop, names, origin) ==
  message(number, "mt_SERVER_SYNC", ServerName[hop - 1], ServerName[hop],
          createServerSyncPayload(names), origin)

\* A datagram has the beginning of a list; all of it, if Unnumbered.
SentPart(d, number, names, origin) ==
  /\ number \in SyncNumbers
  /\ names # <<>> /\ PartOf(names, d.sent)
  /\ origin \in Nat
  /\ Unnumbered(d.sent) => names = d.sent /\ origin = 0
  /\ d.chars = asCharVector(Synced(number, d.hop, names, origin))

ListInv ==
  /\ \A f \in filed : /\ f.at \in 0 .. Path
                      /\ f.sent \in Seq(Seq(STRING))
                      /\ Plain(f.sent) => HeldPart(f)
  /\ \A d \in lists : /\ d.hop \in 1 .. Path
                      /\ d.sent \in Seq(Seq(STRING))
                      /\ Plain(d.sent) =>
                           \E number, names, origin :
                             SentPart(d, number, names, origin)

\* A sequence is one over any set with its elements.
LEMMA OfElements ==
  ASSUME NEW S, NEW T, NEW s \in Seq(S), \A i \in 1 .. Len(s) : s[i] \in T
  PROVE  s \in Seq(T)
  OBVIOUS

\* A list whose names have no delimiter and no comma.
LEMMA PlainList ==
  ASSUME NEW sent \in Seq(Seq(STRING)), Plain(sent)
  PROVE  sent \in Seq(PlainNames)
<1>1. ASSUME NEW i \in 1 .. Len(sent)
      PROVE  sent[i] \in PlainNames
  <2>1. sent[i] \in Seq(STRING) /\ sent[i] \in CharVectors
    BY StringsAreTexts
  <2>2. /\ ~Includes(sent[i], messageDelimiter)
        /\ syncIdentifierDelimiter \notin ToSet(sent[i])
    BY DEF Plain
  <2>3. Undelimited(sent[i])
    BY <2>1, <2>2, IncludesDelimiter
  <2>4. \A j \in 1 .. Len(sent[i]) : sent[i][j] # syncIdentifierDelimiter
    BY <2>1, <2>2, TextProperties DEF ToSet
  <2> QED BY <2>1, <2>3, <2>4 DEF PlainNames
<1> QED BY <1>1, OfElements

\* The beginning of such a list is such a list, and a beginning of a beginning
\* is one of the whole.
LEMMA PartsOf ==
  ASSUME NEW S, NEW sent \in Seq(S), NEW names, PartOf(names, sent)
  PROVE  /\ names \in Seq(S)
         /\ \A k \in 0 .. Len(names) : PartOf(SubSeq(names, 1, k), sent)
         /\ SubSeq(names, 1, Len(names)) = names
<1>1. PICK n \in 0 .. Len(sent) : names = SubSeq(sent, 1, n)
  BY DEF PartOf
<1>2. names \in Seq(S) /\ Len(names) = n
  BY <1>1
<1>3. ASSUME NEW k \in 0 .. Len(names)
      PROVE  PartOf(SubSeq(names, 1, k), sent)
  <2>1. k \in 0 .. Len(sent) /\ SubSeq(names, 1, k) = SubSeq(sent, 1, k)
    BY <1>1, <1>2
  <2> QED BY <2>1 DEF PartOf
<1> QED BY <1>2, <1>3

\* The text of a list that is not empty is not empty.
LEMMA ConstructedNotEmpty ==
  ASSUME NEW names \in Seq(PlainNames), names # <<>>
  PROVE  createServerSyncPayload(names) # <<>>
<1> DEFINE t == createServerSyncPayload(names)
<1>1. PICK w \in [0 .. Len(names) -> CharVectors] :
        /\ Constructed(w, names) /\ t = w[Len(names)]
  BY ConstructedSteps
<1>2. Len(names) \in 1 .. Len(names)
  OBVIOUS
<1> HIDE DEF t
<1>3. Len(w[Len(names)])
        = Len(w[Len(names) - 1]) + Len(names[Len(names)]) + 1
  BY <1>1, <1>2, NamePlaces
<1>4. /\ w[Len(names) - 1] \in CharVectors
      /\ names[Len(names)] \in CharVectors
  BY <1>1, <1>2 DEF PlainNames
<1>5. Len(t) > 0
  BY <1>1, <1>3, <1>4, TextProperties
<1> QED BY <1>5 DEF t

\* The datagram of a list can be read again.
LEMMA SyncedIsReadable ==
  ASSUME NEW number \in SyncNumbers, NEW hop \in 1 .. Path,
         NEW names \in Seq(PlainNames), NEW origin \in Nat
  PROVE  LET m == Synced(number, hop, names, origin) IN
         /\ Readable(m) /\ m.origin = origin
         /\ m.payload = createServerSyncPayload(names)
<1> DEFINE t == createServerSyncPayload(names)
           from == ServerName[hop - 1]
           to == ServerName[hop]
           m == Synced(number, hop, names, origin)
<1>1. /\ hop - 1 \in 0 .. Path /\ hop \in 0 .. Path
      /\ hop - 1 \in 0 .. Path - 1 /\ hop - 1 + 1 = hop
  BY WireAssumption
<1>2. from \in CharVectors /\ to \in CharVectors
  BY <1>1, WireAssumption, StringsAreTexts
<1>3. Undelimited(from) /\ Undelimited(to)
  BY <1>1, <1>2, ServerNameAssumption, IncludesDelimiter
<1>4. t \in CharVectors /\ Undelimited(t)
  BY ConstructedUndelimited
<1>5. Len(to_string(number)) + Len(from) + Len(to) + 9 <= BufferLength
  <2>1. Len(to_string(number)) + Len(ServerName[hop - 1])
          + Len(ServerName[hop - 1 + 1]) + 9 <= BufferLength
    BY <1>1, ServerNameAssumption
  <2> QED BY <1>1, <2>1
<1>6. "mt_SERVER_SYNC" \in Types /\ number \in Nat /\ origin \in Int
  BY WireAssumption DEF Types, viewMessageTypeAsString
<1> HIDE DEF t, from, to
<1>7. m = [sequence |-> number, type |-> "mt_SERVER_SYNC", source |-> from,
           destination |-> to, payload |-> t, origin |-> origin]
  BY DEF Synced, message, t, from, to
<1> HIDE DEF m
<1>8. m \in Messages
  BY <1>2, <1>4, <1>6, <1>7 DEF Messages
<1>9. PICK a \in Nat, b \in Nat, c \in Nat :
        a = Len(to_string(number)) /\ b = Len(from) /\ c = Len(to)
  BY <1>2, <1>6, NumberText, TextProperties
<1>10. a + b + c + 9 <= BufferLength /\ BufferLength \in Nat
  BY <1>5, <1>9, CodecAssumption, Zenon
<1>11. Room(m.sequence) = a + 5
  BY <1>7, <1>9 DEF Room
<1>12. PayloadRoom(m) = BufferLength - (a + 5) - (b + 2) - (c + 2)
  BY <1>7, <1>9, <1>11, Zenon DEF PayloadRoom
<1>13. NumberFits(m)
  BY <1>6, <1>7, <1>10, <1>11 DEF NumberFits
<1>14. PayloadRoom(m) \in Nat
  BY <1>10, <1>12
<1> QED BY <1>3, <1>4, <1>7, <1>8, <1>13, <1>14 DEF Readable, m, t

\* What is filed is a further beginning of the list; of one that is Unnumbered,
\* all of it.
LEMMA ArrivedPart ==
  ASSUME NEW d, d.hop \in 1 .. Path, d.sent \in Seq(Seq(STRING)),
         Plain(d.sent), NEW number, NEW names, NEW origin,
         SentPart(d, number, names, origin), NEW m \in Arrived(d)
  PROVE  HeldPart([at |-> d.hop, sent |-> d.sent,
                   names |-> viewServerSyncPayload(m.payload),
                   origin |-> m.origin])
<1> DEFINE t == createServerSyncPayload(names)
           s == Synced(number, d.hop, names, origin)
<1>1. /\ number \in SyncNumbers /\ origin \in Nat
      /\ names # <<>> /\ PartOf(names, d.sent)
  BY DEF SentPart
<1>2. d.sent \in Seq(PlainNames)
  BY PlainList
<1>3. /\ names \in Seq(PlainNames)
      /\ \A k \in 0 .. Len(names) : PartOf(SubSeq(names, 1, k), d.sent)
      /\ SubSeq(names, 1, Len(names)) = names
  BY <1>1, <1>2, PartsOf
<1>4. Readable(s) /\ s.origin = origin /\ s.payload = t
  BY <1>1, <1>3, SyncedIsReadable
<1>5. m \in decode(Received(asCharVector(s)))
  BY DEF Arrived, SentPart
<1> HIDE DEF s
<1>6. CutOff(m.payload, t)
  <2>1. m.payload = Field(PayloadRead(s))
    BY <1>4, <1>5, HeaderRead
  <2> QED BY <1>4, <2>1, PayloadCutOff
<1>7. PICK k \in 0 .. Len(names) :
        /\ viewServerSyncPayload(m.payload) = SubSeq(names, 1, k)
        /\ Len(m.payload) >= Len(t) => k = Len(names)
  BY <1>3, <1>6, NamesRead
<1>8. PartOf(viewServerSyncPayload(m.payload), d.sent)
  BY <1>3, <1>7
<1>9. ASSUME Unnumbered(d.sent)
      PROVE  /\ viewServerSyncPayload(m.payload) = d.sent
             /\ m.origin = 0
  <2>1. names = d.sent /\ origin = 0
    BY <1>9 DEF SentPart
  <2>2. t # <<>> /\ stoi(Tail(t)) = {}
    BY <1>1, <1>3, <1>9, <2>1, ConstructedNotEmpty DEF Unnumbered
  <2>3. m.origin = 0 /\ m.payload = t
    BY <1>4, <1>5, <2>1, <2>2, ListOrigin
  <2>4. Len(t) \in Nat
    BY <1>3, ConstructedUndelimited, TextProperties
  <2>5. k = Len(names)
    BY <1>7, <2>3, <2>4
  <2> QED BY <1>3, <1>7, <2>1, <2>3, <2>5
<1> QED BY <1>8, <1>9 DEF HeldPart

\* At the start server 0 may have a list of its own.
LEMMA ListInit == Init => ListInv
<1> SUFFICES ASSUME Init PROVE ListInv
  OBVIOUS
<1>1. input \in Inputs /\ WireInit(input.known)
  BY DEF Init
<1>2. lists = {} /\ Path \in Nat
  BY <1>1, WireAssumption DEF WireInit
<1>3. ASSUME NEW f \in filed
      PROVE  /\ f.at \in 0 .. Path /\ f.sent \in Seq(Seq(STRING))
             /\ HeldPart(f)
  <2>1. PICK list \in input.known :
          f = [at |-> 0, sent |-> list, names |-> list, origin |-> 0]
    BY <1>1 DEF WireInit
  <2>2. list \in Seq(Seq(STRING))
    BY <1>1, InputsAssumption
  <2>3. Len(list) \in 0 .. Len(list) /\ list = SubSeq(list, 1, Len(list))
    BY <2>2
  <2>4. PartOf(list, list)
    BY <2>3 DEF PartOf
  <2> QED BY <1>2, <2>1, <2>2, <2>4 DEF HeldPart
<1> QED BY <1>2, <1>3 DEF ListInv

\* Servers send what they have filed, and file what they have read.
LEMMA ListStep ==
  ASSUME ListInv, [Next]_vars
  PROVE  ListInv'
<1>1. CASE UNCHANGED <<lists, filed>>
  BY <1>1 DEF ListInv
<1>2. ASSUME NEW f \in filed, SendList(f) PROVE ListInv'
  <2>1. PICK number, d :
          /\ number \in SyncNumbers
          /\ d = [hop |-> f.at + 1, sent |-> f.sent,
                  chars |-> asCharVector(
                    message(number, "mt_SERVER_SYNC", ServerName[f.at],
                            ServerName[f.at + 1],
                            createServerSyncPayload(f.names), f.origin))]
          /\ lists' = lists \cup {d} /\ filed' = filed
          /\ f.at < Path /\ f.origin \in 0 .. f.at /\ f.names # <<>>
    BY <1>2 DEF SendList
  <2>2. /\ f.at \in 0 .. Path /\ f.sent \in Seq(Seq(STRING))
        /\ Plain(f.sent) => HeldPart(f)
    BY DEF ListInv
  <2>3. d.hop \in 1 .. Path /\ d.hop - 1 = f.at /\ f.origin \in Nat
    <3>1. PICK at \in Nat : at = f.at
      BY <2>2, WireAssumption
    <3>2. d.hop = at + 1 /\ at < Path /\ Path \in Nat
      BY <2>1, <3>1, WireAssumption
    <3>3. f.origin \in Nat
      BY <2>1, <3>1
    <3> QED BY <3>1, <3>2, <3>3
  <2>4. d.chars = asCharVector(Synced(number, d.hop, f.names, f.origin))
    BY <2>1, <2>3 DEF Synced
  <2>5. Plain(d.sent) => SentPart(d, number, f.names, f.origin)
    BY <2>1, <2>2, <2>3, <2>4 DEF SentPart, HeldPart
  <2>6. d.sent \in Seq(Seq(STRING))
    BY <2>1, <2>2
  <2> QED BY <2>1, <2>3, <2>5, <2>6 DEF ListInv
<1>3. ASSUME NEW d \in lists, FileList(d) PROVE ListInv'
  <2>1. PICK m \in Arrived(d) :
          filed' = filed \cup
            {[at |-> d.hop, sent |-> d.sent,
              names |-> viewServerSyncPayload(m.payload),
              origin |-> m.origin]}
    BY <1>3 DEF FileList
  <2>2. lists' \in SUBSET lists
    BY <1>3 DEF FileList
  <2>3. /\ d.hop \in 1 .. Path /\ d.sent \in Seq(Seq(STRING))
        /\ Plain(d.sent) =>
             \E number, names, origin : SentPart(d, number, names, origin)
    BY DEF ListInv
  <2>4. PICK f : /\ f = [at |-> d.hop, sent |-> d.sent,
                         names |-> viewServerSyncPayload(m.payload),
                         origin |-> m.origin]
                 /\ filed' = filed \cup {f}
    BY <2>1
  <2>5. Plain(f.sent) => HeldPart(f)
    BY <2>3, <2>4, ArrivedPart
  <2>6. f.at \in 0 .. Path /\ f.sent \in Seq(Seq(STRING))
    BY <2>3, <2>4, WireAssumption
  <2> QED BY <2>2, <2>4, <2>5, <2>6 DEF ListInv
<1>4. ASSUME NEW d \in lists, RefuseList(d) PROVE ListInv'
  BY <1>4 DEF RefuseList, ListInv
<1> QED
  BY <1>1, <1>2, <1>3, <1>4 DEF Next, WireNext, GetLoad, GetStore, TypeLine,
     InputLoad, InputStore, InputSend, SendChat, RefuseChat, PassChat,
     ShowChat, wireVars, vars

\* The servers' lists and those on their way, always.
LEMMA ListsAlways == Spec => []ListInv
<1>1. ListInv /\ [Next]_vars => ListInv'
  BY ListStep
<1> QED
  BY <1>1, ListInit, PTL DEF Spec

\* However often a list of plain names is cut and passed on, each server files
\* the beginning of it (dataMessage.cpp:270-307): viewServerSyncPayload drops
\* the name that a buffer has cut.
THEOREM ListsAreCutBetweenNames == Spec => []ListsOnlyShorten
<1>1. ListInv => ListsOnlyShorten
  <2> SUFFICES ASSUME ListInv, NEW f \in filed, Plain(f.sent)
               PROVE  IsPrefix(f.names, f.sent)
    BY DEF ListsOnlyShorten
  <2>1. f.sent \in Seq(Seq(STRING)) /\ PartOf(f.names, f.sent)
    BY DEF ListInv, HeldPart
  <2>2. PICK k \in 0 .. Len(f.sent) : f.names = SubSeq(f.sent, 1, k)
    BY <2>1 DEF PartOf
  <2>3. /\ Len(f.names) = k /\ k <= Len(f.sent)
        /\ SubSeq(f.names, 1, k) = SubSeq(f.sent, 1, k)
    BY <2>1, <2>2
  <2> QED BY <2>3 DEF IsPrefix
<1> QED BY <1>1, ListsAlways, PTL

\* A list that has no number in its text after the first character is filed
\* whole and as the list of the server it is of: where a buffer cuts it, what
\* is read as the origin is not a number, and the datagram is refused
\* (dataMessage.cpp:76-77).
THEOREM CutListsAreRefused == Spec => []ListsWholeOrRefused
<1>1. ListInv => ListsWholeOrRefused
  <2> SUFFICES ASSUME ListInv, NEW f \in filed, Plain(f.sent),
                      stoi(Tail(createServerSyncPayload(f.sent))) = {}
               PROVE  f.names = f.sent /\ f.origin = 0
    BY DEF ListsWholeOrRefused
  <2> QED BY DEF ListInv, HeldPart, Unnumbered
<1> QED BY <1>1, ListsAlways, PTL
=============================================================================
