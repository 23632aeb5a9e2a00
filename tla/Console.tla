------------------------------ MODULE Console ------------------------------
(***************************************************************************)
(* One client and its console, from the line that is typed to the text     *)
(* that is shown at the other end.  inputLoop and getLoop are threads that *)
(* share m_sequenceNumber without a lock; ++m_sequenceNumber is a load and *)
(* a store, and a message is built from a reference to the number, so with *)
(* the value it has later.                                                 *)
(***************************************************************************)
EXTENDS Wire, InputLine

CONSTANTS Inputs,  \* what is typed, how often getLoop runs, which list is known
          Name     \* m_username

ASSUME InputsAssumption ==
  \A i \in Inputs :
    /\ i.script \in Seq(Seq(STRING))
    /\ i.rounds \in Nat
    /\ \A list \in i.known : list \in Seq(Seq(STRING))

ASSUME NameAssumption == Name \in Seq(STRING)

\* Every number the client can come to fits into a receive buffer, with the
\* type of the message and two delimiters.
ASSUME NumbersAssumption ==
  \A i \in Inputs : \A n \in 1 .. i.rounds + Len(i.script) + 1 :
    Len(to_string(n)) + 5 <= BufferLength

VARIABLES
  input,      \* the element of Inputs of this behaviour
  sequence,   \* m_sequenceNumber
  rounds,     \* how often getLoop has run
  getLoaded,  \* getLoop: the number it has loaded, and not yet stored
  typed,      \* how many lines inputLoop has read
  parsed,     \* inputLoop: the target and text of a line not yet sent
  loaded,     \* inputLoop: as getLoaded
  reference,  \* inputLoop: the number is stored, its message is not built
  straddled,  \* history: getLoop had loaded but not stored at that store
  numbers     \* history: the numbers of the chat messages, in order

threadVars == <<input, sequence, rounds, getLoaded, typed, parsed, loaded,
                reference, straddled, numbers>>

vars == <<threadVars, wireVars>>

TypeOK ==
  /\ input \in Inputs
  /\ sequence \in Nat
  /\ rounds \in 0 .. input.rounds
  /\ typed \in 0 .. Len(input.script)
  /\ Cardinality(getLoaded) <= 1 /\ getLoaded \subseteq Nat
  /\ Cardinality(loaded) <= 1 /\ loaded \subseteq Nat
  /\ Cardinality(parsed) <= 1
  /\ reference \in BOOLEAN
  /\ straddled \in BOOLEAN

\* The CONNECT had number 1.
Init ==
  /\ input \in Inputs
  /\ sequence = 1
  /\ rounds = 0
  /\ getLoaded = {}
  /\ typed = 0
  /\ parsed = {}
  /\ loaded = {}
  /\ reference = FALSE
  /\ straddled = FALSE
  /\ numbers = <<>>
  /\ WireInit(input.known)

(***************************************************************************)
(* getLoop.  The number of a GET is read by nobody.                        *)
(***************************************************************************)
GetLoad ==
  /\ rounds < input.rounds
  /\ getLoaded = {}
  /\ getLoaded' = {sequence}
  /\ UNCHANGED <<input, sequence, rounds, typed, parsed, loaded, reference,
                 straddled, numbers>>
  /\ UNCHANGED wireVars

\* Mutant of GetStore: the number goes down.
GetStoreDecremented ==
  /\ \E n \in getLoaded : sequence' = n - 1
  /\ getLoaded' = {}
  /\ rounds' = rounds + 1
  /\ UNCHANGED <<input, typed, parsed, loaded, reference, straddled, numbers>>
  /\ UNCHANGED wireVars

GetStore ==
  /\ \E n \in getLoaded : sequence' = n + 1
  /\ getLoaded' = {}
  /\ rounds' = rounds + 1
  /\ UNCHANGED <<input, typed, parsed, loaded, reference, straddled, numbers>>
  /\ UNCHANGED wireVars

(***************************************************************************)
(* inputLoop.                                                              *)
(***************************************************************************)
\* A line without a command is not sent, and takes no number.
TypeLine ==
  /\ parsed = {}
  /\ typed < Len(input.script)
  /\ typed' = typed + 1
  /\ parsed' = ParsedLine(input.script[typed + 1])
  /\ UNCHANGED <<input, sequence, rounds, getLoaded, loaded, reference,
                 straddled, numbers>>
  /\ UNCHANGED wireVars

InputLoad ==
  /\ parsed # {}
  /\ loaded = {}
  /\ ~reference
  /\ loaded' = {sequence}
  /\ UNCHANGED <<input, sequence, rounds, getLoaded, typed, parsed, reference,
                 straddled, numbers>>
  /\ UNCHANGED wireVars

\* Mutant of InputStore: the number is not incremented.
InputStoreUnchanged ==
  /\ \E n \in loaded : sequence' = n
  /\ loaded' = {}
  /\ reference' = TRUE
  /\ straddled' = (getLoaded # {})
  /\ UNCHANGED <<input, rounds, getLoaded, typed, parsed, numbers>>
  /\ UNCHANGED wireVars

InputStore ==
  /\ \E n \in loaded : sequence' = n + 1
  /\ loaded' = {}
  /\ reference' = TRUE
  /\ straddled' = (getLoaded # {})
  /\ UNCHANGED <<input, rounds, getLoaded, typed, parsed, numbers>>
  /\ UNCHANGED wireVars

\* The message is built and sent.  That the exit branch is left out is what
\* ExitUnreachable is about.
InputSend ==
  /\ reference
  /\ \E p \in parsed :
       /\ p.payload # ExitPayload
       /\ SendChat(message(sequence, "mt_CLIENT_SEND", Name, p.destination,
                         p.payload, -1))
  /\ parsed' = {}
  /\ reference' = FALSE
  /\ numbers' = Append(numbers, [number |-> sequence, straddled |-> straddled])
  /\ UNCHANGED <<input, sequence, rounds, getLoaded, typed, loaded, straddled>>

Next ==
  \/ GetLoad \/ GetStore
  \/ TypeLine \/ InputLoad \/ InputStore \/ InputSend
  \/ WireNext /\ UNCHANGED threadVars

Spec == Init /\ [][Next]_vars

-----------------------------------------------------------------------------
\* No line that can be typed leads to the exit branch of inputLoop: its text
\* starts with the blank after the target, or is the whole line, so it never is
\* "/exit" (client.cpp:169).
ExitUnreachable == \A p \in parsed : p.payload # ExitPayload

\* Chat messages of a client have increasing numbers, except that one sent
\* while getLoop was between its load and its store may have a number that
\* comes again (client.cpp:366-369): acknowledgements rely on the numbers.
NumbersRepeatOnlyDuringGet ==
  \A i, j \in DOMAIN numbers :
    i < j /\ numbers[i].number >= numbers[j].number => numbers[i].straddled

\* Whatever text a user types, and wherever it is cut, all hops read the same
\* message as the first server did: to write it again and cut it again changes
\* nothing (dataMessage.cpp:52-79 and 313-326).  The origin of a chat message
\* is read by nobody.
HopsAgree ==
  \A c \in displayed :
    /\ c.shown.type = "mt_SERVER_SEND"
    /\ \A field \in {"sequence", "source", "destination", "payload"} :
         c.shown[field] = c.read[field]

Includes(text, part) == find(text, part) # 0

\* How long a datagram is without its payload and what follows.
HeaderLength(m) ==
  LET f == Fields(m) IN Len(f[1]) + Len(f[2]) + Len(f[3]) + Len(f[4]) + 8

\* A message whose fields do not contain the delimiter is shown as it was
\* typed, or, when it does not fit in a receive buffer, refused or cut at its
\* end; the first half of a delimiter that was cut in two may be added to it.
TextIntegrity ==
  \A c \in displayed :
    LET m == c.sent IN
    /\ HeaderLength(m) <= BufferLength
    /\ ~Includes(m.source, messageDelimiter)
    /\ ~Includes(m.destination, messageDelimiter)
    /\ ~Includes(m.payload, messageDelimiter)
    => /\ <<c.shown.sequence, c.shown.source, c.shown.destination>>
            = <<m.sequence, m.source, m.destination>>
       /\ IsPrefix(c.shown.payload, Append(m.payload, "/"))
       /\ Len(asCharVector(m)) <= BufferLength => c.shown.payload = m.payload

Plain(names) ==
  \A i \in DOMAIN names :
    /\ ~Includes(names[i], messageDelimiter)
    /\ syncIdentifierDelimiter \notin ToSet(names[i])

\* However often a client list is cut and passed on, what a server files is the
\* beginning of the list: no name is shortened, invented or moved
\* (dataMessage.cpp:287-307 drops what follows the last comma).
ListsOnlyShorten ==
  \A f \in filed : Plain(f.sent) => IsPrefix(f.names, f.sent)

\* A client list is filed whole and under its own server, or not at all,
\* unless its text continues with a number after the first character, which
\* then is taken for the origin of a list that was cut (dataMessage.cpp:76-77).
ListsWholeOrRefused ==
  \A f \in filed :
    Plain(f.sent) /\ stoi(Tail(createServerSyncPayload(f.sent))) = {}
      => f.names = f.sent /\ f.origin = 0
=============================================================================
