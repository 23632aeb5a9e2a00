------------------------------- MODULE Client -------------------------------
(***************************************************************************)
(* The chat clients.  A session is one run of the client program; it owns  *)
(* one UDP endpoint, and the endpoint is its identity.  A user who starts  *)
(* the client again, here or on another server, is a second session of the *)
(* same name.  A session has three threads: getLoop asks the server for    *)
(* messages, inputLoop sends the lines the user types, receiveLoop shows   *)
(* what arrives and acknowledges it.                                       *)
(*                                                                         *)
(* getLoop and inputLoop share m_sequenceNumber without a lock: to         *)
(* increment it is a load and a store, and a message is built from a       *)
(* reference to the number, so with the value it has later.                *)
(***************************************************************************)
EXTENDS Network

CONSTANTS User,        \* the name a session runs under
          Home,        \* the server it was told to connect to
          Lines,       \* the "/m <target> <text>" lines its user types
          Departing,   \* sessions whose input may reach the exit branch
          Mortal,      \* sessions whose process may be killed
          MaxSequence  \* bound: no further does getLoop of a session count

ASSUME ClientAssumption ==
  /\ User \in [Endpoints -> Usernames]
  /\ Home \in [Endpoints -> Servers]
  /\ Lines \in [Endpoints -> Seq([destination : Usernames,
                                  payload : Payloads])]
  /\ MaxSequence \in [Endpoints -> Nat]

VARIABLES
  threads,         \* the threads of each session that are running
  terminate,       \* m_terminate
  sequence,        \* m_sequenceNumber
  getLoaded,       \* getLoop: the number it has loaded, and not yet stored
  lineLoaded,      \* inputLoop: the same
  reference,       \* sessions whose inputLoop is about to build a message
  serverEndPoint,  \* m_serverEndPoint: the server the next datagram goes to
  typed,           \* how many of its lines a session has sent
  displayed,       \* the chat messages a session has shown
  submitted,       \* history: the chat messages a session has sent
  repeated         \* history: sessions that have sent the same one again

numberVars == <<sequence, getLoaded, lineLoaded, reference>>

lineVars == <<typed, submitted, repeated>>

clientVars == <<threads, terminate, numberVars, serverEndPoint, lineVars,
                displayed>>

Threads == {"getLoop", "inputLoop", "receiveLoop"}

ClientTypeOK ==
  /\ threads \in [Endpoints -> SUBSET Threads]
  /\ terminate \in [Endpoints -> BOOLEAN]
  /\ sequence \in [Endpoints -> Nat]
  /\ getLoaded \in [Endpoints -> SUBSET Nat]
  /\ lineLoaded \in [Endpoints -> SUBSET Nat]
  /\ reference \subseteq Endpoints
  /\ serverEndPoint \in [Endpoints -> Servers]
  /\ typed \in [Endpoints -> Nat]
  /\ \A e \in Endpoints : typed[e] <= Len(Lines[e])
  /\ displayed \in [Endpoints -> SUBSET DataMessage]
  /\ submitted \in [Endpoints -> SUBSET DataMessage]
  /\ repeated \subseteq Endpoints

ClientInit ==
  /\ threads = [e \in Endpoints |-> {}]
  /\ terminate = [e \in Endpoints |-> FALSE]
  /\ sequence = [e \in Endpoints |-> 0]
  /\ getLoaded = [e \in Endpoints |-> {}]
  /\ lineLoaded = [e \in Endpoints |-> {}]
  /\ reference = {}
  /\ serverEndPoint = [e \in Endpoints |-> Home[e]]
  /\ typed = [e \in Endpoints |-> 0]
  /\ displayed = [e \in Endpoints |-> {}]
  /\ submitted = [e \in Endpoints |-> {}]
  /\ repeated = {}

sendOverUDP(e, server, m) ==
  requests' = requests \cup {[to |-> server, from |-> e, message |-> m]}

\* A message no handler reads more of than its type and its source.
Signal(e, type) == dataMessage(type, 0, User[e], Blank, Blank)

\* A running session has started its threads, so has sent its CONNECT.
Start(e) ==
  /\ sequence[e] = 0
  /\ sequence' = [sequence EXCEPT ![e] = 1]
  /\ threads' = [threads EXCEPT ![e] = Threads]
  /\ sendOverUDP(e, serverEndPoint[e], Signal(e, "mt_CLIENT_CONNECT"))
  /\ UNCHANGED <<relays, syncs, replies>>
  /\ UNCHANGED <<terminate, getLoaded, lineLoaded, reference, serverEndPoint,
                 lineVars, displayed>>

\* A thread reads m_terminate before each round, so once it is set a round
\* that had begun is the thread's last.
AfterRound(e, thread) ==
  IF terminate[e] THEN [threads EXCEPT ![e] = @ \ {thread}] ELSE threads

GetLoad(e) ==
  /\ "getLoop" \in threads[e]
  /\ getLoaded[e] = {}
  /\ sequence[e] < MaxSequence[e]
  /\ getLoaded' = [getLoaded EXCEPT ![e] = {sequence[e]}]
  /\ UNCHANGED networkVars
  /\ UNCHANGED <<threads, terminate, sequence, lineLoaded, reference,
                 serverEndPoint, lineVars, displayed>>

\* The number is stored, and the GET is sent: nobody reads a GET's number, so
\* when it is read does not matter.
getLoop(e) ==
  /\ "getLoop" \in threads[e]
  /\ \/ \E n \in getLoaded[e] : sequence' = [sequence EXCEPT ![e] = n + 1]
     \/ /\ getLoaded[e] = {}
        /\ sequence[e] >= MaxSequence[e]
        /\ UNCHANGED sequence
  /\ getLoaded' = [getLoaded EXCEPT ![e] = {}]
  /\ sendOverUDP(e, serverEndPoint[e], Signal(e, "mt_CLIENT_GET"))
  /\ threads' = AfterRound(e, "getLoop")
  /\ UNCHANGED <<relays, syncs, replies>>
  /\ UNCHANGED <<terminate, lineLoaded, reference, serverEndPoint, lineVars,
                 displayed>>

\* A line has been typed.
InputLoad(e) ==
  /\ "inputLoop" \in threads[e]
  /\ typed[e] < Len(Lines[e])
  /\ lineLoaded[e] = {}
  /\ e \notin reference
  /\ lineLoaded' = [lineLoaded EXCEPT ![e] = {sequence[e]}]
  /\ UNCHANGED networkVars
  /\ UNCHANGED <<threads, terminate, sequence, getLoaded, reference,
                 serverEndPoint, lineVars, displayed>>

InputStore(e) ==
  /\ "inputLoop" \in threads[e]
  /\ \E n \in lineLoaded[e] : sequence' = [sequence EXCEPT ![e] = n + 1]
  /\ lineLoaded' = [lineLoaded EXCEPT ![e] = {}]
  /\ reference' = reference \cup {e}
  /\ UNCHANGED networkVars
  /\ UNCHANGED <<threads, terminate, getLoaded, serverEndPoint, lineVars,
                 displayed>>

ChatMessage(e, line) ==
  dataMessage("mt_CLIENT_SEND", sequence[e], User[e],
              line.destination, line.payload)

inputLoop(e) ==
  /\ "inputLoop" \in threads[e]
  /\ e \in reference
  /\ typed[e] < Len(Lines[e])
  /\ LET m == ChatMessage(e, Lines[e][typed[e] + 1]) IN
       /\ sendOverUDP(e, serverEndPoint[e], m)
       /\ submitted' = [submitted EXCEPT ![e] = @ \cup {m}]
       /\ repeated' = IF m \in submitted[e] THEN repeated \cup {e}
                                            ELSE repeated
  /\ reference' = reference \ {e}
  /\ typed' = [typed EXCEPT ![e] = @ + 1]
  /\ UNCHANGED <<relays, syncs, replies>>
  /\ UNCHANGED <<threads, terminate, sequence, getLoaded, lineLoaded,
                 serverEndPoint, displayed>>

\* The exit line has been given a sequence number of its own before it is
\* recognised, and the DISCONNECT takes the next one.  It is the last message
\* of the session whose number could be read, so this is one step.
Exit(e) ==
  /\ e \in Departing
  /\ "inputLoop" \in threads[e]
  /\ lineLoaded[e] = {}
  /\ e \notin reference
  /\ terminate' = [terminate EXCEPT ![e] = TRUE]
  /\ sequence' = [sequence EXCEPT ![e] = @ + 2]
  /\ threads' = [threads EXCEPT ![e] = @ \ {"inputLoop"}]
  /\ sendOverUDP(e, serverEndPoint[e], Signal(e, "mt_CLIENT_DISCONNECT"))
  /\ UNCHANGED <<relays, syncs, replies>>
  /\ UNCHANGED <<getLoaded, lineLoaded, reference, serverEndPoint, lineVars,
                 displayed>>

Acknowledgement(e, m) ==
  dataMessage("mt_CLIENT_ACK", m.sequence, User[e], Blank, Blank)

\* receive_from stores the sender in m_serverEndPoint, so the answer, and
\* every later datagram of the session, goes to the server that sent d.
receiveOverUDP(d) ==
  LET e == d.to IN
  /\ "receiveLoop" \in threads[e]
  /\ d.message.type = "mt_SERVER_SEND"
  /\ replies' \in AfterReceipt(replies, "mt_SERVER_SEND", d)
  /\ serverEndPoint' = [serverEndPoint EXCEPT ![e] = d.from]
  /\ displayed' = [displayed EXCEPT ![e] = @ \cup {d.message}]
  /\ sendOverUDP(e, serverEndPoint'[e], Acknowledgement(e, d.message))
  /\ threads' = AfterRound(e, "receiveLoop")
  /\ UNCHANGED <<relays, syncs>>
  /\ UNCHANGED <<terminate, numberVars, lineVars>>

\* A thread that finds m_terminate set at the head of its loop returns.
Return(e, thread) ==
  /\ terminate[e]
  /\ thread \in threads[e]
  /\ thread = "getLoop" => getLoaded[e] = {}
  /\ threads' = [threads EXCEPT ![e] = @ \ {thread}]
  /\ UNCHANGED networkVars
  /\ UNCHANGED <<terminate, numberVars, serverEndPoint, lineVars, displayed>>

\* The process is killed: nothing tells the server.
Kill(e) ==
  /\ e \in Mortal
  /\ threads[e] # {}
  /\ threads' = [threads EXCEPT ![e] = {}]
  /\ UNCHANGED networkVars
  /\ UNCHANGED <<terminate, numberVars, serverEndPoint, lineVars, displayed>>

ClientNext ==
  \/ \E e \in Endpoints :
       \/ Start(e) \/ Exit(e) \/ Kill(e)
       \/ GetLoad(e) \/ getLoop(e)
       \/ InputLoad(e) \/ InputStore(e) \/ inputLoop(e)
       \/ \E thread \in {"getLoop", "receiveLoop"} : Return(e, thread)
  \/ \E d \in replies : receiveOverUDP(d)
=============================================================================
