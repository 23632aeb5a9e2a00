--------------------------- MODULE ServiceProofs ---------------------------
(***************************************************************************)
(* The chat system implements MessageService: whatever the network loses   *)
(* or repeats and whichever servers restart, a user is shown nothing that  *)
(* was not submitted for that user, and nothing that was altered.          *)
(***************************************************************************)
EXTENDS ChatSystemProofs

\* What a message may be, anywhere on its way: a submitted one, with another
\* type where a mailbox has set it.
Genuine ==
  {m \in DataMessage :
     \E e \in Endpoints : setMessageType(m, "mt_CLIENT_SEND") \in submitted[e]}

\* A session submits chat messages, and only in the name of its own user.
SubmittedUnderOwnName ==
  \A e \in Endpoints : \A m \in submitted[e] :
    m.type = "mt_CLIENT_SEND" /\ m.source = User[e]

\* Every chat message a client has sent is one it has submitted.
RequestsGenuine ==
  \A d \in requests :
    d.message.type = "mt_CLIENT_SEND" => d.message \in Genuine

\* Servers file, hold, take up, forward and answer with nothing else.
ListsGenuine ==
  /\ \A d \in relays \cup replies : d.message \in Genuine
  /\ \A s \in Servers : /\ unassociated[s] \in Seq(Genuine)
                        /\ inHand[s] \in Seq(Genuine)
                        /\ messageList[s] \in Seq(Genuine)

\* No handler invents or alters a message.
NothingInvented == SubmittedUnderOwnName /\ RequestsGenuine /\ ListsGenuine

-----------------------------------------------------------------------------
(***************************************************************************)
(* Lemmas about the operators of the model.                                *)
(***************************************************************************)

\* setMessageType changes the type and nothing else, so the last call counts.
LEMMA Retyping ==
  ASSUME NEW m \in DataMessage, NEW type \in MessageTypes
  PROVE  /\ setMessageType(m, type) \in DataMessage
         /\ setMessageType(m, type).type = type
         /\ setMessageType(m, type).sequence = m.sequence
         /\ setMessageType(m, type).source = m.source
         /\ setMessageType(m, type).destination = m.destination
         /\ \A other : setMessageType(setMessageType(m, type), other)
                         = setMessageType(m, other)
         /\ setMessageType(m, m.type) = m
  BY DEF setMessageType, DataMessage

\* Routing files, holds or forwards the message at hand and nothing else, so
\* whatever holds of every message on its way and of the one at hand, under
\* both types it may be given, holds of every message afterwards.
LEMMA RoutingKeeps ==
  ASSUME TypeOK, NEW G, NEW s \in Servers, NEW m \in G, NEW rest,
         setMessageType(m, "mt_SERVER_SEND") \in G,
         setMessageType(m, "mt_CLIENT_SEND") \in G,
         \A d \in rest : d.message \in G,
         \A t \in Servers : /\ unassociated[t] \in Seq(G)
                            /\ messageList[t] \in Seq(G),
         processClientSendMessage(s, m, rest)
  PROVE  /\ \A d \in relays' : d.message \in G
         /\ \A t \in Servers : /\ unassociated'[t] \in Seq(G)
                               /\ messageList'[t] \in Seq(G)
<1>1. /\ unassociated \in [Servers -> Seq(DataMessage)]
      /\ messageList \in [Servers -> Seq(DataMessage)]
  BY DEF TypeOK, ServerTypeOK
<1>2. \A d \in relays' : d.message \in G
  BY DEF processClientSendMessage, Forwarded
<1>3. ASSUME NEW list \in [Servers -> Seq(DataMessage)], NEW x \in G,
             \A t \in Servers : list[t] \in Seq(G),
             NEW t \in Servers
      PROVE  [list EXCEPT ![s] = Append(list[s], x)][t] \in Seq(G)
  <2>1. Append(list[s], x) \in Seq(G)
    BY <1>3, AppendProperties
  <2>2. CASE t = s
    BY <2>1, <2>2
  <2>3. CASE t # s
    BY <1>3, <2>3
  <2> QED BY <2>2, <2>3
<1>4. \/ messageList' = messageList
      \/ messageList' = [messageList EXCEPT ![s] =
                   Append(messageList[s], setMessageType(m, "mt_SERVER_SEND"))]
  <2>1. CASE addToMessageList(s, m)
    BY <1>1, <2>1 DEF addToMessageList, Appended
  <2> QED BY <2>1 DEF processClientSendMessage, listVars
<1>5. \/ unassociated' = unassociated
      \/ unassociated' = [unassociated EXCEPT ![s] =
                   Append(unassociated[s], setMessageType(m, "mt_CLIENT_SEND"))]
  <2>1. CASE addToMessageListOfUnassociatedClients(s, m)
    BY <1>1, <2>1 DEF addToMessageListOfUnassociatedClients, Appended
  <2> QED BY <2>1 DEF processClientSendMessage, listVars
<1>6. \A t \in Servers : messageList'[t] \in Seq(G)
  BY <1>1, <1>3, <1>4
<1>7. \A t \in Servers : unassociated'[t] \in Seq(G)
  BY <1>1, <1>3, <1>5
<1> QED BY <1>2, <1>6, <1>7

\* What has been submitted stays submitted, so what is genuine stays genuine.
LEMMA GenuineGrows ==
  ASSUME TypeOK, [Next]_vars
  PROVE  /\ \A e \in Endpoints : submitted[e] \subseteq submitted'[e]
         /\ Genuine \subseteq Genuine'
<1>1. submitted \in [Endpoints -> SUBSET DataMessage]
  BY DEF TypeOK, ClientTypeOK
<1>2. \/ submitted' = submitted
      \/ \E e \in Endpoints : \E m :
           submitted' = [submitted EXCEPT ![e] = submitted[e] \cup {m}]
  BY DEF Next, vars, clientVars, lineVars, ClientNext, Start, GetLoad, getLoop,
         InputLoad, InputStore, inputLoop, Exit, Kill, Return, receiveOverUDP
<1>3. \A e \in Endpoints : submitted[e] \subseteq submitted'[e]
  BY <1>1, <1>2
<1> QED BY <1>3 DEF Genuine

\* A genuine message stays one when its type is set.
LEMMA GenuineRetyped ==
  ASSUME NEW m \in Genuine, NEW type \in MessageTypes
  PROVE  setMessageType(m, type) \in Genuine
  BY Retyping DEF Genuine

-----------------------------------------------------------------------------
(***************************************************************************)
(* The inductive invariant.                                                *)
(***************************************************************************)

\* Nothing has been submitted and nothing is on its way.
LEMMA InventionInit == Init => NothingInvented
  BY EmptySeq DEF Init, NetworkInit, ServerInit, ClientInit, NothingInvented,
                  SubmittedUnderOwnName, RequestsGenuine, ListsGenuine

\* What inputLoop submits and sends: a well-formed chat message of its user,
\* under the sequence number as it is when the message is built.
LEMMA LineSubmitted ==
  ASSUME TypeOK, NEW e \in Endpoints, inputLoop(e)
  PROVE  \E m \in DataMessage :
           /\ m.type = "mt_CLIENT_SEND"
           /\ m.source = User[e]
           /\ m.sequence = sequence[e]
           /\ submitted' = [submitted EXCEPT ![e] = submitted[e] \cup {m}]
           /\ repeated' = IF m \in submitted[e] THEN repeated \cup {e}
                                                ELSE repeated
           /\ requests' = requests \cup
                {[to |-> serverEndPoint[e], from |-> e, message |-> m]}
<1> DEFINE m == ChatMessage(e, Lines[e][typed[e] + 1])
<1>1. typed[e] \in Nat /\ sequence[e] \in Nat
  BY DEF TypeOK, ClientTypeOK
<1>2. typed[e] + 1 \in 1 .. Len(Lines[e])
  BY <1>1, ClientAssumption, LenProperties DEF inputLoop
<1>3. Lines[e][typed[e] + 1] \in [destination : Usernames, payload : Payloads]
  BY <1>2, ClientAssumption, ElementOfSeq
<1>4. /\ m \in DataMessage
      /\ m.type = "mt_CLIENT_SEND"
      /\ m.source = User[e]
      /\ m.sequence = sequence[e]
  BY <1>1, <1>3, ClientAssumption
  DEF ChatMessage, dataMessage, DataMessage, MessageTypes, ClientTypes
<1>5. /\ submitted' = [submitted EXCEPT ![e] = submitted[e] \cup {m}]
      /\ repeated' = IF m \in submitted[e] THEN repeated \cup {e}
                                           ELSE repeated
      /\ requests' = requests \cup
           {[to |-> serverEndPoint[e], from |-> e, message |-> m]}
  BY DEF inputLoop, sendOverUDP
<1> HIDE DEF m
<1> QED BY <1>4, <1>5

\* Only inputLoop submits, and only receiveOverUDP shows anything.
LEMMA HistoryFrame ==
  ASSUME [Next]_vars
  PROVE  \/ UNCHANGED <<submitted, displayed>>
         \/ \E e \in Endpoints : inputLoop(e)
         \/ \E d \in replies : receiveOverUDP(d)
<1>1. CASE UNCHANGED clientVars
  BY <1>1 DEF clientVars, lineVars
<1>2. CASE ClientNext
  BY <1>2 DEF ClientNext, Start, GetLoad, getLoop, InputLoad, InputStore, Exit,
              Kill, Return, lineVars
<1> QED BY <1>1, <1>2 DEF Next, vars

\* A session submits chat messages, and only in the name of its own user.
LEMMA SubmittedStep ==
  ASSUME TypeOK, NothingInvented, [Next]_vars
  PROVE  SubmittedUnderOwnName'
<1>1. submitted \in [Endpoints -> SUBSET DataMessage]
  BY DEF TypeOK, ClientTypeOK
<1>2. SubmittedUnderOwnName
  BY DEF NothingInvented
<1>3. CASE submitted' = submitted
  BY <1>2, <1>3 DEF SubmittedUnderOwnName
<1>4. ASSUME NEW x \in Endpoints, inputLoop(x)
      PROVE  SubmittedUnderOwnName'
  <2>1. PICK new \in DataMessage :
           /\ new.type = "mt_CLIENT_SEND"
           /\ new.source = User[x]
           /\ submitted' = [submitted EXCEPT ![x] = submitted[x] \cup {new}]
    BY <1>4, LineSubmitted
  <2>2. \A e \in Endpoints : \A m \in submitted'[e] :
           m \in submitted[e] \/ (e = x /\ m = new)
    BY <1>1, <2>1
  <2> QED BY <1>2, <2>1, <2>2 DEF SubmittedUnderOwnName
<1>5. ASSUME NEW d, receiveOverUDP(d)
      PROVE  submitted' = submitted
  BY <1>5 DEF receiveOverUDP, lineVars
<1> QED BY <1>3, <1>4, <1>5, HistoryFrame

\* Only a client adds to the requests in flight: inputLoop a chat message, the
\* other threads and branches no chat message.
LEMMA RequestsFrame ==
  ASSUME [Next]_vars
  PROVE  \/ requests' \subseteq requests
         \/ \E e \in Endpoints : inputLoop(e)
         \/ \E d \in replies : receiveOverUDP(d)
         \/ \E e \in Endpoints : \E m :
              /\ m.type \notin {"mt_CLIENT_SEND", "mt_CLIENT_ACK"}
              /\ sendOverUDP(e, serverEndPoint[e], m)
              /\ UNCHANGED <<relays, replies, submitted, displayed>>
<1>1. ASSUME NEW d, ReceiveRequest(d)
      PROVE  requests' \subseteq requests
  BY <1>1, ReceiptShrinks
  DEF ReceiveRequest, ReceiveClientSend, sendMessagesToClient,
      addClientConnection, removeClientConnection,
      removeReceivedMessageFromList, ReceivedRequest
<1>2. ASSUME NEW d, ReceiveRelay(d) \/ receiveClientsFromAdjacentServers(d)
      PROVE  requests' = requests
  BY <1>2 DEF ReceiveRelay, receiveClientsFromAdjacentServers
<1>3. ASSUME NEW s, \/ BeginPass(s) \/ TakeFront(s) \/ RouteAgain(s)
                    \/ SnapshotClients(s) \/ SendSyncPayload(s)
                    \/ Overlap(s) \/ Forgets(s)
      PROVE  requests' = requests
  BY <1>3 DEF BeginPass, TakeFront, RouteAgain, SnapshotClients,
              SendSyncPayload, Overlap, Forgets, networkVars
<1>4. CASE ServerNext
  BY <1>1, <1>2, <1>3, <1>4
  DEF ServerNext, listenLoopUDP, TakeMissingFront, Restart
<1>5. ASSUME NEW e \in Endpoints, Start(e) \/ getLoop(e) \/ Exit(e)
      PROVE  \E m : /\ m.type \notin {"mt_CLIENT_SEND", "mt_CLIENT_ACK"}
                    /\ sendOverUDP(e, serverEndPoint[e], m)
                    /\ UNCHANGED <<relays, replies, submitted, displayed>>
  <2>1. \E type \in {"mt_CLIENT_CONNECT", "mt_CLIENT_GET",
                     "mt_CLIENT_DISCONNECT"} :
           /\ sendOverUDP(e, serverEndPoint[e], Signal(e, type))
           /\ UNCHANGED <<relays, replies, submitted, displayed>>
    BY <1>5 DEF Start, getLoop, Exit, lineVars
  <2>2. \A type : Signal(e, type).type = type
    BY DEF Signal, dataMessage
  <2> QED BY <2>1, <2>2
<1>6. ASSUME NEW e, \/ GetLoad(e) \/ InputLoad(e) \/ InputStore(e)
                    \/ Kill(e) \/ \E thread : Return(e, thread)
      PROVE  requests' = requests
  BY <1>6 DEF GetLoad, InputLoad, InputStore, Kill, Return, networkVars
<1>7. CASE ClientNext
  BY <1>5, <1>6, <1>7 DEF ClientNext
<1>8. CASE Lose \/ UNCHANGED vars
  BY <1>8 DEF Lose, vars, networkVars
<1> QED BY <1>4, <1>7, <1>8 DEF Next

\* Every chat message a client has sent is one it has submitted.
LEMMA RequestsGenuineStep ==
  ASSUME TypeOK, NothingInvented, [Next]_vars
  PROVE  RequestsGenuine'
<1>1. /\ \A d \in requests :
           d.message.type = "mt_CLIENT_SEND" => d.message \in Genuine'
      /\ submitted \in [Endpoints -> SUBSET DataMessage]
  BY GenuineGrows DEF NothingInvented, RequestsGenuine, TypeOK, ClientTypeOK
<1>2. ASSUME NEW e \in Endpoints, inputLoop(e), NEW d \in requests'
      PROVE  d \in requests \/ d.message \in Genuine'
  <2>1. PICK m \in DataMessage :
           /\ m.type = "mt_CLIENT_SEND"
           /\ submitted' = [submitted EXCEPT ![e] = submitted[e] \cup {m}]
           /\ requests' = requests \cup
                {[to |-> serverEndPoint[e], from |-> e, message |-> m]}
    BY <1>2, LineSubmitted
  <2>2. setMessageType(m, "mt_CLIENT_SEND") = m
    BY <2>1, Retyping DEF MessageTypes, ClientTypes
  <2>3. setMessageType(m, "mt_CLIENT_SEND") \in submitted'[e]
    BY <1>1, <2>1, <2>2
  <2>4. m \in Genuine'
    BY <2>3 DEF Genuine
  <2> QED BY <2>1, <2>4
<1>3. ASSUME NEW e, NEW server, NEW m, sendOverUDP(e, server, m),
             m.type # "mt_CLIENT_SEND"
      PROVE  RequestsGenuine'
  BY <1>1, <1>3 DEF sendOverUDP, RequestsGenuine
<1>4. ASSUME NEW d, receiveOverUDP(d)
      PROVE  \E e, server, m : /\ sendOverUDP(e, server, m)
                               /\ m.type # "mt_CLIENT_SEND"
  BY <1>4 DEF receiveOverUDP, Acknowledgement, dataMessage
<1> QED BY <1>1, <1>2, <1>3, <1>4, RequestsFrame DEF RequestsGenuine

\* Servers file, hold, forward and answer with nothing but genuine messages:
\* what they route comes from a client, from a neighbour or from their own
\* list, and of an empty list nothing is routed.
LEMMA ListsGenuineStep ==
  ASSUME TypeOK, NothingInvented, [Next]_vars
  PROVE  ListsGenuine'
<1>1. /\ \A d \in relays \cup replies : d.message \in Genuine
      /\ \A s \in Servers : /\ unassociated[s] \in Seq(Genuine)
                            /\ inHand[s] \in Seq(Genuine)
                            /\ messageList[s] \in Seq(Genuine)
      /\ Genuine \subseteq Genuine' /\ Seq(Genuine) \subseteq Seq(Genuine')
  BY GenuineGrows, SeqDef DEF NothingInvented, ListsGenuine
<1>2. /\ unassociated \in [Servers -> Seq(DataMessage)]
      /\ inHand \in [Servers -> Seq(DataMessage)]
      /\ messageList \in [Servers -> Seq(DataMessage)]
      /\ \A d \in requests : d.to \in Servers
      /\ \A d \in relays : d.to \in Servers
  BY DEF TypeOK, ServerTypeOK, NetworkTypeOK, Request, Relay
<1>3. ASSUME relays' \subseteq relays, replies' \subseteq replies,
             UNCHANGED <<unassociated, inHand, messageList>>
      PROVE  ListsGenuine'
  BY <1>1, <1>3 DEF ListsGenuine
<1>4. ASSUME NEW s \in Servers, NEW m \in Genuine, NEW rest \in SUBSET relays,
             processClientSendMessage(s, m, rest)
      PROVE  /\ \A d \in relays' : d.message \in Genuine'
             /\ \A t \in Servers : /\ unassociated'[t] \in Seq(Genuine')
                                   /\ messageList'[t] \in Seq(Genuine')
  <2>1. /\ setMessageType(m, "mt_SERVER_SEND") \in Genuine
        /\ setMessageType(m, "mt_CLIENT_SEND") \in Genuine
    BY GenuineRetyped DEF MessageTypes, ClientTypes
  <2>2. \A d \in rest : d.message \in Genuine
    BY <1>1
  <2>3. /\ \A d \in relays' : d.message \in Genuine
        /\ \A t \in Servers : /\ unassociated'[t] \in Seq(Genuine)
                              /\ messageList'[t] \in Seq(Genuine)
    BY <1>1, <1>4, <2>1, <2>2, RoutingKeeps
  <2> QED BY <1>1, <2>3
<1>5. ASSUME NEW d \in requests, ReceiveRequest(d)
      PROVE  ListsGenuine'
  <2>1. CASE ReceiveClientSend(d)
    <3>1. d.message \in Genuine
      BY <2>1 DEF ReceiveClientSend, ReceivedRequest, NothingInvented,
                 RequestsGenuine
    <3>2. /\ processClientSendMessage(d.to, d.message, relays)
          /\ UNCHANGED <<inHand, replies>>
      BY <2>1 DEF ReceiveClientSend, forwardVars
    <3> QED BY <1>1, <1>2, <1>4, <3>1, <3>2 DEF ListsGenuine
  <2>2. CASE addClientConnection(d) \/ removeClientConnection(d)
    BY <1>3, <2>2
    DEF addClientConnection, removeClientConnection, listVars, forwardVars
  <2>3. CASE sendMessagesToClient(d)
    <3>1. \A s \in Servers : \A k \in DOMAIN messageList[s] :
             messageList[s][k] \in Genuine
      BY <1>1, ElementOfSeq, LenProperties
    <3>2. \A r \in replies' : r \in replies \/ r.message \in Genuine
      BY <1>2, <2>3, <3>1 DEF sendMessagesToClient, MailFor
    <3>3. UNCHANGED <<relays, unassociated, inHand, messageList>>
      BY <2>3 DEF sendMessagesToClient, serverVars, listVars, forwardVars
    <3> QED BY <1>1, <3>2, <3>3 DEF ListsGenuine
  <2>4. CASE removeReceivedMessageFromList(d)
    <3>1. UNCHANGED <<relays, replies, unassociated, inHand>>
      BY <2>4 DEF removeReceivedMessageFromList, forwardVars
    <3>2. \/ messageList' = messageList
          \/ \E k \in DOMAIN messageList[d.to] :
               messageList' = [messageList EXCEPT
                                 ![d.to] = Erase(messageList[d.to], k)]
      BY <2>4 DEF removeReceivedMessageFromList, AcknowledgedBy
    <3>3. \A k \in DOMAIN messageList[d.to] :
             Erase(messageList[d.to], k) \in Seq(Genuine)
      BY <1>1, <1>2, EraseElements
    <3>4. \A s \in Servers : messageList'[s] \in Seq(Genuine)
      BY <1>1, <1>2, <3>2, <3>3
    <3> QED BY <1>1, <3>1, <3>4 DEF ListsGenuine
  <2> QED BY <1>5, <2>1, <2>2, <2>3, <2>4 DEF ReceiveRequest
<1>6. ASSUME NEW d \in relays, ReceiveRelay(d)
      PROVE  ListsGenuine'
  <2>1. PICK rest \in AfterReceipt(relays, "relay", d) :
           processClientSendMessage(d.to, d.message, rest)
    BY <1>6 DEF ReceiveRelay
  <2>2. rest \in SUBSET relays
    BY ReceiptShrinks
  <2>3. UNCHANGED <<inHand, replies>>
    BY <1>6 DEF ReceiveRelay, forwardVars
  <2> QED BY <1>1, <1>2, <1>4, <2>1, <2>2, <2>3 DEF ListsGenuine
<1>7. ASSUME NEW d, receiveClientsFromAdjacentServers(d)
      PROVE  ListsGenuine'
  BY <1>3, <1>7 DEF receiveClientsFromAdjacentServers, listVars, forwardVars
<1>8. ASSUME NEW s, \/ BeginPass(s) \/ SnapshotClients(s)
                    \/ SendSyncPayload(s) \/ Overlap(s)
      PROVE  ListsGenuine'
  BY <1>3, <1>8
  DEF BeginPass, SnapshotClients, SendSyncPayload, Overlap, networkVars,
      listVars, forwardVars
<1>9. ASSUME NEW s \in Servers, TakeFront(s)
      PROVE  ListsGenuine'
  <2>1. unassociated[s] # <<>>
    BY <1>9 DEF TakeFront
  <2>2. /\ Head(unassociated[s]) \in Genuine
        /\ Tail(unassociated[s]) \in Seq(Genuine)
    BY <1>1, <2>1, HeadTailProperties
  <2>3. /\ UNCHANGED <<relays, replies, messageList>>
        /\ inHand' = [inHand EXCEPT ![s] = <<Head(unassociated[s])>>]
        /\ unassociated' = [unassociated EXCEPT ![s] = Tail(unassociated[s])]
    BY <1>9 DEF TakeFront, networkVars
  <2>4. <<Head(unassociated[s])>> \in Seq(Genuine)
    BY <2>2
  <2>5. \A t \in Servers : /\ inHand'[t] \in Seq(Genuine)
                           /\ unassociated'[t] \in Seq(Genuine)
    BY <1>1, <1>2, <2>2, <2>3, <2>4
  <2> QED BY <1>1, <2>3, <2>5 DEF ListsGenuine
<1>10. ASSUME NEW s \in Servers, RouteAgain(s)
       PROVE  ListsGenuine'
  <2>1. Head(inHand[s]) \in Genuine
    BY <1>1, <1>10, HeadTailProperties DEF RouteAgain
  <2>2. /\ processClientSendMessage(s, Head(inHand[s]), relays)
        /\ inHand' = [inHand EXCEPT ![s] = <<>>]
        /\ replies' = replies
    BY <1>10 DEF RouteAgain
  <2>3. \A t \in Servers : inHand'[t] \in Seq(Genuine)
    BY <1>1, <1>2, <2>2, EmptySeq
  <2> QED BY <1>1, <1>4, <2>1, <2>2, <2>3 DEF ListsGenuine
<1>11. ASSUME NEW s \in Servers, Forgets(s)
       PROVE  ListsGenuine'
  <2>1. /\ UNCHANGED <<relays, replies>>
        /\ messageList' = [messageList EXCEPT ![s] = <<>>]
        /\ inHand' = [inHand EXCEPT ![s] = <<>>]
        /\ unassociated' = [unassociated EXCEPT ![s] = <<>>]
    BY <1>11 DEF Forgets, networkVars
  <2>2. \A t \in Servers : /\ inHand'[t] \in Seq(Genuine)
                           /\ unassociated'[t] \in Seq(Genuine)
                           /\ messageList'[t] \in Seq(Genuine)
    BY <1>1, <1>2, <2>1, EmptySeq
  <2> QED BY <1>1, <2>1, <2>2 DEF ListsGenuine
<1>12. CASE ServerNext
  BY <1>5, <1>6, <1>7, <1>8, <1>9, <1>10, <1>11, <1>12
  DEF ServerNext, listenLoopUDP, TakeMissingFront, Restart
<1>13. CASE UNCHANGED serverVars /\ (ClientNext \/ Lose)
  <2>1. relays' \subseteq relays /\ replies' \subseteq replies
    <3>1. ASSUME NEW d, receiveOverUDP(d)
          PROVE  relays' \subseteq relays /\ replies' \subseteq replies
      BY <3>1, ReceiptShrinks DEF receiveOverUDP
    <3> QED
      BY <1>13, <3>1
      DEF Lose, ClientNext, Start, GetLoad, getLoop, InputLoad, InputStore,
          inputLoop, Exit, Kill, Return, networkVars
  <2> QED BY <1>3, <1>13, <2>1 DEF serverVars, listVars, forwardVars
<1>14. CASE UNCHANGED vars
  BY <1>3, <1>14 DEF vars, networkVars, serverVars, listVars, forwardVars
<1> QED BY <1>12, <1>13, <1>14 DEF Next

\* Every message on its way, in every list and in every answer is one that was
\* submitted, but for its type.
THEOREM NothingIsInvented == Spec => []NothingInvented
<1>1. TypeOK /\ NothingInvented /\ [Next]_vars => NothingInvented'
  BY SubmittedStep, RequestsGenuineStep, ListsGenuineStep DEF NothingInvented
<1> QED BY InventionInit, TypeCorrect, <1>1, PTL DEF Spec

-----------------------------------------------------------------------------
(***************************************************************************)
(* The refinement.                                                         *)
(***************************************************************************)

\* At first nobody has submitted or been shown anything.
LEMMA ServiceInit == Init => Service!Init
  BY DEF Init, ClientInit, Service!Init

\* A line that inputLoop sends is submitted to the service, in the name of the
\* user who typed it.
LEMMA LineRefinesSubmit ==
  ASSUME TypeOK, NEW e \in Endpoints, inputLoop(e)
  PROVE  Service!Submit(e)
<1>1. PICK m \in DataMessage :
         /\ m.source = User[e]
         /\ submitted' = [submitted EXCEPT ![e] = submitted[e] \cup {m}]
  BY LineSubmitted
<1>2. m \in submitted'[e]
  BY <1>1 DEF TypeOK, ClientTypeOK
<1>3. displayed' = displayed
  BY DEF inputLoop
<1> QED BY <1>1, <1>2, <1>3 DEF Service!Submit

\* What receiveOverUDP shows was submitted for the user it is shown to.
LEMMA ReceiptRefinesShow ==
  ASSUME TypeOK, Truth, NothingInvented, NEW d \in replies, receiveOverUDP(d)
  PROVE  Service!Show(d.to)
<1> DEFINE Original(m) == setMessageType(m, "mt_CLIENT_SEND")
           shown == [e \in Endpoints |-> {Original(m) : m \in displayed[e]}]
<1>1. /\ displayed \in [Endpoints -> SUBSET DataMessage]
      /\ d.to \in Endpoints /\ d.message \in DataMessage
  BY DEF TypeOK, ClientTypeOK, NetworkTypeOK, Reply
<1>2. PICK x \in Endpoints : Original(d.message) \in submitted[x]
  BY DEF NothingInvented, ListsGenuine, Genuine
<1>3. Original(d.message).source = User[x]
  BY <1>2 DEF NothingInvented, SubmittedUnderOwnName
<1>4. Original(d.message).destination = User[d.to]
  BY <1>1, Retyping DEF Truth, RepliesRightful, MessageTypes, ClientTypes
<1>5. /\ displayed' =
           [displayed EXCEPT ![d.to] = displayed[d.to] \cup {d.message}]
      /\ submitted' = submitted
  BY DEF receiveOverUDP, lineVars
<1> HIDE DEF Original
<1>6. shown' = [shown EXCEPT ![d.to] = shown[d.to] \cup {Original(d.message)}]
  BY <1>1, <1>5
<1> QED BY <1>2, <1>3, <1>4, <1>5, <1>6 DEF Service!Show, Original

\* Clients, servers and network together are the message service: what a user
\* sees was submitted for that user, in the name of the user it names, and is
\* unaltered.
THEOREM SystemImplementsService == Spec => ImplementsService
<1>1. TypeOK /\ Truth /\ NothingInvented /\ [Next]_vars
      => [Service!Next]_<<submitted,
                          [e \in Endpoints |->
                             {setMessageType(m, "mt_CLIENT_SEND") :
                                m \in displayed[e]}]>>
  <2> SUFFICES ASSUME TypeOK, Truth, NothingInvented, [Next]_vars
               PROVE  \/ Service!Next
                      \/ UNCHANGED <<submitted, displayed>>
    OBVIOUS
  <2>1. \A d \in replies : d.to \in Endpoints
    BY DEF TypeOK, NetworkTypeOK, Reply
  <2> QED
    BY <2>1, HistoryFrame, LineRefinesSubmit, ReceiptRefinesShow
    DEF Service!Next
<1> QED
  BY ServiceInit, TruthInvariant, NothingIsInvented, <1>1, PTL
  DEF Spec, ImplementsService, Service!Spec

=============================================================================
