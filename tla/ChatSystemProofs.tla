-------------------------- MODULE ChatSystemProofs --------------------------
(***************************************************************************)
(* Theorems about ChatSystem, for every number of servers, every set of    *)
(* sessions, and whatever the network loses or repeats.                    *)
(***************************************************************************)
EXTENDS ChatSystem, SequenceTheorems, TLAPS

-----------------------------------------------------------------------------
(***************************************************************************)
(* Lemmas about the operators of the model.                                *)
(***************************************************************************)

\* Receiving a datagram adds nothing to what is in flight.
LEMMA ReceiptShrinks ==
  ASSUME NEW flight, NEW kind, NEW d, NEW rest \in AfterReceipt(flight, kind, d)
  PROVE  rest \subseteq flight
  BY DEF AfterReceipt

\* std::list::erase takes one message out of a list and adds none.
LEMMA EraseElements ==
  ASSUME NEW S, NEW list \in Seq(S), NEW k \in DOMAIN list
  PROVE  /\ Erase(list, k) \in Seq(S)
         /\ \A i \in DOMAIN Erase(list, k) :
              \E j \in DOMAIN list : Erase(list, k)[i] = list[j]
<1> DEFINE front == SubSeq(list, 1, k - 1)
           back == SubSeq(list, k + 1, Len(list))
<1>1. k \in 1 .. Len(list) /\ Len(list) \in Nat
  BY LenProperties
<1>2. /\ front \in Seq(S)
      /\ Len(front) = k - 1
      /\ \A i \in 1 .. k - 1 : front[i] = list[i]
  BY <1>1, SubSeqProperties
<1>3. /\ back \in Seq(S)
      /\ Len(back) = Len(list) - k
      /\ \A i \in 1 .. Len(list) - k : back[i] = list[k + i]
  BY <1>1, SubSeqProperties
<1>4. Erase(list, k) = front \o back
  BY DEF Erase
<1> HIDE DEF front, back
<1>5. /\ front \o back \in Seq(S)
      /\ Len(front \o back) = Len(front) + Len(back)
      /\ \A i \in 1 .. Len(front) + Len(back) :
           (front \o back)[i] = IF i <= Len(front) THEN front[i]
                                ELSE back[i - Len(front)]
  BY <1>2, <1>3, ConcatProperties
<1>6. Len(Erase(list, k)) = Len(list) - 1
  BY <1>1, <1>2, <1>3, <1>4, <1>5
<1>7. ASSUME NEW i \in 1 .. Len(list) - 1
      PROVE  Erase(list, k)[i] = IF i <= k - 1 THEN front[i]
                                 ELSE back[i - (k - 1)]
  <2>1. i \in 1 .. Len(front) + Len(back)
    BY <1>1, <1>2, <1>3
  <2>2. (front \o back)[i] = IF i <= Len(front) THEN front[i]
                             ELSE back[i - Len(front)]
    BY <1>5, <2>1
  <2> QED BY <1>2, <1>4, <2>2
<1>8. Erase(list, k) \in Seq(S)
  BY <1>4, <1>5
<1>9. ASSUME NEW i \in DOMAIN Erase(list, k)
      PROVE  \E j \in DOMAIN list : Erase(list, k)[i] = list[j]
  <2>1. i \in 1 .. Len(list) - 1
    BY <1>1, <1>6, <1>8, LenProperties
  <2>2. Erase(list, k)[i] = IF i <= k - 1 THEN front[i] ELSE back[i - (k - 1)]
    BY <1>7, <2>1
  <2>3. CASE i <= k - 1
    <3>1. Erase(list, k)[i] = list[i]
      BY <1>1, <1>2, <2>1, <2>2, <2>3
    <3>2. i \in DOMAIN list
      BY <1>1, <2>1, LenProperties
    <3> QED BY <3>1, <3>2
  <2>4. CASE i > k - 1
    <3>1. i - (k - 1) \in 1 .. Len(list) - k /\ k + (i - (k - 1)) = i + 1
      BY <1>1, <2>1, <2>4
    <3>2. Erase(list, k)[i] = list[i + 1]
      <4>1. Erase(list, k)[i] = back[i - (k - 1)]
        BY <1>1, <2>1, <2>2, <2>4
      <4>2. back[i - (k - 1)] = list[k + (i - (k - 1))]
        BY <1>3, <3>1
      <4> QED BY <3>1, <4>1, <4>2
    <3>3. i + 1 \in DOMAIN list
      BY <1>1, <2>1, LenProperties
    <3> QED BY <3>2, <3>3
  <2> QED BY <1>1, <2>1, <2>3, <2>4
<1> QED BY <1>8, <1>9

\* A list that a message is appended to has one more, or is as it was.
LEMMA AppendedList ==
  ASSUME NEW S, NEW old \in Seq(S), NEW m \in S, NEW s, NEW list,
         NEW new \in Appended(s, list, old, m)
  PROVE  /\ new = old \/ new = Append(old, m)
         /\ new \in Seq(S)
         /\ Len(new) >= Len(old)
<1>1. new = old \/ new = Append(old, m)
  BY DEF Appended
<1>2. /\ Append(old, m) \in Seq(S)
      /\ Len(Append(old, m)) = Len(old) + 1
      /\ Len(old) \in Nat
  BY AppendProperties, LenProperties
<1> QED BY <1>1, <1>2

\* What the lists of a server contain.
LEMMA ListElements ==
  ASSUME ServerTypeOK, NEW s \in Servers
  PROVE  /\ \A i \in DOMAIN connectedClients[s] :
              /\ connectedClients[s][i] \in remoteConnection
              /\ connectedClients[s][i].id \in Usernames
              /\ connectedClients[s][i].endpoint \in Endpoints
         /\ \A k \in DOMAIN messageList[s] : messageList[s][k] \in DataMessage
         /\ \A k \in DOMAIN unassociated[s] : unassociated[s][k] \in DataMessage
<1>1. /\ connectedClients[s] \in Seq(remoteConnection)
      /\ messageList[s] \in Seq(DataMessage)
      /\ unassociated[s] \in Seq(DataMessage)
  BY DEF ServerTypeOK
<1>2. \A i \in DOMAIN connectedClients[s] :
         connectedClients[s][i] \in remoteConnection
  BY <1>1, ElementOfSeq, LenProperties
<1>3. \A c \in remoteConnection : c.id \in Usernames /\ c.endpoint \in Endpoints
  BY DEF remoteConnection
<1> QED
  BY <1>1, <1>2, <1>3, ElementOfSeq, LenProperties

\* A send of a synchronisation round goes to a neighbour that exists, and is
\* about a server on the far side of it.
LEMMA SyncRound ==
  ASSUME NEW s \in Servers,
         NEW k \in 1 .. LeftSends(s) + RightSends(s)
  PROVE  /\ SyncTarget(s, k) \in Servers
         /\ SyncOrigin(s, k) \in Servers
         /\ \/ SyncTarget(s, k) = s - 1 /\ SyncOrigin(s, k) >= s
            \/ SyncTarget(s, k) = s + 1 /\ SyncOrigin(s, k) <= s
<1> USE DEF LeftSends, RightSends, HasLeft, HasRight, leftAdjacentServerIndex,
            rightAdjacentServerIndex
<1>1. highestServerIndex \in Nat /\ s \in Int /\ 0 <= s /\ s <= highestServerIndex
  BY NetworkAssumption DEF Servers
<1>2. CASE k <= LeftSends(s)
  <2>1. HasLeft(s) /\ k \in 1 .. highestServerIndex - s + 1
    BY <1>1, <1>2
  <2>2. SyncTarget(s, k) = s - 1 /\ SyncOrigin(s, k) = s + k - 1
    BY <1>2 DEF SyncTarget, SyncOrigin
  <2> QED BY <1>1, <2>1, <2>2 DEF Servers
<1>3. CASE ~(k <= LeftSends(s))
  <2>1. /\ HasRight(s)
        /\ k - LeftSends(s) - 1 \in 0 .. s
    BY <1>1, <1>3
  <2>2. /\ SyncTarget(s, k) = s + 1
        /\ SyncOrigin(s, k) = s - (k - LeftSends(s) - 1)
    BY <1>3 DEF SyncTarget, SyncOrigin
  <2> QED BY <1>1, <2>1, <2>2 DEF Servers
<1> QED BY <1>2, <1>3

\* Routing a message keeps the lists well formed, takes nothing out of the
\* list of held messages, and sends at most to a neighbour that exists.
LEMMA RoutingTypes ==
  ASSUME TypeOK, NEW s \in Servers, NEW m \in DataMessage,
         NEW rest \in SUBSET Relay, processClientSendMessage(s, m, rest)
  PROVE  /\ messageList' \in [Servers -> Seq(DataMessage)]
         /\ unassociated' \in [Servers -> Seq(DataMessage)]
         /\ relays' \subseteq Relay
         /\ \A t \in Servers : Len(unassociated'[t]) >= Len(unassociated[t])
<1> DEFINE n == m.destination
<1>1. /\ messageList \in [Servers -> Seq(DataMessage)]
      /\ unassociated \in [Servers -> Seq(DataMessage)]
      /\ highestServerIndex \in Nat
  BY NetworkAssumption DEF TypeOK, ServerTypeOK
<1>2. \A type \in MessageTypes : setMessageType(m, type) \in DataMessage
  BY DEF setMessageType, DataMessage
<1>3. "mt_SERVER_SEND" \in MessageTypes /\ "mt_CLIENT_SEND" \in MessageTypes
  BY DEF MessageTypes, ClientTypes
<1>4. \A t \in Servers : Len(unassociated[t]) \in Nat
  BY <1>1, LenProperties
<1>5. CASE IsConnected(s, n) /\ addToMessageList(s, m) /\ relays' = rest
           /\ UNCHANGED unassociated
  <2> DEFINE kept == setMessageType(m, "mt_SERVER_SEND")
  <2>1. PICK new \in Appended(s, "messageList", messageList[s], kept) :
           messageList' = [messageList EXCEPT ![s] = new]
    BY <1>5 DEF addToMessageList
  <2>2. kept \in DataMessage
    BY <1>2, <1>3
  <2> HIDE DEF kept
  <2>3. new \in Seq(DataMessage)
    BY <1>1, <2>1, <2>2, AppendedList
  <2>4. messageList' \in [Servers -> Seq(DataMessage)]
    BY <1>1, <2>1, <2>3
  <2> QED BY <1>1, <1>4, <1>5, <2>4
<1>6. CASE IsToTheLeft(s, n) /\ UNCHANGED listVars
           /\ relays' = rest \cup Forwarded(s, leftAdjacentServerIndex(s), m)
  <2>1. leftAdjacentServerIndex(s) \in Servers
    BY <1>1, <1>6 DEF IsToTheLeft, leftAdjacentServerIndex, Servers
  <2>2. Forwarded(s, leftAdjacentServerIndex(s), m) \subseteq Relay
    BY <2>1 DEF Forwarded, Relay
  <2> QED BY <1>1, <1>4, <1>6, <2>2 DEF listVars
<1>7. CASE IsToTheRight(s, n) /\ UNCHANGED listVars
           /\ relays' = rest \cup Forwarded(s, rightAdjacentServerIndex(s), m)
  <2>1. rightAdjacentServerIndex(s) \in Servers
    BY <1>1, <1>7 DEF IsToTheRight, rightAdjacentServerIndex, Servers
  <2>2. Forwarded(s, rightAdjacentServerIndex(s), m) \subseteq Relay
    BY <2>1 DEF Forwarded, Relay
  <2> QED BY <1>1, <1>4, <1>7, <2>2 DEF listVars
<1>8. CASE addToMessageListOfUnassociatedClients(s, m) /\ relays' = rest
           /\ UNCHANGED messageList
  <2> DEFINE held == setMessageType(m, "mt_CLIENT_SEND")
  <2>1. held \in DataMessage
    BY <1>2, <1>3
  <2>2. PICK new \in Appended(s, "unassociated", unassociated[s], held) :
           unassociated' = [unassociated EXCEPT ![s] = new]
    BY <1>8 DEF addToMessageListOfUnassociatedClients
  <2> HIDE DEF held
  <2>3. new \in Seq(DataMessage) /\ Len(new) >= Len(unassociated[s])
    BY <1>1, <2>1, AppendedList
  <2>4. unassociated' \in [Servers -> Seq(DataMessage)]
    BY <1>1, <2>2, <2>3
  <2>5. \A t \in Servers : Len(unassociated'[t]) >= Len(unassociated[t])
    BY <1>1, <1>4, <2>2, <2>3
  <2> QED BY <1>1, <1>8, <2>4, <2>5
<1> QED
  BY <1>5, <1>6, <1>7, <1>8 DEF processClientSendMessage

-----------------------------------------------------------------------------
(***************************************************************************)
(* Type correctness, and why a server does not crash: on a list that no    *)
(* two calls have changed at once, a pass never finds too few messages.    *)
(***************************************************************************)
TypeInv == TypeOK /\ PassNeverStarves

\* All lists start empty, so the initial state is well typed.
LEMMA TypeInit == Init => TypeInv
<1> SUFFICES ASSUME Init PROVE TypeInv
  OBVIOUS
<1>1. NetworkTypeOK
  BY DEF Init, NetworkInit, NetworkTypeOK
<1>2. ServerTypeOK
  <2>1. \A S : <<>> \in Seq(S) /\ Len(<<>>) = 0
    OBVIOUS
  <2>2. /\ connectedClients \in [Servers -> Seq(remoteConnection)]
        /\ messageList \in [Servers -> Seq(DataMessage)]
        /\ unassociated \in [Servers -> Seq(DataMessage)]
        /\ inHand \in [Servers -> Seq(DataMessage)]
    BY <2>1 DEF Init, ServerInit
  <2>3. /\ clientsServed \in [Servers -> [Servers -> SUBSET Usernames]]
        /\ toCheck \in [Servers -> Nat]
        /\ syncStep \in [Servers -> Nat]
        /\ torn \in [Servers -> SUBSET Lists]
        /\ crashed \subseteq Servers
    BY DEF Init, ServerInit
  <2>4. \A s \in Servers : /\ Len(inHand[s]) <= 1
                           /\ syncStep[s] <= LeftSends(s) + RightSends(s)
    BY NetworkAssumption DEF Init, ServerInit, LeftSends, RightSends, HasLeft,
       HasRight, leftAdjacentServerIndex, rightAdjacentServerIndex, Servers
  <2> QED BY <2>2, <2>3, <2>4 DEF ServerTypeOK
<1>3. ClientTypeOK
  BY ClientAssumption, LenProperties DEF Init, ClientInit, ClientTypeOK, Threads
<1>4. PassNeverStarves
  BY DEF Init, ServerInit, PassNeverStarves
<1> QED BY <1>1, <1>2, <1>3, <1>4 DEF TypeInv, TypeOK

\* Every thread of every server keeps the types, and no thread but
\* attemptForward takes from the list of held messages.
LEMMA TypeServer ==
  ASSUME TypeInv, ServerNext, UNCHANGED clientVars
  PROVE  TypeInv'
<1>1. /\ requests \subseteq Request
      /\ relays \subseteq Relay
      /\ syncs \subseteq Sync
      /\ replies \subseteq Reply
  BY DEF TypeInv, TypeOK, NetworkTypeOK
<1>2. /\ connectedClients \in [Servers -> Seq(remoteConnection)]
      /\ messageList \in [Servers -> Seq(DataMessage)]
      /\ unassociated \in [Servers -> Seq(DataMessage)]
      /\ clientsServed \in [Servers -> [Servers -> SUBSET Usernames]]
      /\ toCheck \in [Servers -> Nat]
      /\ inHand \in [Servers -> Seq(DataMessage)]
      /\ syncStep \in [Servers -> Nat]
      /\ \A s \in Servers : /\ Len(inHand[s]) <= 1
                            /\ syncStep[s] <= LeftSends(s) + RightSends(s)
      /\ torn \in [Servers -> SUBSET Lists]
      /\ crashed \subseteq Servers
      /\ \A s \in Servers : "unassociated" \notin torn[s] =>
           toCheck[s] <= Len(unassociated[s]) /\ s \notin crashed
  BY DEF TypeInv, TypeOK, ServerTypeOK, PassNeverStarves
<1>3. ClientTypeOK'
  BY DEF TypeInv, TypeOK, ClientTypeOK, clientVars, numberVars, lineVars
<1>4. highestServerIndex \in Nat
  BY NetworkAssumption
<1>5. \A s \in Servers : LeftSends(s) \in Nat /\ RightSends(s) \in Nat
  BY <1>4 DEF LeftSends, RightSends, Servers
<1>6. \A s \in Servers : Len(unassociated[s]) \in Nat
  BY <1>2, LenProperties
<1>7. ASSUME NEW d \in requests, NEW type, ReceivedRequest(d, type)
      PROVE  /\ requests' \subseteq Request
             /\ d.to \in Servers /\ d.from \in Endpoints
             /\ d.message \in DataMessage /\ d.message.source \in Usernames
  BY <1>1, <1>7, ReceiptShrinks DEF ReceivedRequest, Request, DataMessage
<1>8. ASSUME NEW d \in requests, addClientConnection(d)
      PROVE  TypeInv'
  <2>1. ReceivedRequest(d, "mt_CLIENT_CONNECT")
    BY <1>8 DEF addClientConnection
  <2> DEFINE c == [id |-> d.message.source, endpoint |-> d.from]
  <2>2. c \in remoteConnection
    BY <1>7, <2>1 DEF remoteConnection
  <2>3. connectedClients' = [connectedClients EXCEPT
                               ![d.to] = Append(connectedClients[d.to], c)]
    BY <1>8 DEF addClientConnection
  <2> HIDE DEF c
  <2>4. connectedClients' \in [Servers -> Seq(remoteConnection)]
    BY <1>2, <1>7, <2>1, <2>2, <2>3, AppendProperties
  <2> QED
    BY <1>1, <1>2, <1>3, <1>7, <1>8, <2>1, <2>4
    DEF addClientConnection, listVars, forwardVars, damageVars, TypeInv, TypeOK,
        NetworkTypeOK, ServerTypeOK, PassNeverStarves
<1>9. ASSUME NEW d \in requests, removeClientConnection(d)
      PROVE  TypeInv'
  <2>1. ReceivedRequest(d, "mt_CLIENT_DISCONNECT")
    BY <1>9 DEF removeClientConnection
  <2>2. \A cs \in Seq(remoteConnection), n \in Usernames :
           WithoutConnection(cs, n) \in Seq(remoteConnection)
    BY HeadTailProperties DEF WithoutConnection
  <2>3. connectedClients' \in [Servers -> Seq(remoteConnection)]
    BY <1>2, <1>7, <1>9, <2>1, <2>2 DEF removeClientConnection
  <2> QED
    BY <1>1, <1>2, <1>3, <1>7, <1>9, <2>1, <2>3
    DEF removeClientConnection, listVars, forwardVars, damageVars, TypeInv, TypeOK,
        NetworkTypeOK, ServerTypeOK, PassNeverStarves
<1>10. ASSUME NEW s \in Servers, NEW m \in DataMessage,
              NEW rest \in SUBSET Relay, processClientSendMessage(s, m, rest)
       PROVE  /\ messageList' \in [Servers -> Seq(DataMessage)]
              /\ unassociated' \in [Servers -> Seq(DataMessage)]
              /\ relays' \subseteq Relay
              /\ \A t \in Servers : "unassociated" \notin torn[t]
                                    => toCheck[t] <= Len(unassociated'[t])
  <2>1. /\ messageList' \in [Servers -> Seq(DataMessage)]
        /\ unassociated' \in [Servers -> Seq(DataMessage)]
        /\ relays' \subseteq Relay
        /\ \A t \in Servers : Len(unassociated'[t]) >= Len(unassociated[t])
    BY <1>10, RoutingTypes DEF TypeInv
  <2>2. \A t \in Servers : Len(unassociated'[t]) \in Nat
    BY <2>1, LenProperties
  <2>3. ASSUME NEW t \in Servers, "unassociated" \notin torn[t]
        PROVE  toCheck[t] <= Len(unassociated'[t])
    <3>1. /\ toCheck[t] \in Nat
          /\ Len(unassociated[t]) \in Nat
          /\ Len(unassociated'[t]) \in Nat
          /\ toCheck[t] <= Len(unassociated[t])
          /\ Len(unassociated'[t]) >= Len(unassociated[t])
      BY <1>2, <1>6, <2>1, <2>2, <2>3
    <3> QED BY <3>1
  <2> QED BY <2>1, <2>3
<1>11. ASSUME NEW d \in requests, ReceiveClientSend(d)
       PROVE  TypeInv'
  <2>1. ReceivedRequest(d, "mt_CLIENT_SEND")
    BY <1>11 DEF ReceiveClientSend
  <2> QED
    BY <1>1, <1>2, <1>3, <1>7, <1>10, <1>11, <2>1
    DEF ReceiveClientSend, forwardVars, damageVars, TypeInv, TypeOK,
        NetworkTypeOK, ServerTypeOK, PassNeverStarves
<1>12. ASSUME NEW d \in relays, ReceiveRelay(d)
       PROVE  TypeInv'
  <2>1. d.to \in Servers /\ d.message \in DataMessage
    BY <1>1 DEF Relay
  <2>2. PICK rest \in AfterReceipt(relays, "relay", d) :
           processClientSendMessage(d.to, d.message, rest)
    BY <1>12 DEF ReceiveRelay
  <2>3. rest \in SUBSET Relay
    BY <1>1, ReceiptShrinks
  <2> QED
    BY <1>1, <1>2, <1>3, <1>10, <1>12, <2>1, <2>2, <2>3
    DEF ReceiveRelay, forwardVars, damageVars, TypeInv, TypeOK,
        NetworkTypeOK, ServerTypeOK, PassNeverStarves
<1>13. ASSUME NEW d \in requests, sendMessagesToClient(d)
       PROVE  TypeInv'
  <2>1. ReceivedRequest(d, "mt_CLIENT_GET")
    BY <1>13 DEF sendMessagesToClient
  <2>2. /\ \A i \in DOMAIN connectedClients[d.to] :
              connectedClients[d.to][i].endpoint \in Endpoints
        /\ \A k \in DOMAIN messageList[d.to] :
              messageList[d.to][k] \in DataMessage
    BY <1>7, <2>1, ListElements DEF TypeInv, TypeOK
  <2>4. replies' \subseteq Reply
    BY <1>1, <1>7, <1>13, <2>1, <2>2
    DEF sendMessagesToClient, ConnectionOf, MailFor, Reply
  <2> QED
    BY <1>1, <1>2, <1>3, <1>7, <1>13, <2>1, <2>4
    DEF sendMessagesToClient, serverVars, listVars, forwardVars, damageVars, TypeInv,
        TypeOK, NetworkTypeOK, ServerTypeOK, PassNeverStarves
<1>14. ASSUME NEW d \in requests, removeReceivedMessageFromList(d)
       PROVE  TypeInv'
  <2>1. ReceivedRequest(d, "mt_CLIENT_ACK")
    BY <1>14 DEF removeReceivedMessageFromList
  <2>2. \A k \in DOMAIN messageList[d.to] :
           Erase(messageList[d.to], k) \in Seq(DataMessage)
    BY <1>2, <1>7, <2>1, EraseElements
  <2>3. messageList' \in [Servers -> Seq(DataMessage)]
    <3>1. CASE UNCHANGED messageList
      BY <1>2, <3>1
    <3>2. ASSUME NEW k \in DOMAIN messageList[d.to],
                 messageList' = [messageList EXCEPT
                                   ![d.to] = Erase(messageList[d.to], k)]
          PROVE  messageList' \in [Servers -> Seq(DataMessage)]
      BY <1>2, <2>2, <3>2
    <3> QED
      BY <1>14, <3>1, <3>2 DEF removeReceivedMessageFromList, AcknowledgedBy
  <2> QED
    BY <1>1, <1>2, <1>3, <1>7, <1>14, <2>1, <2>3
    DEF removeReceivedMessageFromList, forwardVars, damageVars, TypeInv, TypeOK,
        NetworkTypeOK, ServerTypeOK, PassNeverStarves
<1>15. ASSUME NEW d \in syncs, receiveClientsFromAdjacentServers(d)
       PROVE  TypeInv'
  <2>1. d.to \in Servers /\ d.origin \in Servers /\ d.clients \subseteq Usernames
    BY <1>1 DEF Sync
  <2>2. syncs' \subseteq Sync
    BY <1>1, <1>15, ReceiptShrinks DEF receiveClientsFromAdjacentServers
  <2>3. clientsServed' \in [Servers -> [Servers -> SUBSET Usernames]]
    BY <1>2, <1>15, <2>1 DEF receiveClientsFromAdjacentServers
  <2> QED
    BY <1>1, <1>2, <1>3, <1>15, <2>2, <2>3
    DEF receiveClientsFromAdjacentServers, listVars, forwardVars, damageVars, TypeInv,
        TypeOK, NetworkTypeOK, ServerTypeOK, PassNeverStarves
<1>16. ASSUME NEW s \in Servers, BeginPass(s)
       PROVE  TypeInv'
  <2>1. PICK n \in Sizes(s) : toCheck' = [toCheck EXCEPT ![s] = n]
    BY <1>16 DEF BeginPass
  <2>2. /\ n \in Nat
        /\ "unassociated" \notin torn[s] => n = Len(unassociated[s])
    BY <1>6, <2>1, ServerAssumption DEF Sizes
  <2>3. toCheck' \in [Servers -> Nat]
    BY <1>2, <2>1, <2>2
  <2>4. /\ UNCHANGED networkVars
        /\ UNCHANGED <<connectedClients, listVars, clientsServed, inHand,
                       syncStep, damageVars>>
    BY <1>16 DEF BeginPass
  <2>5. ASSUME NEW t \in Servers, "unassociated" \notin torn[t]
        PROVE  toCheck'[t] <= Len(unassociated[t])
    <3>1. CASE t = s
      BY <1>2, <1>6, <2>1, <2>2, <2>5, <3>1
    <3>2. CASE t # s
      BY <1>2, <2>1, <2>5, <3>2
    <3> QED BY <3>1, <3>2
  <2> QED
    BY <1>1, <1>2, <1>3, <2>3, <2>4, <2>5
    DEF networkVars, listVars, damageVars, TypeInv, TypeOK, NetworkTypeOK,
        ServerTypeOK, PassNeverStarves
<1>17. ASSUME NEW s \in Servers, TakeFront(s)
       PROVE  TypeInv'
  <2>1. unassociated[s] # <<>>
    BY <1>17 DEF TakeFront
  <2>2. /\ Head(unassociated[s]) \in DataMessage
        /\ Tail(unassociated[s]) \in Seq(DataMessage)
        /\ Len(Tail(unassociated[s])) = Len(unassociated[s]) - 1
    BY <1>2, <2>1, HeadTailProperties
  <2>3. /\ inHand' \in [Servers -> Seq(DataMessage)]
        /\ \A t \in Servers : Len(inHand'[t]) <= 1
    BY <1>2, <1>17, <2>2 DEF TakeFront
  <2>4. unassociated' \in [Servers -> Seq(DataMessage)]
    BY <1>2, <1>17, <2>2 DEF TakeFront
  <2>5. toCheck' \in [Servers -> Nat]
    BY <1>2, <1>17 DEF TakeFront
  <2>6. ASSUME NEW t \in Servers, "unassociated" \notin torn[t]
        PROVE  toCheck'[t] <= Len(unassociated'[t])
    <3>1. CASE t = s
      <4>1. /\ toCheck'[s] = toCheck[s] - 1
            /\ unassociated'[s] = Tail(unassociated[s])
        BY <1>2, <1>17 DEF TakeFront
      <4>2. toCheck[s] \in Nat /\ toCheck[s] <= Len(unassociated[s])
        BY <1>2, <2>6, <3>1
      <4> QED BY <1>6, <2>2, <3>1, <4>1, <4>2
    <3>2. CASE t # s
      BY <1>2, <1>17, <2>6, <3>2 DEF TakeFront
    <3> QED BY <3>1, <3>2
  <2> QED
    BY <1>1, <1>2, <1>3, <1>17, <2>3, <2>4, <2>5, <2>6
    DEF TakeFront, networkVars, damageVars, TypeInv, TypeOK,
        NetworkTypeOK, ServerTypeOK, PassNeverStarves
<1>18. ASSUME NEW s \in Servers, RouteAgain(s)
       PROVE  TypeInv'
  <2>1. Head(inHand[s]) \in DataMessage
    BY <1>2, <1>18, HeadTailProperties DEF RouteAgain
  <2>2. /\ inHand' \in [Servers -> Seq(DataMessage)]
        /\ \A t \in Servers : Len(inHand'[t]) <= 1
    BY <1>2, <1>18 DEF RouteAgain
  <2> QED
    BY <1>1, <1>2, <1>3, <1>10, <1>18, <2>1, <2>2
    DEF RouteAgain, damageVars, TypeInv, TypeOK,
        NetworkTypeOK, ServerTypeOK, PassNeverStarves
<1>19. ASSUME NEW s \in Servers, SnapshotClients(s)
       PROVE  TypeInv'
  <2>1. ConnectedNames(s) \subseteq Usernames
    BY ListElements DEF ConnectedNames, TypeInv, TypeOK
  <2>2. clientsServed' \in [Servers -> [Servers -> SUBSET Usernames]]
    BY <1>2, <1>19, <2>1 DEF SnapshotClients
  <2> DEFINE last == LeftSends(s) + RightSends(s)
             after == IF last > 0 THEN 1 ELSE 0
  <2>3. /\ syncStep \in [Servers -> Nat]
        /\ last \in Nat
        /\ \A t \in Servers : syncStep[t] <= LeftSends(t) + RightSends(t)
    BY <1>2, <1>5
  <2>4. after \in Nat /\ after <= last
    BY <2>3
  <2>5. syncStep' = [syncStep EXCEPT ![s] = after]
    BY <1>19 DEF SnapshotClients
  <2>6. syncStep' \in [Servers -> Nat]
    BY <2>3, <2>4, <2>5
  <2>7. ASSUME NEW t \in Servers
        PROVE  syncStep'[t] <= LeftSends(t) + RightSends(t)
    <3>1. CASE t = s
      BY <2>3, <2>4, <2>5, <3>1
    <3>2. CASE t # s
      BY <2>3, <2>5, <3>2
    <3> QED BY <3>1, <3>2
  <2> QED
    BY <1>1, <1>2, <1>3, <1>19, <2>2, <2>6, <2>7
    DEF SnapshotClients, networkVars, listVars, forwardVars, damageVars, TypeInv, TypeOK,
        NetworkTypeOK, ServerTypeOK, PassNeverStarves
<1>20. ASSUME NEW s \in Servers, SendSyncPayload(s)
       PROVE  TypeInv'
  <2>1. /\ SyncTarget(s, syncStep[s]) \in Servers
        /\ SyncOrigin(s, syncStep[s]) \in Servers
    <3>1. /\ syncStep[s] \in Nat /\ syncStep[s] > 0
          /\ syncStep[s] <= LeftSends(s) + RightSends(s)
          /\ LeftSends(s) + RightSends(s) \in Nat
      BY <1>2, <1>5, <1>20 DEF SendSyncPayload
    <3>2. syncStep[s] \in 1 .. LeftSends(s) + RightSends(s)
      BY <3>1
    <3> QED BY <3>2, SyncRound
  <2>2. syncs' \subseteq Sync
    <3> DEFINE k == syncStep[s]
    <3>1. clientsServed[s][SyncOrigin(s, k)] \in SUBSET Usernames
      BY <1>2, <2>1
    <3>2. SyncPayload(s, k) \subseteq Sync
      BY <2>1, <3>1 DEF SyncPayload, Sync
    <3>3. syncs' = syncs \cup SyncPayload(s, k)
      BY <1>20 DEF SendSyncPayload
    <3> QED BY <1>1, <3>2, <3>3
  <2> DEFINE last == LeftSends(s) + RightSends(s)
             after == IF syncStep[s] < last THEN syncStep[s] + 1 ELSE 0
  <2>3. /\ syncStep \in [Servers -> Nat]
        /\ syncStep[s] \in Nat
        /\ last \in Nat
        /\ \A t \in Servers : syncStep[t] <= LeftSends(t) + RightSends(t)
    BY <1>2, <1>5
  <2>4. after \in Nat /\ after <= last
    BY <2>3
  <2>5. syncStep' = [syncStep EXCEPT ![s] = after]
    BY <1>20 DEF SendSyncPayload
  <2>6. syncStep' \in [Servers -> Nat]
    BY <2>3, <2>4, <2>5
  <2>7. ASSUME NEW t \in Servers
        PROVE  syncStep'[t] <= LeftSends(t) + RightSends(t)
    <3>1. CASE t = s
      BY <2>3, <2>4, <2>5, <3>1
    <3>2. CASE t # s
      BY <2>3, <2>5, <3>2
    <3> QED BY <3>1, <3>2
  <2> QED
    BY <1>1, <1>2, <1>3, <1>20, <2>2, <2>6, <2>7
    DEF SendSyncPayload, listVars, forwardVars, damageVars, TypeInv, TypeOK,
        NetworkTypeOK, ServerTypeOK, PassNeverStarves
<1>21. ASSUME NEW s \in Servers, Forgets(s)
       PROVE  /\ NetworkTypeOK'
              /\ connectedClients' \in [Servers -> Seq(remoteConnection)]
              /\ messageList' \in [Servers -> Seq(DataMessage)]
              /\ unassociated' \in [Servers -> Seq(DataMessage)]
              /\ inHand' \in [Servers -> Seq(DataMessage)]
              /\ clientsServed' \in [Servers -> [Servers -> SUBSET Usernames]]
              /\ toCheck' \in [Servers -> Nat]
              /\ syncStep' \in [Servers -> Nat]
              /\ \A t \in Servers :
                   /\ Len(inHand'[t]) <= 1
                   /\ syncStep'[t] <= LeftSends(t) + RightSends(t)
                   /\ t = s \/ "unassociated" \notin torn[t]
                        => toCheck'[t] <= Len(unassociated'[t])
  <2>1. \A S : <<>> \in Seq(S) /\ Len(<<>>) = 0
    OBVIOUS
  <2>2. /\ connectedClients' \in [Servers -> Seq(remoteConnection)]
        /\ messageList' \in [Servers -> Seq(DataMessage)]
        /\ unassociated' \in [Servers -> Seq(DataMessage)]
        /\ inHand' \in [Servers -> Seq(DataMessage)]
    BY <1>2, <1>21, <2>1 DEF Forgets
  <2>3. /\ clientsServed' \in [Servers -> [Servers -> SUBSET Usernames]]
        /\ toCheck' \in [Servers -> Nat]
        /\ syncStep' \in [Servers -> Nat]
    BY <1>2, <1>21 DEF Forgets
  <2>4. ASSUME NEW t \in Servers
        PROVE  /\ Len(inHand'[t]) <= 1
               /\ syncStep'[t] <= LeftSends(t) + RightSends(t)
               /\ t = s \/ "unassociated" \notin torn[t]
                    => toCheck'[t] <= Len(unassociated'[t])
    <3>1. CASE t = s
      <4>1. /\ inHand'[t] = <<>> /\ unassociated'[t] = <<>>
            /\ syncStep'[t] = 0 /\ toCheck'[t] = 0
        BY <1>2, <1>21, <3>1 DEF Forgets
      <4>2. LeftSends(t) + RightSends(t) \in Nat
        BY <1>5
      <4> QED BY <2>1, <4>1, <4>2
    <3>2. CASE t # s
      <4>1. /\ inHand'[t] = inHand[t] /\ unassociated'[t] = unassociated[t]
            /\ syncStep'[t] = syncStep[t] /\ toCheck'[t] = toCheck[t]
        BY <1>2, <1>21, <3>2 DEF Forgets
      <4> QED BY <1>2, <3>2, <4>1
    <3> QED BY <3>1, <3>2
  <2>5. NetworkTypeOK'
    BY <1>1, <1>21 DEF Forgets, networkVars, NetworkTypeOK
  <2> QED BY <2>2, <2>3, <2>4, <2>5
<1>22. ASSUME NEW s \in Servers, Restart(s)
       PROVE  TypeInv'
  <2>1. /\ Forgets(s)
        /\ torn' = [torn EXCEPT ![s] = {}]
        /\ crashed' = crashed \ {s}
    BY <1>22 DEF Restart
  <2>2. torn' \in [Servers -> SUBSET Lists] /\ crashed' \subseteq Servers
    BY <1>2, <2>1
  <2>3. ASSUME NEW t \in Servers, "unassociated" \notin torn'[t]
        PROVE  toCheck'[t] <= Len(unassociated'[t]) /\ t \notin crashed'
    BY <1>2, <1>21, <2>1, <2>3
  <2> QED
    BY <1>3, <1>21, <2>1, <2>2, <2>3
    DEF TypeInv, TypeOK, ServerTypeOK, PassNeverStarves
<1>23. ASSUME NEW s \in Servers, TakeMissingFront(s)
       PROVE  TypeInv'
  <2>1. /\ Forgets(s)
        /\ torn' = torn
        /\ crashed' = crashed \cup {s}
        /\ toCheck[s] > 0
        /\ unassociated[s] = <<>>
    BY <1>23 DEF TakeMissingFront
  <2>2. "unassociated" \in torn[s]
    <3>1. Len(unassociated[s]) = 0 /\ toCheck[s] \in Nat
      BY <1>2, <2>1
    <3>2. ~(toCheck[s] <= Len(unassociated[s]))
      BY <2>1, <3>1
    <3> QED BY <1>2, <3>2
  <2>3. crashed' \subseteq Servers
    BY <1>2, <2>1
  <2>4. ASSUME NEW t \in Servers, "unassociated" \notin torn'[t]
        PROVE  toCheck'[t] <= Len(unassociated'[t]) /\ t \notin crashed'
    BY <1>2, <1>21, <2>1, <2>2, <2>4
  <2> QED
    BY <1>2, <1>3, <1>21, <2>1, <2>3, <2>4
    DEF TypeInv, TypeOK, ServerTypeOK, PassNeverStarves
<1>24. ASSUME NEW s \in Servers, Overlap(s)
       PROVE  TypeInv'
  <2>2. ForwarderChanges(s) \subseteq Lists
    BY DEF ForwarderChanges
  <2> DEFINE more == ListenerChanges(s) \cap ForwarderChanges(s)
  <2>3. torn' = [torn EXCEPT ![s] = @ \cup more]
    BY <1>24 DEF Overlap
  <2>4. more \subseteq Lists
    BY <2>2
  <2> HIDE DEF more
  <2>5. /\ torn' \in [Servers -> SUBSET Lists]
        /\ \A t \in Servers : torn[t] \subseteq torn'[t]
    <3>1. torn \in [Servers -> SUBSET Lists]
      BY <1>2
    <3>2. torn[s] \cup more \in SUBSET Lists
      BY <2>4, <3>1
    <3>3. torn' = [torn EXCEPT ![s] = torn[s] \cup more]
      BY <2>3
    <3> QED BY <3>1, <3>2, <3>3
  <2>6. /\ UNCHANGED networkVars
        /\ UNCHANGED <<connectedClients, listVars, clientsServed, forwardVars,
                       syncStep, crashed>>
    BY <1>24 DEF Overlap
  <2> QED
    BY <1>1, <1>2, <1>3, <2>5, <2>6
    DEF networkVars, listVars, forwardVars, TypeInv, TypeOK, NetworkTypeOK,
        ServerTypeOK, PassNeverStarves
<1> QED
  BY <1>8, <1>9, <1>11, <1>12, <1>13, <1>14, <1>15, <1>16, <1>17, <1>18, <1>19,
     <1>20, <1>22, <1>23, <1>24
  DEF ServerNext, listenLoopUDP, ReceiveRequest

\* Every thread of every session keeps the types; the servers' state is not
\* theirs to change.
LEMMA TypeClient ==
  ASSUME TypeInv, ClientNext, UNCHANGED serverVars
  PROVE  TypeInv'
<1>1. /\ requests \subseteq Request
      /\ relays \subseteq Relay
      /\ syncs \subseteq Sync
      /\ replies \subseteq Reply
  BY DEF TypeInv, TypeOK, NetworkTypeOK
<1>2. /\ threads \in [Endpoints -> SUBSET Threads]
      /\ terminate \in [Endpoints -> BOOLEAN]
      /\ sequence \in [Endpoints -> Nat]
      /\ getLoaded \in [Endpoints -> SUBSET Nat]
      /\ lineLoaded \in [Endpoints -> SUBSET Nat]
      /\ reference \subseteq Endpoints
      /\ serverEndPoint \in [Endpoints -> Servers]
      /\ typed \in [Endpoints -> Nat]
      /\ \A e \in Endpoints : typed[e] <= Len(Lines[e])
      /\ displayed \in [Endpoints -> SUBSET DataMessage]
      /\ submitted \in [Endpoints -> SUBSET DataMessage]
      /\ repeated \subseteq Endpoints
  BY DEF TypeInv, TypeOK, ClientTypeOK
<1>3. ServerTypeOK' /\ PassNeverStarves'
  BY DEF TypeInv, TypeOK, ServerTypeOK, PassNeverStarves, serverVars, listVars,
         forwardVars, damageVars
<1>4. \A e \in Endpoints, type \in MessageTypes : Signal(e, type) \in DataMessage
  BY ClientAssumption DEF Signal, dataMessage, DataMessage
<1>5. ASSUME NEW e \in Endpoints, NEW server \in Servers,
             NEW m \in DataMessage, sendOverUDP(e, server, m)
      PROVE  requests' \subseteq Request
  BY <1>1, <1>5 DEF sendOverUDP, Request
<1>6. /\ ClientTypes \subseteq MessageTypes
      /\ "mt_CLIENT_CONNECT" \in ClientTypes /\ "mt_CLIENT_GET" \in ClientTypes
      /\ "mt_CLIENT_SEND" \in ClientTypes /\ "mt_CLIENT_ACK" \in ClientTypes
      /\ "mt_CLIENT_DISCONNECT" \in ClientTypes
  BY DEF MessageTypes, ClientTypes
<1>7. ASSUME NEW e \in Endpoints, NEW thread
      PROVE  AfterRound(e, thread) \in [Endpoints -> SUBSET Threads]
  BY <1>2 DEF AfterRound
<1>8. ASSUME NEW e \in Endpoints, Start(e)
      PROVE  TypeInv'
  <2>1. requests' \subseteq Request
    BY <1>2, <1>4, <1>5, <1>6, <1>8 DEF Start
  <2> QED
    BY <1>1, <1>2, <1>3, <1>8, <2>1
    DEF Start, lineVars, TypeInv, TypeOK, NetworkTypeOK, ClientTypeOK
<1>9. ASSUME NEW e \in Endpoints, getLoop(e)
      PROVE  TypeInv'
  <2>1. requests' \subseteq Request
    BY <1>2, <1>4, <1>5, <1>6, <1>9 DEF getLoop
  <2>2. sequence' \in [Endpoints -> Nat]
    <3>1. CASE UNCHANGED sequence
      BY <1>2, <3>1
    <3>2. ASSUME NEW n \in getLoaded[e], sequence' = [sequence EXCEPT ![e] = n + 1]
          PROVE  sequence' \in [Endpoints -> Nat]
      <4>1. n \in Nat
        BY <1>2
      <4> QED BY <1>2, <3>2, <4>1
    <3> QED BY <1>9, <3>1, <3>2 DEF getLoop
  <2>3. threads' \in [Endpoints -> SUBSET Threads]
    BY <1>7, <1>9 DEF getLoop
  <2> QED
    BY <1>1, <1>2, <1>3, <1>9, <2>1, <2>2, <2>3
    DEF getLoop, lineVars, TypeInv, TypeOK, NetworkTypeOK, ClientTypeOK
<1>10. ASSUME NEW e \in Endpoints, inputLoop(e)
       PROVE  TypeInv'
  <2> DEFINE m == ChatMessage(e, Lines[e][typed[e] + 1])
  <2>1. typed[e] + 1 \in 1 .. Len(Lines[e])
    BY <1>2, <1>10, ClientAssumption, LenProperties DEF inputLoop
  <2>2. Lines[e][typed[e] + 1] \in [destination : Usernames, payload : Payloads]
    BY <2>1, ClientAssumption, ElementOfSeq
  <2>3. m \in DataMessage
    BY <1>2, <1>6, <2>2, ClientAssumption DEF ChatMessage, dataMessage, DataMessage
  <2>4. /\ sendOverUDP(e, serverEndPoint[e], m)
        /\ submitted' = [submitted EXCEPT ![e] = @ \cup {m}]
    BY <1>10 DEF inputLoop
  <2> HIDE DEF m
  <2>5. requests' \subseteq Request
    BY <1>2, <1>5, <2>3, <2>4
  <2>6. submitted' \in [Endpoints -> SUBSET DataMessage]
    BY <1>2, <2>3, <2>4
  <2>7. /\ typed' \in [Endpoints -> Nat]
        /\ \A x \in Endpoints : typed'[x] <= Len(Lines[x])
    BY <1>2, <1>10, <2>1 DEF inputLoop
  <2>8. repeated' \subseteq Endpoints
    BY <1>2, <1>10 DEF inputLoop
  <2> QED
    BY <1>1, <1>2, <1>3, <1>10, <2>5, <2>6, <2>7, <2>8
    DEF inputLoop, TypeInv, TypeOK, NetworkTypeOK, ClientTypeOK
<1>11. ASSUME NEW e \in Endpoints, Exit(e)
       PROVE  TypeInv'
  <2>1. requests' \subseteq Request
    BY <1>2, <1>4, <1>5, <1>6, <1>11 DEF Exit
  <2> QED
    BY <1>1, <1>2, <1>3, <1>11, <2>1
    DEF Exit, lineVars, TypeInv, TypeOK, NetworkTypeOK, ClientTypeOK
<1>12. ASSUME NEW d \in replies, receiveOverUDP(d)
       PROVE  TypeInv'
  <2>1. d.to \in Endpoints /\ d.from \in Servers /\ d.message \in DataMessage
    BY <1>1 DEF Reply
  <2>2. Acknowledgement(d.to, d.message) \in DataMessage
    BY <1>6, <2>1, ClientAssumption DEF Acknowledgement, dataMessage, DataMessage
  <2>3. /\ serverEndPoint' \in [Endpoints -> Servers]
        /\ serverEndPoint'[d.to] \in Servers
    BY <1>2, <1>12, <2>1 DEF receiveOverUDP
  <2>4. requests' \subseteq Request
    BY <1>5, <1>12, <2>1, <2>2, <2>3 DEF receiveOverUDP
  <2>5. replies' \subseteq Reply
    BY <1>1, <1>12, ReceiptShrinks DEF receiveOverUDP
  <2>6. displayed' \in [Endpoints -> SUBSET DataMessage]
    BY <1>2, <1>12, <2>1 DEF receiveOverUDP
  <2>7. threads' \in [Endpoints -> SUBSET Threads]
    BY <1>7, <1>12, <2>1 DEF receiveOverUDP
  <2> QED
    BY <1>1, <1>2, <1>3, <1>12, <2>3, <2>4, <2>5, <2>6, <2>7
    DEF receiveOverUDP, numberVars, lineVars, TypeInv, TypeOK,
        NetworkTypeOK, ClientTypeOK
<1>13. ASSUME NEW e \in Endpoints, NEW thread, Return(e, thread)
       PROVE  TypeInv'
  BY <1>1, <1>2, <1>3, <1>13
  DEF Return, networkVars, numberVars, lineVars, TypeInv, TypeOK,
      NetworkTypeOK, ClientTypeOK
<1>14. ASSUME NEW e \in Endpoints, Kill(e)
       PROVE  TypeInv'
  BY <1>1, <1>2, <1>3, <1>14
  DEF Kill, networkVars, numberVars, lineVars, TypeInv, TypeOK, NetworkTypeOK,
      ClientTypeOK
<1>15. ASSUME NEW e \in Endpoints, GetLoad(e)
       PROVE  TypeInv'
  <2>1. getLoaded' \in [Endpoints -> SUBSET Nat]
    BY <1>2, <1>15 DEF GetLoad
  <2> QED
    BY <1>1, <1>2, <1>3, <1>15, <2>1
    DEF GetLoad, networkVars, lineVars, TypeInv, TypeOK, NetworkTypeOK,
        ClientTypeOK
<1>16. ASSUME NEW e \in Endpoints, InputLoad(e)
       PROVE  TypeInv'
  <2>1. lineLoaded' \in [Endpoints -> SUBSET Nat]
    BY <1>2, <1>16 DEF InputLoad
  <2> QED
    BY <1>1, <1>2, <1>3, <1>16, <2>1
    DEF InputLoad, networkVars, lineVars, TypeInv, TypeOK, NetworkTypeOK,
        ClientTypeOK
<1>17. ASSUME NEW e \in Endpoints, InputStore(e)
       PROVE  TypeInv'
  <2>1. PICK n \in lineLoaded[e] : sequence' = [sequence EXCEPT ![e] = n + 1]
    BY <1>17 DEF InputStore
  <2>2. n \in Nat
    BY <1>2, <2>1
  <2>3. sequence' \in [Endpoints -> Nat]
    BY <1>2, <2>1, <2>2
  <2>4. /\ lineLoaded' \in [Endpoints -> SUBSET Nat]
        /\ reference' \subseteq Endpoints
    BY <1>2, <1>17 DEF InputStore
  <2> QED
    BY <1>1, <1>2, <1>3, <1>17, <2>3, <2>4
    DEF InputStore, networkVars, lineVars, TypeInv, TypeOK, NetworkTypeOK,
        ClientTypeOK
<1> QED
  BY <1>8, <1>9, <1>10, <1>11, <1>12, <1>13, <1>14, <1>15, <1>16, <1>17
  DEF ClientNext

\* Losing a datagram, and doing nothing, keep the types.
LEMMA TypeRest ==
  ASSUME TypeInv,
         \/ Lose /\ UNCHANGED <<serverVars, clientVars>>
         \/ UNCHANGED vars
  PROVE  TypeInv'
<1>1. NetworkTypeOK'
  BY DEF Lose, vars, networkVars, TypeInv, TypeOK, NetworkTypeOK
<1>2. ServerTypeOK' /\ PassNeverStarves'
  BY DEF vars, TypeInv, TypeOK, ServerTypeOK, PassNeverStarves, serverVars,
         listVars, forwardVars, damageVars
<1>3. ClientTypeOK'
  BY DEF vars, TypeInv, TypeOK, ClientTypeOK, clientVars, numberVars, lineVars
<1> QED BY <1>1, <1>2, <1>3 DEF TypeInv, TypeOK

\* Every variable keeps its type, and no server crashes whose calls have not
\* overlapped, although attemptForward sizes its pass beforehand.
THEOREM TypeCorrect == Spec => [](TypeOK /\ PassNeverStarves)
<1>1. TypeInv /\ [Next]_vars => TypeInv'
  BY TypeServer, TypeClient, TypeRest DEF Next
<1>2. TypeInv => TypeOK /\ PassNeverStarves
  BY DEF TypeInv
<1> QED BY TypeInit, <1>1, <1>2, PTL DEF Spec

\* The pass of attemptForward is sized once, while messages are appended, taken
\* and held again; unless two of these calls have changed the list at once, it
\* never counts more messages than there are.
THEOREM PassesNeverStarve == Spec => []PassNeverStarves
<1>1. TypeOK /\ PassNeverStarves => PassNeverStarves
  OBVIOUS
<1> QED BY TypeCorrect, <1>1, PTL

-----------------------------------------------------------------------------
(***************************************************************************)
(* What is passed on and what is held stays an mt_CLIENT_SEND.             *)
(***************************************************************************)
\* Routing a SEND forwards a SEND, or holds one.
LEMMA RoutingSends ==
  ASSUME TypeOK, RelaysAreSends, NEW s \in Servers, NEW m \in SendMessage,
         NEW rest \in SUBSET relays, processClientSendMessage(s, m, rest)
  PROVE  /\ \A d \in relays' : d.message \in SendMessage
         /\ \A t \in Servers : unassociated'[t] \in Seq(SendMessage)
<1>1. /\ unassociated \in [Servers -> Seq(DataMessage)]
      /\ \A d \in rest : d.message \in SendMessage
      /\ \A t \in Servers : unassociated[t] \in Seq(SendMessage)
  BY DEF TypeOK, ServerTypeOK, RelaysAreSends
<1>2. ASSUME NEW t, relays' = rest \cup Forwarded(s, t, m), UNCHANGED listVars
      PROVE  /\ \A d \in relays' : d.message \in SendMessage
             /\ \A x \in Servers : unassociated'[x] \in Seq(SendMessage)
  BY <1>1, <1>2 DEF Forwarded, listVars
<1>3. CASE relays' = rest /\ UNCHANGED unassociated
  BY <1>1, <1>3
<1>4. CASE relays' = rest /\ addToMessageListOfUnassociatedClients(s, m)
  <2> DEFINE held == setMessageType(m, "mt_CLIENT_SEND")
  <2>1. held \in SendMessage
    BY DEF setMessageType, SendMessage, DataMessage, MessageTypes, ClientTypes
  <2>2. PICK new \in Appended(s, "unassociated", unassociated[s], held) :
           unassociated' = [unassociated EXCEPT ![s] = new]
    BY <1>4 DEF addToMessageListOfUnassociatedClients
  <2> HIDE DEF held
  <2>3. new \in Seq(SendMessage)
    BY <1>1, <2>1, <2>2, AppendedList
  <2>4. ASSUME NEW t \in Servers
        PROVE  unassociated'[t] \in Seq(SendMessage)
    <3>1. CASE t = s
      BY <1>1, <2>2, <2>3, <3>1
    <3>2. CASE t # s
      BY <1>1, <2>2, <3>2
    <3> QED BY <3>1, <3>2
  <2> QED BY <1>1, <1>4, <2>4
<1> QED BY <1>2, <1>3, <1>4 DEF processClientSendMessage

\* No thread puts anything else in flight between servers, or in a held list.
LEMMA SendsStep ==
  ASSUME TypeOK, RelaysAreSends, [Next]_vars
  PROVE  RelaysAreSends'
<1>1. /\ unassociated \in [Servers -> Seq(DataMessage)]
      /\ inHand \in [Servers -> Seq(DataMessage)]
      /\ \A d \in requests : d.to \in Servers /\ d.message \in DataMessage
      /\ \A d \in relays : d.to \in Servers
      /\ \A d \in relays : d.message \in SendMessage
      /\ \A s \in Servers : /\ unassociated[s] \in Seq(SendMessage)
                            /\ inHand[s] \in Seq(SendMessage)
  BY DEF TypeOK, ServerTypeOK, NetworkTypeOK, Request, Relay, RelaysAreSends
<1>2. ASSUME relays' \subseteq relays, UNCHANGED <<unassociated, inHand>>
      PROVE  RelaysAreSends'
  BY <1>1, <1>2 DEF RelaysAreSends
<1>3. ASSUME NEW d \in requests, ReceiveRequest(d)
      PROVE  RelaysAreSends'
  <2>1. CASE ReceiveClientSend(d)
    <3>1. d.message \in SendMessage
      BY <1>1, <2>1 DEF ReceiveClientSend, ReceivedRequest, SendMessage
    <3>2. /\ processClientSendMessage(d.to, d.message, relays)
          /\ UNCHANGED inHand
      BY <2>1 DEF ReceiveClientSend, forwardVars
    <3> QED BY <1>1, <3>1, <3>2, RoutingSends DEF RelaysAreSends
  <2>2. CASE \/ addClientConnection(d) \/ removeClientConnection(d)
             \/ sendMessagesToClient(d) \/ removeReceivedMessageFromList(d)
    BY <1>2, <2>2
    DEF addClientConnection, removeClientConnection, sendMessagesToClient,
        removeReceivedMessageFromList, serverVars, listVars, forwardVars
  <2> QED BY <1>3, <2>1, <2>2 DEF ReceiveRequest
<1>4. ASSUME NEW d \in relays, ReceiveRelay(d)
      PROVE  RelaysAreSends'
  <2>1. PICK rest \in AfterReceipt(relays, "relay", d) :
           processClientSendMessage(d.to, d.message, rest)
    BY <1>4 DEF ReceiveRelay
  <2>2. rest \in SUBSET relays
    BY ReceiptShrinks
  <2>3. UNCHANGED inHand
    BY <1>4 DEF ReceiveRelay, forwardVars
  <2> QED BY <1>1, <2>1, <2>2, <2>3, RoutingSends DEF RelaysAreSends
<1>5. ASSUME NEW d, receiveClientsFromAdjacentServers(d)
      PROVE  RelaysAreSends'
  BY <1>2, <1>5 DEF receiveClientsFromAdjacentServers, listVars, forwardVars
<1>6. ASSUME NEW s, \/ BeginPass(s) \/ SnapshotClients(s)
                    \/ SendSyncPayload(s) \/ Overlap(s)
      PROVE  RelaysAreSends'
  BY <1>2, <1>6
  DEF BeginPass, SnapshotClients, SendSyncPayload, Overlap, networkVars,
      listVars, forwardVars
<1>7. ASSUME NEW s \in Servers, TakeFront(s)
      PROVE  RelaysAreSends'
  <2>2. unassociated[s] # <<>>
    BY <1>7 DEF TakeFront
  <2>3. /\ Head(unassociated[s]) \in SendMessage
        /\ Tail(unassociated[s]) \in Seq(SendMessage)
    BY <1>1, <2>2, HeadTailProperties
  <2>4. /\ relays' = relays
        /\ inHand' = [inHand EXCEPT ![s] = <<Head(unassociated[s])>>]
        /\ unassociated' = [unassociated EXCEPT ![s] = Tail(unassociated[s])]
    BY <1>7 DEF TakeFront, networkVars
  <2>5. <<Head(unassociated[s])>> \in Seq(SendMessage)
    BY <2>3
  <2>6. \A t \in Servers : /\ inHand'[t] \in Seq(SendMessage)
                           /\ unassociated'[t] \in Seq(SendMessage)
    BY <1>1, <2>3, <2>4, <2>5
  <2> QED BY <1>1, <2>4, <2>6 DEF RelaysAreSends
<1>8. ASSUME NEW s \in Servers, RouteAgain(s)
      PROVE  RelaysAreSends'
  <2>1. Head(inHand[s]) \in SendMessage
    BY <1>1, <1>8, HeadTailProperties DEF RouteAgain
  <2>2. /\ processClientSendMessage(s, Head(inHand[s]), relays)
        /\ inHand' = [inHand EXCEPT ![s] = <<>>]
    BY <1>8 DEF RouteAgain
  <2>3. \A t \in Servers : inHand'[t] \in Seq(SendMessage)
    BY <1>1, <2>2, EmptySeq
  <2> QED BY <2>1, <2>2, <2>3, RoutingSends DEF RelaysAreSends
<1>9. ASSUME NEW s \in Servers, Restart(s) \/ TakeMissingFront(s)
      PROVE  RelaysAreSends'
  <2>1. /\ relays' = relays
        /\ inHand' = [inHand EXCEPT ![s] = <<>>]
        /\ unassociated' = [unassociated EXCEPT ![s] = <<>>]
    BY <1>9 DEF Restart, TakeMissingFront, Forgets, networkVars
  <2>2. \A t \in Servers : /\ inHand'[t] \in Seq(SendMessage)
                           /\ unassociated'[t] \in Seq(SendMessage)
    BY <1>1, <2>1, EmptySeq
  <2> QED BY <1>1, <2>1, <2>2 DEF RelaysAreSends
<1>10. CASE ServerNext
  BY <1>3, <1>4, <1>5, <1>6, <1>7, <1>8, <1>9, <1>10
  DEF ServerNext, listenLoopUDP
<1>11. CASE UNCHANGED serverVars /\ (ClientNext \/ Lose)
  <2>1. relays' \subseteq relays
    BY <1>11
    DEF Lose, ClientNext, Start, GetLoad, getLoop, InputLoad, InputStore,
        inputLoop, Exit, Kill, Return, receiveOverUDP, networkVars
  <2> QED BY <1>2, <1>11, <2>1 DEF serverVars, listVars, forwardVars
<1>12. CASE UNCHANGED vars
  BY <1>2, <1>12 DEF vars, networkVars, serverVars, listVars, forwardVars
<1> QED BY <1>10, <1>11, <1>12 DEF Next

\* Every message between servers is dispatched as a client's SEND, whatever
\* types it was given in mailboxes and held lists on the way.
THEOREM RelaysStaySends == Spec => []RelaysAreSends
<1>1. Init => RelaysAreSends
  BY EmptySeq DEF Init, NetworkInit, ServerInit, RelaysAreSends
<1>2. TypeOK /\ RelaysAreSends /\ [Next]_vars => RelaysAreSends'
  BY SendsStep
<1> QED BY TypeCorrect, <1>1, <1>2, PTL DEF Spec

-----------------------------------------------------------------------------
(***************************************************************************)
(* Which steps write which variable.                                       *)
(***************************************************************************)
\* A connection list changes by a CONNECT, a DISCONNECT, or the end of the
\* server's process only.
LEMMA ConnectionsFrame ==
  ASSUME [Next]_vars
  PROVE  \/ connectedClients' = connectedClients
         \/ \E d \in requests : addClientConnection(d)
         \/ \E d \in requests : removeClientConnection(d)
         \/ \E s \in Servers : Forgets(s)
<1>1. ASSUME NEW d \in requests, ReceiveRequest(d)
      PROVE  \/ connectedClients' = connectedClients
             \/ addClientConnection(d) \/ removeClientConnection(d)
  BY <1>1 DEF ReceiveRequest, ReceiveClientSend, sendMessagesToClient,
              removeReceivedMessageFromList, serverVars
<1>2. ASSUME NEW d, ReceiveRelay(d) \/ receiveClientsFromAdjacentServers(d)
      PROVE  connectedClients' = connectedClients
  BY <1>2 DEF ReceiveRelay, receiveClientsFromAdjacentServers
<1>3. ASSUME NEW s, \/ BeginPass(s) \/ TakeFront(s) \/ RouteAgain(s)
                    \/ SnapshotClients(s) \/ SendSyncPayload(s) \/ Overlap(s)
      PROVE  connectedClients' = connectedClients
  BY <1>3 DEF BeginPass, TakeFront, RouteAgain, SnapshotClients,
              SendSyncPayload, Overlap
<1>4. CASE UNCHANGED serverVars
  BY <1>4 DEF serverVars
<1>5. CASE ServerNext
  BY <1>1, <1>2, <1>3, <1>5
  DEF ServerNext, listenLoopUDP, TakeMissingFront, Restart
<1> QED BY <1>4, <1>5 DEF Next, vars

\* A list of waiting messages changes by routing, by an acknowledgement, or by
\* the end of the server's process only.
LEMMA MessageListFrame ==
  ASSUME TypeOK, [Next]_vars
  PROVE  \/ messageList' = messageList
         \/ \E s \in Servers : \E m \in DataMessage : \E rest :
              processClientSendMessage(s, m, rest)
         \/ \E d \in requests : removeReceivedMessageFromList(d)
         \/ \E s \in Servers : Forgets(s)
<1> USE DEF listVars
<1>1. ASSUME NEW d \in requests, ReceiveRequest(d)
      PROVE  \/ messageList' = messageList
             \/ processClientSendMessage(d.to, d.message, relays)
             \/ removeReceivedMessageFromList(d)
  BY <1>1 DEF ReceiveRequest, ReceiveClientSend, sendMessagesToClient,
              addClientConnection, removeClientConnection, serverVars
<1>2. ASSUME NEW d \in relays, ReceiveRelay(d)
      PROVE  \E rest : processClientSendMessage(d.to, d.message, rest)
  BY <1>2 DEF ReceiveRelay
<1>3. ASSUME NEW d, receiveClientsFromAdjacentServers(d)
      PROVE  messageList' = messageList
  BY <1>3 DEF receiveClientsFromAdjacentServers
<1>4. ASSUME NEW s, \/ BeginPass(s) \/ TakeFront(s)
                    \/ SnapshotClients(s) \/ SendSyncPayload(s) \/ Overlap(s)
      PROVE  messageList' = messageList
  BY <1>4 DEF BeginPass, TakeFront, SnapshotClients, SendSyncPayload, Overlap
<1>5. ASSUME NEW s \in Servers, RouteAgain(s)
      PROVE  \E m \in DataMessage :
               processClientSendMessage(s, m, relays)
  <2>1. Head(inHand[s]) \in DataMessage
    BY <1>5, HeadTailProperties DEF RouteAgain, TypeOK, ServerTypeOK
  <2> QED BY <1>5, <2>1 DEF RouteAgain
<1>6. /\ \A d \in requests : d.to \in Servers /\ d.message \in DataMessage
      /\ \A d \in relays : d.to \in Servers /\ d.message \in DataMessage
  BY DEF TypeOK, NetworkTypeOK, Request, Relay
<1>7. CASE UNCHANGED serverVars
  BY <1>7 DEF serverVars
<1>8. CASE ServerNext
  BY <1>1, <1>2, <1>3, <1>4, <1>5, <1>6, <1>8
  DEF ServerNext, listenLoopUDP, TakeMissingFront, Restart
<1> QED BY <1>7, <1>8 DEF Next, vars

\* The client lists change by a snapshot, by a SYNC, or by the end of the
\* server's process only.
LEMMA TablesFrame ==
  ASSUME [Next]_vars
  PROVE  \/ clientsServed' = clientsServed
         \/ \E d \in syncs : receiveClientsFromAdjacentServers(d)
         \/ \E s \in Servers : SnapshotClients(s)
         \/ \E s \in Servers : Forgets(s)
<1>1. ASSUME NEW d, ReceiveRequest(d) \/ ReceiveRelay(d)
      PROVE  clientsServed' = clientsServed
  BY <1>1 DEF ReceiveRequest, ReceiveClientSend, sendMessagesToClient,
              addClientConnection, removeClientConnection, ReceiveRelay,
              removeReceivedMessageFromList, serverVars
<1>2. ASSUME NEW s, \/ BeginPass(s) \/ TakeFront(s) \/ RouteAgain(s)
                    \/ SendSyncPayload(s) \/ Overlap(s)
      PROVE  clientsServed' = clientsServed
  BY <1>2 DEF BeginPass, TakeFront, RouteAgain, SendSyncPayload, Overlap
<1>3. CASE UNCHANGED serverVars
  BY <1>3 DEF serverVars
<1>4. CASE ServerNext
  BY <1>1, <1>2, <1>4 DEF ServerNext, listenLoopUDP, TakeMissingFront, Restart
<1> QED BY <1>3, <1>4 DEF Next, vars

\* Only SendSyncPayload adds to the client lists in flight.
LEMMA SyncsFrame ==
  ASSUME [Next]_vars
  PROVE  \/ syncs' \subseteq syncs
         \/ \E s \in Servers : SendSyncPayload(s)
<1>1. ASSUME NEW d, \/ ReceiveRequest(d) \/ ReceiveRelay(d)
                    \/ receiveClientsFromAdjacentServers(d)
      PROVE  syncs' \subseteq syncs
  BY <1>1, ReceiptShrinks
  DEF ReceiveRequest, ReceiveClientSend, sendMessagesToClient,
      addClientConnection, removeClientConnection, ReceiveRelay,
      removeReceivedMessageFromList, receiveClientsFromAdjacentServers
<1>2. ASSUME NEW s, \/ BeginPass(s) \/ TakeFront(s) \/ RouteAgain(s)
                    \/ SnapshotClients(s) \/ Overlap(s) \/ Forgets(s)
      PROVE  syncs' \subseteq syncs
  BY <1>2 DEF BeginPass, TakeFront, RouteAgain, SnapshotClients, Overlap,
              Forgets, networkVars
<1>3. CASE ServerNext
  BY <1>1, <1>2, <1>3 DEF ServerNext, listenLoopUDP, TakeMissingFront, Restart
<1>4. CASE ClientNext
  BY <1>4
  DEF ClientNext, Start, GetLoad, getLoop, InputLoad, InputStore,
      inputLoop, Exit, Kill, Return, receiveOverUDP, networkVars
<1>5. CASE Lose \/ UNCHANGED vars
  BY <1>5 DEF Lose, vars, networkVars
<1> QED BY <1>3, <1>4, <1>5 DEF Next

\* Only routing adds to the messages between servers.
LEMMA RelaysFrame ==
  ASSUME TypeOK, [Next]_vars
  PROVE  \/ relays' \subseteq relays
         \/ \E s \in Servers : \E m \in DataMessage : \E rest \in SUBSET relays :
              /\ processClientSendMessage(s, m, rest)
              /\ UNCHANGED <<connectedClients, clientsServed, clientVars>>
<1>1. ASSUME NEW d \in requests, ReceiveRequest(d)
      PROVE  \/ relays' \subseteq relays
             \/ /\ processClientSendMessage(d.to, d.message, relays)
                /\ UNCHANGED <<connectedClients, clientsServed>>
  BY <1>1 DEF ReceiveRequest, ReceiveClientSend, sendMessagesToClient,
              addClientConnection, removeClientConnection,
              removeReceivedMessageFromList
<1>2. ASSUME NEW d \in relays, ReceiveRelay(d)
      PROVE  \E rest \in SUBSET relays :
               /\ processClientSendMessage(d.to, d.message, rest)
               /\ UNCHANGED <<connectedClients, clientsServed>>
  BY <1>2, ReceiptShrinks DEF ReceiveRelay
<1>3. ASSUME NEW d, receiveClientsFromAdjacentServers(d)
      PROVE  relays' \subseteq relays
  BY <1>3 DEF receiveClientsFromAdjacentServers
<1>4. ASSUME NEW s, \/ BeginPass(s) \/ TakeFront(s) \/ Forgets(s)
                    \/ SnapshotClients(s) \/ SendSyncPayload(s) \/ Overlap(s)
      PROVE  relays' \subseteq relays
  BY <1>4 DEF BeginPass, TakeFront, Forgets, SnapshotClients, SendSyncPayload,
              Overlap, networkVars
<1>5. ASSUME NEW s \in Servers, RouteAgain(s)
      PROVE  \E m \in DataMessage :
               /\ processClientSendMessage(s, m, relays)
               /\ UNCHANGED <<connectedClients, clientsServed>>
  <2>1. Head(inHand[s]) \in DataMessage
    BY <1>5, HeadTailProperties DEF RouteAgain, TypeOK, ServerTypeOK
  <2> QED BY <1>5, <2>1 DEF RouteAgain
<1>6. /\ \A d \in requests : d.to \in Servers /\ d.message \in DataMessage
      /\ \A d \in relays : d.to \in Servers /\ d.message \in DataMessage
  BY DEF TypeOK, NetworkTypeOK, Request, Relay
<1>7. CASE ServerNext /\ UNCHANGED clientVars
  BY <1>1, <1>2, <1>3, <1>4, <1>5, <1>6, <1>7
  DEF ServerNext, listenLoopUDP, TakeMissingFront, Restart
<1>8. CASE ClientNext
  BY <1>8
  DEF ClientNext, Start, GetLoad, getLoop, InputLoad, InputStore,
      inputLoop, Exit, Kill, Return, receiveOverUDP, networkVars
<1>9. CASE Lose \/ UNCHANGED vars
  BY <1>9 DEF Lose, vars, networkVars
<1> QED BY <1>7, <1>8, <1>9 DEF Next

\* Only a GET adds to the answers in flight.
LEMMA RepliesFrame ==
  ASSUME [Next]_vars
  PROVE  \/ replies' \subseteq replies
         \/ \E d \in requests : sendMessagesToClient(d)
<1>1. ASSUME NEW d, ReceiveRequest(d)
      PROVE  replies' \subseteq replies \/ sendMessagesToClient(d)
  BY <1>1 DEF ReceiveRequest, ReceiveClientSend, addClientConnection,
              removeClientConnection, removeReceivedMessageFromList
<1>2. ASSUME NEW d, ReceiveRelay(d) \/ receiveClientsFromAdjacentServers(d)
      PROVE  replies' \subseteq replies
  BY <1>2 DEF ReceiveRelay, receiveClientsFromAdjacentServers
<1>3. ASSUME NEW s, \/ BeginPass(s) \/ TakeFront(s) \/ RouteAgain(s)
                    \/ SnapshotClients(s) \/ SendSyncPayload(s) \/ Overlap(s)
                    \/ Forgets(s)
      PROVE  replies' \subseteq replies
  BY <1>3 DEF BeginPass, TakeFront, RouteAgain, SnapshotClients,
              SendSyncPayload, Overlap, Forgets, networkVars
<1>4. CASE ServerNext
  BY <1>1, <1>2, <1>3, <1>4
  DEF ServerNext, listenLoopUDP, TakeMissingFront, Restart
<1>5. CASE ClientNext
  <2>1. ASSUME NEW d \in replies, receiveOverUDP(d)
        PROVE  replies' \subseteq replies
    BY <2>1, ReceiptShrinks DEF receiveOverUDP
  <2> QED
    BY <1>5, <2>1
    DEF ClientNext, Start, GetLoad, getLoop, InputLoad, InputStore,
        inputLoop, Exit, Kill, Return, networkVars
<1>6. CASE Lose \/ UNCHANGED vars
  BY <1>6 DEF Lose, vars, networkVars
<1> QED BY <1>4, <1>5, <1>6 DEF Next

-----------------------------------------------------------------------------
(***************************************************************************)
(* The inductive invariant.  What a server believes is traced back to the  *)
(* CONNECT a session sent: the CONNECT is truthful, so is the registry     *)
(* entry made from it, the snapshot of the registry, the list sent to a    *)
(* neighbour and the list stored there.  Joined only grows, so nothing     *)
(* that is late, repeated or stale can turn a true entry into a false one. *)
(***************************************************************************)
Truth ==
  /\ RequestsTruthful
  /\ RegistryTruthful
  /\ TablesTruthful
  /\ SyncsFlowOutwards
  /\ RelayTowardsHome
  /\ MailboxAtHome
  /\ RepliesRightful

\* All lists and all in-flight sets start empty.
LEMMA TruthInit == Init => Truth
  BY DEF Init, NetworkInit, ServerInit, ClientInit, Truth, RequestsTruthful,
         RegistryTruthful, TablesTruthful, SyncsFlowOutwards, RelayTowardsHome,
         MailboxAtHome, RepliesRightful

\* A session that has announced itself stays announced.
LEMMA JoinedGrows ==
  ASSUME TypeOK, [Next]_vars
  PROVE  /\ \A e \in Endpoints : sequence[e] > 0 => sequence'[e] > 0
         /\ \A n : Joined(n) \subseteq Joined(n)'
<1>1. sequence \in [Endpoints -> Nat]
  BY DEF TypeOK, ClientTypeOK
<1>2. ASSUME NEW e \in Endpoints, sequence[e] > 0
      PROVE  sequence'[e] > 0
  <2>1. CASE UNCHANGED clientVars
    BY <1>2, <2>1 DEF clientVars, numberVars
  <2>2. CASE UNCHANGED vars
    BY <1>2, <2>2 DEF vars, clientVars, numberVars
  <2>3. ASSUME NEW x \in Endpoints,
               Start(x) \/ getLoop(x) \/ InputStore(x) \/ Exit(x)
        PROVE  sequence'[e] > 0
    <3>1. \/ sequence' = sequence
          \/ sequence' = [sequence EXCEPT ![x] = 1]
          \/ \E n \in getLoaded[x] \cup lineLoaded[x] :
               sequence' = [sequence EXCEPT ![x] = n + 1]
          \/ sequence' = [sequence EXCEPT ![x] = sequence[x] + 2]
      BY <2>3 DEF Start, getLoop, InputStore, Exit
    <3>2. getLoaded[x] \cup lineLoaded[x] \subseteq Nat
      BY DEF TypeOK, ClientTypeOK
    <3> QED BY <1>1, <1>2, <3>1, <3>2
  <2>4. ASSUME NEW x, \/ GetLoad(x) \/ InputLoad(x) \/ inputLoop(x)
                      \/ Kill(x) \/ \E thread : Return(x, thread)
        PROVE  sequence'[e] > 0
    BY <1>2, <2>4 DEF GetLoad, InputLoad, inputLoop, Kill, Return, numberVars
  <2>5. ASSUME NEW d, receiveOverUDP(d)
        PROVE  sequence'[e] > 0
    BY <1>2, <2>5 DEF receiveOverUDP, numberVars
  <2> QED BY <2>1, <2>2, <2>3, <2>4, <2>5 DEF Next, ClientNext
<1> QED BY <1>2 DEF Joined

\* Requests are sent by a session, under its name, to m_serverEndPoint; and
\* although every receipt overwrites that, it never points elsewhere.
LEMMA RequestsStep ==
  ASSUME TypeOK, Truth, [Next]_vars
  PROVE  /\ RequestsTruthful'
         /\ \A e \in Endpoints : serverEndPoint'[e] = Home[e]
<1>1. /\ \A e \in Endpoints : serverEndPoint[e] = Home[e]
      /\ serverEndPoint \in [Endpoints -> Servers]
      /\ sequence \in [Endpoints -> Nat]
      /\ \A d \in requests : d.from \in Endpoints
      /\ \A d \in replies : d.to \in Endpoints
  BY DEF Truth, RepliesRightful, TypeOK, ClientTypeOK, NetworkTypeOK, Request, Reply
<1>2. ASSUME requests' \subseteq requests PROVE RequestsTruthful'
  BY <1>1, <1>2, JoinedGrows DEF Truth, RequestsTruthful
<1>3. ASSUME NEW e \in Endpoints, NEW m, sendOverUDP(e, Home[e], m),
             m.source = User[e],
             m.type = "mt_CLIENT_CONNECT" => sequence'[e] > 0
      PROVE  RequestsTruthful'
  BY <1>1, <1>3, JoinedGrows DEF Truth, RequestsTruthful, sendOverUDP
<1>4. ASSUME NEW d \in requests, ReceiveRequest(d)
      PROVE  requests' \subseteq requests
  BY <1>4, ReceiptShrinks
  DEF ReceiveRequest, ReceiveClientSend, sendMessagesToClient,
      addClientConnection, removeClientConnection,
      removeReceivedMessageFromList, ReceivedRequest
<1>5. ASSUME NEW d, ReceiveRelay(d) \/ receiveClientsFromAdjacentServers(d)
      PROVE  requests' \subseteq requests
  BY <1>5 DEF ReceiveRelay, receiveClientsFromAdjacentServers
<1>6. ASSUME NEW s, \/ BeginPass(s) \/ TakeFront(s) \/ RouteAgain(s)
                    \/ SnapshotClients(s) \/ SendSyncPayload(s) \/ Overlap(s)
                    \/ Forgets(s)
      PROVE  requests' \subseteq requests
  BY <1>6 DEF BeginPass, TakeFront, RouteAgain, SnapshotClients,
              SendSyncPayload, Overlap, Forgets, networkVars
<1>7. CASE ServerNext /\ UNCHANGED clientVars
  BY <1>1, <1>2, <1>4, <1>5, <1>6, <1>7
  DEF ServerNext, listenLoopUDP, TakeMissingFront, Restart, clientVars
<1>8. CASE Lose /\ UNCHANGED <<serverVars, clientVars>>
  <2>1. requests' \subseteq requests
    BY <1>8 DEF Lose
  <2> QED BY <1>1, <1>2, <1>8, <2>1 DEF clientVars
<1>9. CASE UNCHANGED vars
  BY <1>1, <1>2, <1>9 DEF vars, networkVars, clientVars
<1>10. ASSUME NEW e \in Endpoints, Start(e) \/ getLoop(e) \/ Exit(e)
       PROVE  RequestsTruthful' /\ serverEndPoint' = serverEndPoint
  <2>1. /\ \/ /\ sendOverUDP(e, serverEndPoint[e], Signal(e, "mt_CLIENT_CONNECT"))
              /\ sequence' = [sequence EXCEPT ![e] = 1]
           \/ sendOverUDP(e, serverEndPoint[e], Signal(e, "mt_CLIENT_GET"))
           \/ sendOverUDP(e, serverEndPoint[e], Signal(e, "mt_CLIENT_DISCONNECT"))
        /\ serverEndPoint' = serverEndPoint
    BY <1>10 DEF Start, getLoop, Exit
  <2>2. \A type : /\ Signal(e, type).source = User[e]
                  /\ Signal(e, type).type = type
    BY DEF Signal, dataMessage
  <2> QED BY <1>1, <1>3, <2>1, <2>2
<1>11. ASSUME NEW e \in Endpoints, inputLoop(e)
       PROVE  RequestsTruthful' /\ serverEndPoint' = serverEndPoint
  <2>1. PICK m : /\ m = ChatMessage(e, Lines[e][typed[e] + 1])
                 /\ sendOverUDP(e, serverEndPoint[e], m)
                 /\ serverEndPoint' = serverEndPoint
    BY <1>11 DEF inputLoop
  <2>2. m.source = User[e] /\ m.type = "mt_CLIENT_SEND"
    BY <2>1 DEF ChatMessage, dataMessage
  <2> QED BY <1>1, <1>3, <2>1, <2>2
<1>12. ASSUME NEW d \in replies, receiveOverUDP(d)
       PROVE  /\ RequestsTruthful'
              /\ \A e \in Endpoints : serverEndPoint'[e] = Home[e]
  <2>1. d.from = Home[d.to]
    BY DEF Truth, RepliesRightful
  <2>2. /\ serverEndPoint' = [serverEndPoint EXCEPT ![d.to] = d.from]
        /\ sendOverUDP(d.to, serverEndPoint'[d.to],
                       Acknowledgement(d.to, d.message))
    BY <1>12 DEF receiveOverUDP
  <2>3. \A e \in Endpoints : serverEndPoint'[e] = Home[e]
    BY <1>1, <2>1, <2>2
  <2>4. /\ Acknowledgement(d.to, d.message).source = User[d.to]
        /\ Acknowledgement(d.to, d.message).type = "mt_CLIENT_ACK"
    BY DEF Acknowledgement, dataMessage
  <2> QED BY <1>1, <1>3, <2>2, <2>3, <2>4
<1>13. ASSUME NEW e, \/ GetLoad(e) \/ InputLoad(e) \/ InputStore(e)
                     \/ Kill(e) \/ \E thread : Return(e, thread)
       PROVE  requests' = requests /\ serverEndPoint' = serverEndPoint
  BY <1>13 DEF GetLoad, InputLoad, InputStore, Kill, Return, networkVars
<1> QED
  BY <1>1, <1>2, <1>7, <1>8, <1>9, <1>10, <1>11, <1>12, <1>13 DEF Next, ClientNext

\* addClientConnection records the sender of a CONNECT; erasing the first
\* entry, or all of them, leaves entries that were there before.
LEMMA RegistryStep ==
  ASSUME TypeOK, Truth, [Next]_vars
  PROVE  RegistryTruthful'
<1>1. /\ connectedClients \in [Servers -> Seq(remoteConnection)]
      /\ \A d \in requests : /\ d.to \in Servers /\ d.from \in Endpoints
                             /\ d.message \in DataMessage
  BY DEF TypeOK, ServerTypeOK, NetworkTypeOK, Request
<1>2. ASSUME NEW s \in Servers, NEW c,
             \E i \in DOMAIN connectedClients[s] : connectedClients[s][i] = c
      PROVE  Home[c.endpoint] = s /\ User[c.endpoint] = c.id
             /\ sequence'[c.endpoint] > 0
  BY <1>2, JoinedGrows, ListElements DEF Truth, RegistryTruthful, TypeOK
<1>3. SUFFICES ASSUME NEW s \in Servers, NEW i \in DOMAIN connectedClients'[s]
               PROVE  LET c == connectedClients'[s][i] IN
                      Home[c.endpoint] = s /\ User[c.endpoint] = c.id
                      /\ sequence'[c.endpoint] > 0
  BY DEF RegistryTruthful
<1>4. CASE connectedClients' = connectedClients
  BY <1>2, <1>4
<1>5. ASSUME NEW d \in requests, addClientConnection(d)
      PROVE  LET c == connectedClients'[s][i] IN
             Home[c.endpoint] = s /\ User[c.endpoint] = c.id
             /\ sequence'[c.endpoint] > 0
  <2> DEFINE new == [id |-> d.message.source, endpoint |-> d.from]
  <2>1. /\ d.message.type = "mt_CLIENT_CONNECT"
        /\ connectedClients' = [connectedClients EXCEPT
                                  ![d.to] = Append(connectedClients[d.to], new)]
    BY <1>5 DEF addClientConnection, ReceivedRequest
  <2>2. /\ Home[new.endpoint] = d.to /\ User[new.endpoint] = new.id
        /\ sequence'[new.endpoint] > 0
    BY <1>1, <2>1, JoinedGrows DEF Truth, RequestsTruthful
  <2>3. new \in remoteConnection
    BY <1>1 DEF remoteConnection, DataMessage
  <2> HIDE DEF new
  <2>4. \/ connectedClients'[s][i] = new /\ s = d.to
        \/ \E j \in DOMAIN connectedClients[s] :
             connectedClients[s][j] = connectedClients'[s][i]
    <3>1. CASE s # d.to
      BY <1>1, <1>3, <2>1, <3>1
    <3>2. CASE s = d.to
      <4>1. connectedClients'[s] = Append(connectedClients[s], new)
        BY <1>1, <2>1, <3>2
      <4>2. /\ Append(connectedClients[s], new) \in Seq(remoteConnection)
            /\ Len(Append(connectedClients[s], new)) = Len(connectedClients[s]) + 1
            /\ \A j \in 1 .. Len(connectedClients[s]) :
                 Append(connectedClients[s], new)[j] = connectedClients[s][j]
            /\ Append(connectedClients[s], new)[Len(connectedClients[s]) + 1] = new
        BY <1>1, <2>3, AppendProperties
      <4>3. /\ DOMAIN connectedClients'[s] = 1 .. Len(connectedClients[s]) + 1
            /\ DOMAIN connectedClients[s] = 1 .. Len(connectedClients[s])
            /\ Len(connectedClients[s]) \in Nat
        BY <1>1, <4>1, <4>2, LenProperties
      <4>4. i \in 1 .. Len(connectedClients[s]) \/ i = Len(connectedClients[s]) + 1
        BY <1>3, <4>3
      <4> QED BY <3>2, <4>1, <4>2, <4>3, <4>4
    <3> QED BY <3>1, <3>2
  <2> QED BY <1>2, <2>2, <2>4
<1>6. ASSUME NEW d \in requests, removeClientConnection(d)
      PROVE  \E j \in DOMAIN connectedClients[s] :
               connectedClients[s][j] = connectedClients'[s][i]
  <2> DEFINE old == connectedClients[s]
  <2>1. \/ connectedClients'[s] = old
        \/ connectedClients'[s] = Tail(old) /\ old # <<>>
    BY <1>1, <1>6 DEF removeClientConnection, WithoutConnection
  <2>2. CASE connectedClients'[s] = old
    BY <1>3, <2>2
  <2>3. CASE connectedClients'[s] = Tail(old) /\ old # <<>>
    <3>1. /\ Tail(old) \in Seq(remoteConnection)
          /\ Len(Tail(old)) = Len(old) - 1
          /\ \A j \in 1 .. Len(Tail(old)) : Tail(old)[j] = old[j + 1]
      BY <1>1, <2>3, HeadTailProperties
    <3>2. /\ DOMAIN Tail(old) = 1 .. Len(old) - 1
          /\ DOMAIN old = 1 .. Len(old) /\ Len(old) \in Nat
      BY <1>1, <3>1, LenProperties
    <3>3. i + 1 \in DOMAIN old /\ old[i + 1] = connectedClients'[s][i]
      BY <1>3, <2>3, <3>1, <3>2
    <3> QED BY <3>3
  <2> QED BY <2>1, <2>2, <2>3
<1>7. ASSUME NEW t \in Servers, Forgets(t)
      PROVE  \E j \in DOMAIN connectedClients[s] :
               connectedClients[s][j] = connectedClients'[s][i]
  BY <1>1, <1>3, <1>7 DEF Forgets
<1> QED BY <1>2, <1>4, <1>5, <1>6, <1>7, ConnectionsFrame

\* A snapshot repeats the registry, a SYNC repeats a list, a restart forgets.
LEMMA TablesStep ==
  ASSUME TypeOK, Truth, [Next]_vars
  PROVE  TablesTruthful' /\ SyncsFlowOutwards'
<1>1. /\ clientsServed \in [Servers -> [Servers -> SUBSET Usernames]]
      /\ syncStep \in [Servers -> Nat]
      /\ \A s \in Servers : syncStep[s] <= LeftSends(s) + RightSends(s)
      /\ \A d \in syncs : d.to \in Servers /\ d.origin \in Servers
  BY DEF TypeOK, ServerTypeOK, NetworkTypeOK, Sync
<1>2. /\ \A s, j \in Servers : \A n \in clientsServed[s][j] : j \in Joined(n)'
      /\ \A d \in syncs : \A n \in d.clients : d.origin \in Joined(n)'
  BY JoinedGrows DEF Truth, TablesTruthful
<1>3. \A s, j \in Servers : \A n \in clientsServed'[s][j] : j \in Joined(n)'
  <2>1. CASE clientsServed' = clientsServed
    BY <1>2, <2>1
  <2>2. ASSUME NEW d \in syncs, receiveClientsFromAdjacentServers(d)
        PROVE  \A s, j \in Servers : \A n \in clientsServed'[s][j] : j \in Joined(n)'
    BY <1>1, <1>2, <2>2 DEF receiveClientsFromAdjacentServers
  <2>3. ASSUME NEW t \in Servers, SnapshotClients(t)
        PROVE  \A s, j \in Servers : \A n \in clientsServed'[s][j] : j \in Joined(n)'
    <3>1. clientsServed' = [clientsServed EXCEPT ![t][t] = ConnectedNames(t)]
      BY <2>3 DEF SnapshotClients
    <3>2. \A n \in ConnectedNames(t) : t \in Joined(n)
      BY ListElements DEF ConnectedNames, Truth, RegistryTruthful, Joined, TypeOK
    <3> QED BY <1>1, <1>2, <3>1, <3>2, JoinedGrows
  <2>4. ASSUME NEW t \in Servers, Forgets(t)
        PROVE  \A s, j \in Servers : \A n \in clientsServed'[s][j] : j \in Joined(n)'
    <3>1. clientsServed' = [clientsServed EXCEPT ![t] = [j \in Servers |-> {}]]
      BY <2>4 DEF Forgets
    <3> QED BY <1>1, <1>2, <3>1
  <2> QED BY <2>1, <2>2, <2>3, <2>4, TablesFrame
<1>4. \A d \in syncs' : /\ \A n \in d.clients : d.origin \in Joined(n)'
                        /\ \/ d.to = d.from - 1 /\ d.origin >= d.from
                           \/ d.to = d.from + 1 /\ d.origin <= d.from
  <2>1. CASE syncs' \subseteq syncs
    BY <1>2, <2>1 DEF Truth, SyncsFlowOutwards
  <2>2. ASSUME NEW s \in Servers, SendSyncPayload(s), NEW d \in syncs'
        PROVE  /\ \A n \in d.clients : d.origin \in Joined(n)'
               /\ \/ d.to = d.from - 1 /\ d.origin >= d.from
                  \/ d.to = d.from + 1 /\ d.origin <= d.from
    <3> DEFINE k == syncStep[s]
    <3>1. CASE d \in syncs
      BY <1>2, <3>1 DEF Truth, SyncsFlowOutwards
    <3>2. CASE d \in SyncPayload(s, k)
      <4>1. /\ d.from = s /\ d.to = SyncTarget(s, k)
            /\ d.origin = SyncOrigin(s, k)
            /\ d.clients = clientsServed[s][SyncOrigin(s, k)]
        BY <3>2 DEF SyncPayload
      <4>2. k \in 1 .. LeftSends(s) + RightSends(s)
        <5>1. LeftSends(s) \in Int /\ RightSends(s) \in Int
          BY NetworkAssumption DEF LeftSends, RightSends, Servers
        <5> QED BY <1>1, <2>2, <5>1 DEF SendSyncPayload
      <4>3. /\ SyncOrigin(s, k) \in Servers
            /\ \/ SyncTarget(s, k) = s - 1 /\ SyncOrigin(s, k) >= s
               \/ SyncTarget(s, k) = s + 1 /\ SyncOrigin(s, k) <= s
        BY <4>2, SyncRound
      <4> QED BY <1>2, <4>1, <4>3
    <3> QED BY <2>2, <3>1, <3>2 DEF SendSyncPayload
  <2> QED BY <2>1, <2>2, SyncsFrame
<1> QED BY <1>3, <1>4 DEF TablesTruthful, SyncsFlowOutwards

\* A message is sent left only because a list on the left is known to name its
\* addressee, and right likewise; the lists are truthful.
LEMMA RelaysStep ==
  ASSUME TypeOK, Truth, [Next]_vars
  PROVE  RelayTowardsHome'
<1>1. highestServerIndex \in Nat
  BY NetworkAssumption
<1>2. ASSUME NEW d \in relays
      PROVE  Nearer(d.from, d.to, d.message.destination)'
  BY JoinedGrows DEF Truth, RelayTowardsHome, Nearer
<1>3. ASSUME NEW s \in Servers, NEW m \in DataMessage,
             NEW rest \in SUBSET relays, processClientSendMessage(s, m, rest)
      PROVE  \A d \in relays' \ relays :
               Nearer(d.from, d.to, d.message.destination)'
  <2>1. CASE relays' = rest
    BY <2>1
  <2>2. CASE /\ IsToTheLeft(s, m.destination)
             /\ relays' = rest \cup Forwarded(s, leftAdjacentServerIndex(s), m)
    <3>1. PICK j \in 0 .. s - 1 : m.destination \in clientsServed[s][j]
      BY <2>2 DEF IsToTheLeft
    <3>2. j \in Servers /\ j < s
      BY <1>1, <3>1 DEF Servers
    <3>3. j \in Joined(m.destination)'
      BY <3>1, <3>2, JoinedGrows DEF Truth, TablesTruthful
    <3>4. \A d \in relays' \ relays : d.from = s /\ d.to = s - 1 /\ d.message = m
      BY <2>2 DEF Forwarded, leftAdjacentServerIndex
    <3> QED BY <3>2, <3>3, <3>4 DEF Nearer
  <2>3. CASE /\ IsToTheRight(s, m.destination)
             /\ relays' = rest \cup Forwarded(s, rightAdjacentServerIndex(s), m)
    <3>1. PICK j \in s + 1 .. highestServerIndex :
             m.destination \in clientsServed[s][j]
      BY <2>3 DEF IsToTheRight
    <3>2. j \in Servers /\ j > s
      BY <1>1, <3>1 DEF Servers
    <3>3. j \in Joined(m.destination)'
      BY <3>1, <3>2, JoinedGrows DEF Truth, TablesTruthful
    <3>4. \A d \in relays' \ relays : d.from = s /\ d.to = s + 1 /\ d.message = m
      BY <2>3 DEF Forwarded, rightAdjacentServerIndex
    <3> QED BY <3>2, <3>3, <3>4 DEF Nearer
  <2> QED BY <1>3, <2>1, <2>2, <2>3 DEF processClientSendMessage
<1> QED BY <1>2, <1>3, RelaysFrame DEF RelayTowardsHome

\* A message is put into a mailbox only where its addressee is in the registry,
\* with its type set; an acknowledgement takes one out and adds none.
LEMMA MailboxStep ==
  ASSUME TypeOK, Truth, [Next]_vars
  PROVE  MailboxAtHome'
<1> DEFINE AtHome(s, m) ==
             /\ m.type = "mt_SERVER_SEND"
             /\ \E e \in Endpoints :
                  User[e] = m.destination /\ Home[e] = s /\ sequence'[e] > 0
<1>1. messageList \in [Servers -> Seq(DataMessage)]
  BY DEF TypeOK, ServerTypeOK
<1>2. \A s \in Servers : \A k \in DOMAIN messageList[s] : AtHome(s, messageList[s][k])
  BY JoinedGrows DEF Truth, MailboxAtHome, Joined
<1>3. SUFFICES ASSUME NEW s \in Servers, NEW k \in DOMAIN messageList'[s]
               PROVE  AtHome(s, messageList'[s][k])
  BY DEF MailboxAtHome, Joined
<1> HIDE DEF AtHome
<1>4. CASE messageList' = messageList
  BY <1>2, <1>3, <1>4
<1>5. ASSUME NEW t \in Servers, NEW m \in DataMessage, NEW rest,
             processClientSendMessage(t, m, rest)
      PROVE  AtHome(s, messageList'[s][k])
  <2> DEFINE kept == setMessageType(m, "mt_SERVER_SEND")
  <2>1. CASE messageList' = messageList
    BY <1>2, <1>3, <2>1
  <2>2. CASE IsConnected(t, m.destination) /\ addToMessageList(t, m)
    <3>1. t \in Joined(m.destination)
      BY <2>2, ListElements
      DEF IsConnected, Truth, RegistryTruthful, Joined, TypeOK
    <3>2. /\ kept \in DataMessage
          /\ kept.destination = m.destination
          /\ kept.type = "mt_SERVER_SEND"
      BY DEF setMessageType, DataMessage, MessageTypes
    <3>3. AtHome(t, kept)
      BY <3>1, <3>2, JoinedGrows DEF AtHome, Joined
    <3>4. PICK new \in Appended(t, "messageList", messageList[t], kept) :
             messageList' = [messageList EXCEPT ![t] = new]
      BY <2>2 DEF addToMessageList
    <3> HIDE DEF kept
    <3>5. CASE s # t
      BY <1>1, <1>2, <1>3, <3>4, <3>5
    <3>7. CASE s = t /\ new = messageList[t]
      BY <1>1, <1>2, <1>3, <3>4, <3>7
    <3>6. CASE s = t /\ new = Append(messageList[t], kept)
      <4>1. messageList'[s] = Append(messageList[s], kept)
        BY <1>1, <3>4, <3>6
      <4>2. /\ Append(messageList[s], kept) \in Seq(DataMessage)
            /\ Len(Append(messageList[s], kept)) = Len(messageList[s]) + 1
            /\ \A j \in 1 .. Len(messageList[s]) :
                 Append(messageList[s], kept)[j] = messageList[s][j]
            /\ Append(messageList[s], kept)[Len(messageList[s]) + 1] = kept
        BY <1>1, <3>2, AppendProperties
      <4>3. /\ DOMAIN messageList'[s] = 1 .. Len(messageList[s]) + 1
            /\ DOMAIN messageList[s] = 1 .. Len(messageList[s])
            /\ Len(messageList[s]) \in Nat
        BY <1>1, <4>1, <4>2, LenProperties
      <4>4. k \in 1 .. Len(messageList[s]) \/ k = Len(messageList[s]) + 1
        BY <1>3, <4>3
      <4> QED BY <1>2, <3>3, <3>6, <4>1, <4>2, <4>3, <4>4
    <3> QED BY <1>1, <3>2, <3>4, <3>5, <3>6, <3>7, AppendedList
  <2> QED BY <1>5, <2>1, <2>2 DEF processClientSendMessage, listVars
<1>6. ASSUME NEW d \in requests, removeReceivedMessageFromList(d)
      PROVE  AtHome(s, messageList'[s][k])
  <2>1. CASE messageList' = messageList
    BY <1>2, <1>3, <2>1
  <2>2. ASSUME NEW i \in DOMAIN messageList[d.to],
               messageList' = [messageList EXCEPT
                                 ![d.to] = Erase(messageList[d.to], i)]
        PROVE  AtHome(s, messageList'[s][k])
    <3>1. d.to \in Servers
      BY DEF TypeOK, NetworkTypeOK, Request
    <3>2. CASE s # d.to
      BY <1>1, <1>2, <1>3, <2>2, <3>1, <3>2
    <3>3. CASE s = d.to
      <4>1. messageList'[s] = Erase(messageList[s], i)
        BY <1>1, <2>2, <3>3
      <4>2. \E j \in DOMAIN messageList[s] :
               Erase(messageList[s], i)[k] = messageList[s][j]
        BY <1>1, <1>3, <2>2, <3>3, <4>1, EraseElements
      <4> QED BY <1>2, <4>1, <4>2
    <3> QED BY <3>2, <3>3
  <2> QED
    BY <1>6, <2>1, <2>2 DEF removeReceivedMessageFromList, AcknowledgedBy
<1>7. ASSUME NEW t \in Servers, Forgets(t)
      PROVE  AtHome(s, messageList'[s][k])
  <2>1. messageList' = [messageList EXCEPT ![t] = <<>>]
    BY <1>7 DEF Forgets
  <2>2. s # t
    BY <1>1, <1>3, <2>1
  <2> QED BY <1>1, <1>2, <1>3, <2>1, <2>2
<1> QED BY <1>4, <1>5, <1>6, <1>7, MessageListFrame

\* A GET is answered to an endpoint of the registry, with messages of the
\* mailbox that are addressed to the name it stands under.
LEMMA RepliesStep ==
  ASSUME TypeOK, Truth, [Next]_vars
  PROVE  RepliesRightful'
<1> DEFINE Rightful(d) == /\ d.message.type = "mt_SERVER_SEND"
                          /\ d.message.destination = User[d.to]
                          /\ d.from = Home[d.to]
<1>1. \A d \in replies : Rightful(d)
  BY DEF Truth, RepliesRightful
<1>2. \A d \in replies' : Rightful(d)
  <2>1. CASE replies' \subseteq replies
    BY <1>1, <2>1
  <2>2. ASSUME NEW q \in requests, sendMessagesToClient(q), NEW d \in replies'
        PROVE  Rightful(d)
    <3> DEFINE s == q.to
               n == q.message.source
    <3>1. CASE d \in replies
      BY <1>1, <3>1
    <3>2. ASSUME NEW i \in ConnectionOf(s, n), NEW k \in MailFor(s, n),
                 d = [to      |-> connectedClients[s][i].endpoint,
                      from    |-> s,
                      message |-> messageList[s][k]]
          PROVE  Rightful(d)
      <4>1. s \in Servers
        BY DEF TypeOK, NetworkTypeOK, Request
      <4>2. /\ Home[connectedClients[s][i].endpoint] = s
            /\ User[connectedClients[s][i].endpoint] = n
        BY <4>1 DEF Truth, RegistryTruthful, ConnectionOf
      <4>3. /\ messageList[s][k].destination = n
            /\ messageList[s][k].type = "mt_SERVER_SEND"
        BY <4>1 DEF Truth, MailboxAtHome, MailFor
      <4> QED BY <3>2, <4>2, <4>3
    <3> HIDE DEF Rightful
    <3> QED BY <2>2, <3>1, <3>2 DEF sendMessagesToClient
  <2> QED BY <2>1, <2>2, RepliesFrame
<1>3. \A e \in Endpoints : serverEndPoint'[e] = Home[e]
  BY RequestsStep
<1> QED BY <1>2, <1>3 DEF RepliesRightful

-----------------------------------------------------------------------------
(***************************************************************************)
(* The theorems.                                                           *)
(***************************************************************************)

\* The strengthened invariant holds in every state of every behaviour.
THEOREM TruthInvariant == Spec => [](TypeOK /\ Truth)
<1>1. TypeOK /\ Truth /\ [Next]_vars => Truth'
  <2> SUFFICES ASSUME TypeOK, Truth, [Next]_vars
               PROVE  Truth'
    OBVIOUS
  <2>1. RequestsTruthful'
    BY RequestsStep
  <2>2. RegistryTruthful'
    BY RegistryStep
  <2>3. TablesTruthful' /\ SyncsFlowOutwards'
    BY TablesStep
  <2>4. RelayTowardsHome'
    BY RelaysStep
  <2>5. MailboxAtHome'
    BY MailboxStep
  <2>6. RepliesRightful'
    BY RepliesStep
  <2> QED BY <2>1, <2>2, <2>3, <2>4, <2>5, <2>6 DEF Truth
<1> QED BY TruthInit, TypeCorrect, <1>1, PTL DEF Spec

\* Every entry of every connection list is a session that was started there.
THEOREM RegistriesAreTruthful == Spec => []RegistryTruthful
<1>1. TypeOK /\ Truth => RegistryTruthful
  BY DEF Truth
<1> QED BY TruthInvariant, <1>1, PTL

\* No server, and no SYNC on the way, ever places a user at a server where that
\* user has not connected.
THEOREM TablesAreTruthful == Spec => []TablesTruthful
<1>1. TypeOK /\ Truth => TablesTruthful
  BY DEF Truth
<1> QED BY TruthInvariant, <1>1, PTL

\* SYNCs are split-horizon: a list never travels towards its own server.
THEOREM SyncsAlwaysFlowOutwards == Spec => []SyncsFlowOutwards
<1>1. TypeOK /\ Truth => SyncsFlowOutwards
  BY DEF Truth
<1> QED BY TruthInvariant, <1>1, PTL

\* processClientSendMessage forwards only towards a server where the addressee
\* has connected, under loss, repetition, reordering, restarts and departures.
THEOREM RelaysGoHome == Spec => []RelayTowardsHome
<1>1. TypeOK /\ Truth => RelayTowardsHome
  BY DEF Truth
<1> QED BY TruthInvariant, <1>1, PTL

\* addToMessageList files a message only at a server of its addressee.
THEOREM MailWaitsAtHome == Spec => []MailboxAtHome
<1>1. TypeOK /\ Truth => MailboxAtHome
  BY DEF Truth
<1> QED BY TruthInvariant, <1>1, PTL

\* No client is sent a message of another user, or one on which receiveOverUDP
\* would stop at an assertion, and its m_serverEndPoint never moves.
THEOREM RepliesAreRightful == Spec => []RepliesRightful
<1>1. TypeOK /\ Truth => RepliesRightful
  BY DEF Truth
<1> QED BY TruthInvariant, <1>1, PTL

\* When every user keeps to one server, processClientSendMessage never sends a
\* message back to the neighbour it is coming from, whatever else goes wrong.
THEOREM NoCircling ==
  ASSUME SingleHome
  PROVE  Spec => RelayNeverReturns
<1> DEFINE Passing ==
      \A d \in relays : \A r \in relays' \ relays :
        r.message = d.message /\ r.from = d.to => r.to # d.from
<1>1. ASSUME TypeOK, Truth, TypeOK', Truth', NEW d \in relays, NEW r \in relays',
             r.message = d.message, r.from = d.to, r.to = d.from, [Next]_vars
      PROVE  FALSE
  <2> DEFINE n == d.message.destination
  <2>1. d.from \in Int /\ d.to \in Int
    BY <1>1 DEF TypeOK, NetworkTypeOK, Relay, Servers
  <2>2. Nearer(d.from, d.to, n) /\ Nearer(d.to, d.from, n)'
    BY <1>1 DEF Truth, RelayTowardsHome
  <2>3. Joined(n) \subseteq Joined(n)'
    BY <1>1, JoinedGrows
  <2>4. \A g, h \in Joined(n)' : g = h /\ g \in Int
    BY ClientAssumption, SingleHome DEF SingleHome, Joined, Servers
  <2>5. CASE d.to = d.from - 1
    BY <2>1, <2>2, <2>3, <2>4, <2>5 DEF Nearer
  <2>6. CASE d.to = d.from + 1
    BY <2>1, <2>2, <2>3, <2>4, <2>6 DEF Nearer
  <2> QED BY <2>2, <2>5, <2>6 DEF Nearer
<1>2. /\ TypeOK /\ Truth /\ TypeOK' /\ Truth' /\ [Next]_vars
      => [Passing]_vars
  BY <1>1
<1> QED BY TruthInvariant, <1>2, PTL DEF Spec, RelayNeverReturns

=============================================================================
