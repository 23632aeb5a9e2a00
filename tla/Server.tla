------------------------------- MODULE Server -------------------------------
(***************************************************************************)
(* The chat servers: one process per index, each with three threads that   *)
(* share its containers without a lock.                                    *)
(*                                                                         *)
(*   listenLoopUDP     receives one datagram and runs its handler,         *)
(*   attemptForward    takes held messages from the front of their list    *)
(*                     and routes them again,                              *)
(*   sendSyncPayloads  takes a snapshot of the connected clients and sends *)
(*                     the known client lists to both neighbours.          *)
(*                                                                         *)
(* A step is one call on a shared container, or one send, by one thread.   *)
(* Two calls that change one list at once are undefined behaviour: the     *)
(* list is torn from then on, as module HeldList shows.                    *)
(***************************************************************************)
EXTENDS Network

CONSTANTS Restarting,      \* servers that may be killed and launched again
          Overlapping,     \* servers where two threads' calls may overlap
          MaxConnections,  \* bound: entries of one m_connectedClients
          MaxMessages      \* bound: entries of each of its message lists

ASSUME ServerAssumption ==
  /\ Restarting \subseteq Servers
  /\ Overlapping \subseteq Servers
  /\ MaxConnections \in Nat
  /\ MaxMessages \in Nat

VARIABLES
  connectedClients,  \* m_connectedClients
  messageList,       \* m_messageList
  unassociated,      \* m_messageListOfUnassociatedClients
  clientsServed,     \* m_clientsServedByServerIndex
  toCheck,           \* attemptForward: currentMessageListSize - i
  inHand,            \* attemptForward: messageToCheck, between pop and routing
  syncStep,          \* sendSyncPayloads: 0 before the snapshot, then the send
  torn,              \* the lists that two calls have changed at once
  crashed            \* servers whose process has ended by itself

listVars == <<messageList, unassociated>>

forwardVars == <<toCheck, inHand>>

damageVars == <<torn, crashed>>

serverVars == <<connectedClients, listVars, clientsServed, forwardVars,
                syncStep, damageVars>>

Lists == {"messageList", "unassociated"}

remoteConnection == [id : Usernames, endpoint : Endpoints]

(***************************************************************************)
(* A round of sendSyncPayloads.  To the left go the lists of this server   *)
(* and of all to its right, to the right those of this server and of all   *)
(* to its left: a list never goes back towards the server it is about.     *)
(***************************************************************************)
LeftSends(s) == IF HasLeft(s) THEN highestServerIndex - s + 1 ELSE 0

RightSends(s) == IF HasRight(s) THEN s + 1 ELSE 0

\* Mutant of SyncTarget: both loops send through the left connection.
SyncTargetLeftFirst(s, k) ==
  IF HasLeft(s) THEN leftAdjacentServerIndex(s) ELSE rightAdjacentServerIndex(s)

SyncTarget(s, k) == IF k <= LeftSends(s) THEN leftAdjacentServerIndex(s)
                                         ELSE rightAdjacentServerIndex(s)

SyncOrigin(s, k) == IF k <= LeftSends(s) THEN s + k - 1
                                         ELSE s - (k - LeftSends(s) - 1)

ServerTypeOK ==
  /\ connectedClients \in [Servers -> Seq(remoteConnection)]
  /\ messageList \in [Servers -> Seq(DataMessage)]
  /\ unassociated \in [Servers -> Seq(DataMessage)]
  /\ clientsServed \in [Servers -> [Servers -> SUBSET Usernames]]
  /\ toCheck \in [Servers -> Nat]
  /\ inHand \in [Servers -> Seq(DataMessage)]
  /\ syncStep \in [Servers -> Nat]
  /\ torn \in [Servers -> SUBSET Lists]
  /\ crashed \subseteq Servers
  /\ \A s \in Servers : /\ Len(inHand[s]) <= 1
                        /\ syncStep[s] <= LeftSends(s) + RightSends(s)

ServerInit ==
  /\ connectedClients = [s \in Servers |-> <<>>]
  /\ messageList = [s \in Servers |-> <<>>]
  /\ unassociated = [s \in Servers |-> <<>>]
  /\ clientsServed = [s \in Servers |-> [j \in Servers |-> {}]]
  /\ toCheck = [s \in Servers |-> 0]
  /\ inHand = [s \in Servers |-> <<>>]
  /\ syncStep = [s \in Servers |-> 0]
  /\ torn = [s \in Servers |-> {}]
  /\ crashed = {}

(***************************************************************************)
(* Where a message for the client n goes from server s: this server's own  *)
(* connections are searched first, then the lists of the servers to the    *)
(* left, then those of the servers to the right.                           *)
(***************************************************************************)
\* Mutant of IsConnected: the first connection decides, whatever its name.
IsConnectedByAnyone(s, n) == connectedClients[s] # <<>>

IsConnected(s, n) ==
  \E i \in DOMAIN connectedClients[s] : connectedClients[s][i].id = n

\* Mutant of IsToTheLeft: the lists of both sides count as the left's.
IsToTheLeftByAnyList(s, n) ==
  HasLeft(s) /\ \E j \in Servers \ {s} : n \in clientsServed[s][j]

IsToTheLeft(s, n) == \E j \in 0 .. s - 1 : n \in clientsServed[s][j]

IsToTheRight(s, n) ==
  \E j \in s + 1 .. highestServerIndex : n \in clientsServed[s][j]

\* A message that is appended to a torn list may not be found in it: the end
\* to which it is hooked need not be reached from the front.
Appended(s, list, old, m) ==
  {Append(old, m)} \cup (IF list \in torn[s] THEN {old} ELSE {})

\* Mutant of addToMessageList: the message keeps its type.
addToMessageListUntyped(s, m) ==
  \E new \in Appended(s, "messageList", messageList[s], m) :
    messageList' = [messageList EXCEPT ![s] = new]

addToMessageList(s, m) ==
  \E new \in Appended(s, "messageList", messageList[s],
                     setMessageType(m, "mt_SERVER_SEND")) :
    messageList' = [messageList EXCEPT ![s] = new]

\* Mutant of addToMessageListOfUnassociatedClients: the type of a message for
\* a mailbox is set, as in addToMessageList.
addToUnassociatedAsServerSend(s, m) ==
  \E new \in Appended(s, "unassociated", unassociated[s],
                     setMessageType(m, "mt_SERVER_SEND")) :
    unassociated' = [unassociated EXCEPT ![s] = new]

addToMessageListOfUnassociatedClients(s, m) ==
  \E new \in Appended(s, "unassociated", unassociated[s],
                     setMessageType(m, "mt_CLIENT_SEND")) :
    unassociated' = [unassociated EXCEPT ![s] = new]

Forwarded(s, t, m) == {[to |-> t, from |-> s, message |-> m]}

\* "rest" is what is in flight between servers without the message at hand.
processClientSendMessage(s, m, rest) ==
  LET n == m.destination IN
  \/ /\ IsConnected(s, n)
     /\ Len(messageList[s]) < MaxMessages
     /\ addToMessageList(s, m)
     /\ relays' = rest
     /\ UNCHANGED unassociated
  \/ /\ ~IsConnected(s, n)
     /\ IsToTheLeft(s, n)
     /\ relays' = rest \cup Forwarded(s, leftAdjacentServerIndex(s), m)
     /\ UNCHANGED listVars
  \/ /\ ~IsConnected(s, n)
     /\ ~IsToTheLeft(s, n)
     /\ IsToTheRight(s, n)
     /\ relays' = rest \cup Forwarded(s, rightAdjacentServerIndex(s), m)
     /\ UNCHANGED listVars
  \/ /\ ~IsConnected(s, n)
     /\ ~IsToTheLeft(s, n)
     /\ ~IsToTheRight(s, n)
     /\ Len(unassociated[s]) < MaxMessages
     /\ addToMessageListOfUnassociatedClients(s, m)
     /\ relays' = rest
     /\ UNCHANGED messageList

(***************************************************************************)
(* listenLoopUDP: one action per case of its switch that the clients and   *)
(* servers of this system send.                                            *)
(***************************************************************************)
ReceivedRequest(d, type) ==
  /\ d.to \notin crashed
  /\ d.message.type = type
  /\ requests' \in AfterReceipt(requests, type, d)

\* Mutant of addClientConnection: the identifiers are swapped.
addClientConnectionSwapped(d) ==
  LET s == d.to IN
  /\ ReceivedRequest(d, "mt_CLIENT_CONNECT")
  /\ Len(connectedClients[s]) < MaxConnections
  /\ connectedClients' =
       [connectedClients EXCEPT
          ![s] = Append(@, [id |-> d.message.destination, endpoint |-> d.from])]
  /\ UNCHANGED <<relays, syncs, replies>>
  /\ UNCHANGED <<listVars, clientsServed, forwardVars, syncStep, damageVars>>

addClientConnection(d) ==
  LET s == d.to IN
  /\ ReceivedRequest(d, "mt_CLIENT_CONNECT")
  /\ Len(connectedClients[s]) < MaxConnections
  /\ connectedClients' =
       [connectedClients EXCEPT
          ![s] = Append(@, [id |-> d.message.source, endpoint |-> d.from])]
  /\ UNCHANGED <<relays, syncs, replies>>
  /\ UNCHANGED <<listVars, clientsServed, forwardVars, syncStep, damageVars>>

\* The loop leaves after its first iteration, whether or not it erased.
WithoutConnection(connections, n) ==
  IF connections # <<>> /\ Head(connections).id = n
    THEN Tail(connections)
    ELSE connections

removeClientConnection(d) ==
  LET s == d.to IN
  /\ ReceivedRequest(d, "mt_CLIENT_DISCONNECT")
  /\ connectedClients' =
       [connectedClients EXCEPT ![s] = WithoutConnection(@, d.message.source)]
  /\ UNCHANGED <<relays, syncs, replies>>
  /\ UNCHANGED <<listVars, clientsServed, forwardVars, syncStep, damageVars>>

ReceiveClientSend(d) ==
  /\ ReceivedRequest(d, "mt_CLIENT_SEND")
  /\ processClientSendMessage(d.to, d.message, relays)
  /\ UNCHANGED <<syncs, replies>>
  /\ UNCHANGED <<connectedClients, clientsServed, forwardVars, syncStep,
                 damageVars>>

\* A forwarded message keeps its type, so it is routed like a client's.
ReceiveRelay(d) ==
  /\ d.to \notin crashed
  /\ d.message.type = "mt_CLIENT_SEND"
  /\ \E rest \in AfterReceipt(relays, "relay", d) :
       processClientSendMessage(d.to, d.message, rest)
  /\ UNCHANGED <<requests, syncs, replies>>
  /\ UNCHANGED <<connectedClients, clientsServed, forwardVars, syncStep,
                 damageVars>>

\* The first connection under the name n, if there is one.
ConnectionOf(s, n) ==
  {i \in DOMAIN connectedClients[s] :
     /\ connectedClients[s][i].id = n
     /\ \A j \in 1 .. i - 1 : connectedClients[s][j].id # n}

\* Mutant of MailFor: the destination is not looked at.
MailForAnyone(s, n) == DOMAIN messageList[s]

MailFor(s, n) ==
  {k \in DOMAIN messageList[s] : messageList[s][k].destination = n}

\* Mutant of sendMessagesToClient: what was sent is not kept.
sendMessagesToClientOnce(d) ==
  LET s == d.to
      n == d.message.source
  IN
  /\ ReceivedRequest(d, "mt_CLIENT_GET")
  /\ replies' = replies \cup
       {[to      |-> connectedClients[s][i].endpoint,
         from    |-> s,
         message |-> messageList[s][k]] :
            i \in ConnectionOf(s, n), k \in MailFor(s, n)}
  /\ messageList' = [messageList EXCEPT
                       ![s] = SelectSeq(@, LAMBDA m : m.destination # n)]
  /\ UNCHANGED <<relays, syncs>>
  /\ UNCHANGED <<connectedClients, unassociated, clientsServed,
                 forwardVars, syncStep, damageVars>>

sendMessagesToClient(d) ==
  LET s == d.to
      n == d.message.source
  IN
  /\ ReceivedRequest(d, "mt_CLIENT_GET")
  /\ replies' = replies \cup
       {[to      |-> connectedClients[s][i].endpoint,
         from    |-> s,
         message |-> messageList[s][k]] :
            i \in ConnectionOf(s, n), k \in MailFor(s, n)}
  /\ UNCHANGED <<relays, syncs>>
  /\ UNCHANGED serverVars

\* Mutant of AcknowledgedBy: an acknowledgement is taken as cumulative.
AcknowledgedUpTo(s, q) ==
  {k \in DOMAIN messageList[s] :
     /\ messageList[s][k].sequence <= q
     /\ \A j \in 1 .. k - 1 : messageList[s][j].sequence > q}

\* The first message that an acknowledgement of q names, if there is one.
AcknowledgedBy(s, q) ==
  {k \in DOMAIN messageList[s] :
     /\ messageList[s][k].sequence = q
     /\ \A j \in 1 .. k - 1 : messageList[s][j].sequence # q}

Erase(list, k) == SubSeq(list, 1, k - 1) \o SubSeq(list, k + 1, Len(list))

removeReceivedMessageFromList(d) ==
  LET s == d.to
      q == d.message.sequence
  IN
  /\ ReceivedRequest(d, "mt_CLIENT_ACK")
  /\ \/ \E k \in AcknowledgedBy(s, q) :
          messageList' = [messageList EXCEPT ![s] = Erase(@, k)]
     \/ /\ AcknowledgedBy(s, q) = {}
        /\ UNCHANGED messageList
  /\ UNCHANGED <<relays, syncs, replies>>
  /\ UNCHANGED <<connectedClients, unassociated, clientsServed,
                 forwardVars, syncStep, damageVars>>

\* Mutant of receiveClientsFromAdjacentServers: a list is filed under the
\* server that passed it on.
receiveClientsBySender(d) ==
  /\ d.to \notin crashed
  /\ syncs' \in AfterReceipt(syncs, "mt_SERVER_SYNC", d)
  /\ clientsServed' = [clientsServed EXCEPT ![d.to][d.from] = d.clients]
  /\ UNCHANGED <<requests, relays, replies>>
  /\ UNCHANGED <<connectedClients, listVars, forwardVars, syncStep,
                 damageVars>>

\* Mutant of receiveClientsFromAdjacentServers: names are only ever added.
receiveClientsMerged(d) ==
  /\ d.to \notin crashed
  /\ syncs' \in AfterReceipt(syncs, "mt_SERVER_SYNC", d)
  /\ clientsServed' = [clientsServed EXCEPT ![d.to][d.origin] = @ \cup d.clients]
  /\ UNCHANGED <<requests, relays, replies>>
  /\ UNCHANGED <<connectedClients, listVars, forwardVars, syncStep,
                 damageVars>>

receiveClientsFromAdjacentServers(d) ==
  /\ d.to \notin crashed
  /\ syncs' \in AfterReceipt(syncs, "mt_SERVER_SYNC", d)
  /\ clientsServed' = [clientsServed EXCEPT ![d.to][d.origin] = d.clients]
  /\ UNCHANGED <<requests, relays, replies>>
  /\ UNCHANGED <<connectedClients, listVars, forwardVars, syncStep,
                 damageVars>>

(***************************************************************************)
(* attemptForward: a pass looks at as many messages as were held when it   *)
(* began; messages held again in the meantime wait for the next pass.      *)
(***************************************************************************)
\* What size() may return: after calls that overlapped, it need not be the
\* length of the list.
Sizes(s) ==
  IF "unassociated" \in torn[s] THEN 0 .. MaxMessages
                                ELSE {Len(unassociated[s])}

\* Mutant of BeginPass: the pass is one message too long.
BeginPassOffByOne(s) ==
  /\ s \notin crashed
  /\ toCheck[s] = 0
  /\ inHand[s] = <<>>
  /\ \E n \in Sizes(s) : toCheck' = [toCheck EXCEPT ![s] = n + 1]
  /\ UNCHANGED networkVars
  /\ UNCHANGED <<connectedClients, listVars, clientsServed, inHand, syncStep,
                 damageVars>>

BeginPass(s) ==
  /\ s \notin crashed
  /\ toCheck[s] = 0
  /\ inHand[s] = <<>>
  /\ \E n \in Sizes(s) : toCheck' = [toCheck EXCEPT ![s] = n]
  /\ UNCHANGED networkVars
  /\ UNCHANGED <<connectedClients, listVars, clientsServed, inHand, syncStep,
                 damageVars>>

TakeFront(s) ==
  /\ toCheck[s] > 0
  /\ inHand[s] = <<>>
  /\ unassociated[s] # <<>>
  /\ inHand' = [inHand EXCEPT ![s] = <<Head(unassociated[s])>>]
  /\ unassociated' = [unassociated EXCEPT ![s] = Tail(@)]
  /\ toCheck' = [toCheck EXCEPT ![s] = @ - 1]
  /\ UNCHANGED networkVars
  /\ UNCHANGED <<connectedClients, messageList, clientsServed, syncStep,
                 damageVars>>

\* What a process keeps in its memory, and nowhere else.
Forgets(s) ==
  /\ connectedClients' = [connectedClients EXCEPT ![s] = <<>>]
  /\ messageList' = [messageList EXCEPT ![s] = <<>>]
  /\ unassociated' = [unassociated EXCEPT ![s] = <<>>]
  /\ clientsServed' = [clientsServed EXCEPT ![s] = [j \in Servers |-> {}]]
  /\ toCheck' = [toCheck EXCEPT ![s] = 0]
  /\ inHand' = [inHand EXCEPT ![s] = <<>>]
  /\ syncStep' = [syncStep EXCEPT ![s] = 0]
  /\ UNCHANGED networkVars

\* The pass takes the node that the empty list itself contains for a message,
\* and pop_front gives it back to the allocator: the process ends, at the latest
\* there.
TakeMissingFront(s) ==
  /\ toCheck[s] > 0
  /\ inHand[s] = <<>>
  /\ unassociated[s] = <<>>
  /\ crashed' = crashed \cup {s}
  /\ Forgets(s)
  /\ UNCHANGED torn

RouteAgain(s) ==
  /\ inHand[s] # <<>>
  /\ processClientSendMessage(s, Head(inHand[s]), relays)
  /\ inHand' = [inHand EXCEPT ![s] = <<>>]
  /\ UNCHANGED <<requests, syncs, replies>>
  /\ UNCHANGED <<connectedClients, clientsServed, toCheck, syncStep,
                 damageVars>>

(***************************************************************************)
(* sendSyncPayloads.                                                       *)
(***************************************************************************)
ConnectedNames(s) ==
  {connectedClients[s][i].id : i \in DOMAIN connectedClients[s]}

SnapshotClients(s) ==
  /\ s \notin crashed
  /\ syncStep[s] = 0
  /\ clientsServed' = [clientsServed EXCEPT ![s][s] = ConnectedNames(s)]
  /\ syncStep' = [syncStep EXCEPT
                    ![s] = IF LeftSends(s) + RightSends(s) > 0 THEN 1 ELSE 0]
  /\ UNCHANGED networkVars
  /\ UNCHANGED <<connectedClients, listVars, forwardVars, damageVars>>

\* Mutant of SyncPayload: only a server's own list is sent.
SyncPayloadOwnOnly(s, k) ==
  LET clients == clientsServed[s][s] IN
  IF clients = {} \/ SyncOrigin(s, k) # s
    THEN {}
    ELSE {[to |-> SyncTarget(s, k), from |-> s,
           origin |-> s, clients |-> clients]}

\* An empty list is not sent.
SyncPayload(s, k) ==
  LET clients == clientsServed[s][SyncOrigin(s, k)] IN
  IF clients = {}
    THEN {}
    ELSE {[to |-> SyncTarget(s, k), from |-> s,
           origin |-> SyncOrigin(s, k), clients |-> clients]}

SendSyncPayload(s) ==
  /\ syncStep[s] > 0
  /\ syncs' = syncs \cup SyncPayload(s, syncStep[s])
  /\ syncStep' = [syncStep EXCEPT
                    ![s] = IF @ < LeftSends(s) + RightSends(s)
                             THEN @ + 1 ELSE 0]
  /\ UNCHANGED <<requests, relays, replies>>
  /\ UNCHANGED <<connectedClients, listVars, clientsServed, forwardVars,
                 damageVars>>

(***************************************************************************)
(* Calls that overlap.                                                     *)
(***************************************************************************)
\* A message for n is appended to the list, if it is not passed on.
GoesTo(s, n, list) ==
  \/ list = "messageList" /\ IsConnected(s, n)
  \/ /\ list = "unassociated"
     /\ ~IsConnected(s, n)
     /\ ~IsToTheLeft(s, n)
     /\ ~IsToTheRight(s, n)

\* The lists that listenLoopUDP may be changing now.
ListenerChanges(s) ==
  {list \in Lists :
     \/ \E d \in requests \cup relays :
          /\ d.to = s
          /\ d.message.type = "mt_CLIENT_SEND"
          /\ GoesTo(s, d.message.destination, list)
     \/ \E d \in requests :
          /\ d.to = s
          /\ d.message.type = "mt_CLIENT_ACK"
          /\ AcknowledgedBy(s, d.message.sequence) # {}
          /\ list = "messageList"}

\* The lists that attemptForward may be changing now.
ForwarderChanges(s) ==
  {list \in Lists :
     \/ inHand[s] # <<>> /\ GoesTo(s, Head(inHand[s]).destination, list)
     \/ /\ inHand[s] = <<>>
        /\ toCheck[s] > 0
        /\ list = "unassociated"}

\* Both threads are inside calls that change one list of the server.  What the
\* calls then do are the steps that follow.
Overlap(s) ==
  /\ s \in Overlapping
  /\ s \notin crashed
  /\ torn' = [torn EXCEPT
                ![s] = @ \cup (ListenerChanges(s) \cap ForwarderChanges(s))]
  /\ UNCHANGED networkVars
  /\ UNCHANGED <<connectedClients, listVars, clientsServed, forwardVars,
                 syncStep, crashed>>

\* The process is killed, or has crashed, and is launched again: nothing is
\* kept on disk.
Restart(s) ==
  /\ s \in Restarting
  /\ Forgets(s)
  /\ torn' = [torn EXCEPT ![s] = {}]
  /\ crashed' = crashed \ {s}

ReceiveRequest(d) ==
  \/ addClientConnection(d)
  \/ removeClientConnection(d)
  \/ ReceiveClientSend(d)
  \/ sendMessagesToClient(d)
  \/ removeReceivedMessageFromList(d)

listenLoopUDP ==
  \/ \E d \in requests : ReceiveRequest(d)
  \/ \E d \in relays : ReceiveRelay(d)
  \/ \E d \in syncs : receiveClientsFromAdjacentServers(d)

ServerNext ==
  \/ listenLoopUDP
  \/ \E s \in Servers :
       \/ BeginPass(s) \/ TakeFront(s) \/ TakeMissingFront(s) \/ RouteAgain(s)
       \/ SnapshotClients(s) \/ SendSyncPayload(s)
       \/ Overlap(s)
       \/ Restart(s)
=============================================================================
