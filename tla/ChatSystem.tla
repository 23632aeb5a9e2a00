----------------------------- MODULE ChatSystem -----------------------------
(***************************************************************************)
(* The whole system: the clients, the line of servers and the network      *)
(* between them, with the properties that make it a messaging system.      *)
(***************************************************************************)
EXTENDS Server, Client, FiniteSets

vars == <<networkVars, serverVars, clientVars>>

Init == NetworkInit /\ ServerInit /\ ClientInit

Next ==
  \/ ServerNext /\ UNCHANGED clientVars
  \/ ClientNext /\ UNCHANGED serverVars
  \/ Lose /\ UNCHANGED <<serverVars, clientVars>>

Spec == Init /\ [][Next]_vars

TypeOK == NetworkTypeOK /\ ServerTypeOK /\ ClientTypeOK

-----------------------------------------------------------------------------
(***************************************************************************)
(* What the servers may believe.                                           *)
(***************************************************************************)

\* The servers at which a session of the user n has announced itself.
Joined(n) == {Home[e] : e \in {x \in Endpoints : User[x] = n /\ sequence[x] > 0}}

\* Every entry of a connection list is a session that was started on that
\* server, under the name it runs under.
RegistryTruthful ==
  \A s \in Servers : \A i \in DOMAIN connectedClients[s] :
    LET c == connectedClients[s][i] IN
    /\ Home[c.endpoint] = s
    /\ User[c.endpoint] = c.id
    /\ sequence[c.endpoint] > 0

\* Every request in flight goes to the server its session was started on,
\* under the name it runs under, and a CONNECT comes from a started session.
RequestsTruthful ==
  \A d \in requests :
    /\ Home[d.from] = d.to
    /\ User[d.from] = d.message.source
    /\ d.message.type = "mt_CLIENT_CONNECT" => sequence[d.from] > 0

\* A client list, held by any server or in flight, names only users that have
\* joined at the server the list is about, whatever was lost, repeated,
\* overtaken or forgotten on the way.
TablesTruthful ==
  /\ \A s, j \in Servers : \A n \in clientsServed[s][j] : j \in Joined(n)
  /\ \A d \in syncs : \A n \in d.clients : d.origin \in Joined(n)

\* A list travels away from the server it is about: no server is ever sent a
\* list of its own clients, or one that it could have sent the other way.
SyncsFlowOutwards ==
  \A d \in syncs :
    \/ d.to = d.from - 1 /\ d.origin >= d.from
    \/ d.to = d.from + 1 /\ d.origin <= d.from

\* The pass of attemptForward reads the front of an empty list, and the server
\* crashes, only after its calls and those of listenLoopUDP have overlapped on
\* that list: otherwise the list holds as many messages as the pass has left.
PassNeverStarves ==
  \A s \in Servers :
    "unassociated" \notin torn[s]
      => toCheck[s] <= Len(unassociated[s]) /\ s \notin crashed

-----------------------------------------------------------------------------
(***************************************************************************)
(* Where messages go.                                                      *)
(***************************************************************************)

\* The hop from s to t leads to, or nearer to, a server where n has joined.
Nearer(s, t, n) ==
  \/ t = s - 1 /\ \E h \in Joined(n) : h < s
  \/ t = s + 1 /\ \E h \in Joined(n) : h > s

\* Every message between servers is on a hop of the line that brings it
\* nearer to a server where its addressee has joined.
RelayTowardsHome ==
  \A d \in relays : Nearer(d.from, d.to, d.message.destination)

SendMessage == {m \in DataMessage : m.type = "mt_CLIENT_SEND"}

\* A message that is passed on, held or taken up again keeps, or gets back, the
\* type it was submitted with, although what waits in a mailbox has another:
\* so a server routes whatever another server sends it, and neither
\* processServerRelayMessage, which would send it the wrong way, nor an
\* assertion of the switch is ever reached.
RelaysAreSends ==
  /\ \A d \in relays : d.message \in SendMessage
  /\ \A s \in Servers : /\ unassociated[s] \in Seq(SendMessage)
                        /\ inHand[s] \in Seq(SendMessage)

\* No user has sessions on two servers.
SingleHome == \A x, y \in Endpoints : User[x] = User[y] => Home[x] = Home[y]

\* When no user has sessions on two servers, a message that a server passes on
\* does not go back to the neighbour that is still passing it: between two
\* servers no message goes in circles.
RelayNeverReturns ==
  [][\A d \in relays : \A r \in relays' \ relays :
       r.message = d.message /\ r.from = d.to => r.to # d.from]_vars

\* A message waits for delivery only at a server where its addressee has
\* joined.
MailboxAtHome ==
  \A s \in Servers : \A k \in DOMAIN messageList[s] :
    LET m == messageList[s][k] IN
    /\ s \in Joined(m.destination)
    /\ m.type = "mt_SERVER_SEND"

\* Clients are sent nothing but chat messages, by their own server, for the
\* user they run under; so no case of receiveOverUDP that asserts is reached,
\* and m_serverEndPoint, which every receipt overwrites, never changes.
RepliesRightful ==
  /\ \A d \in replies :
       /\ d.message.type = "mt_SERVER_SEND"
       /\ d.message.destination = User[d.to]
       /\ d.from = Home[d.to]
  /\ \A e \in Endpoints : serverEndPoint[e] = Home[e]

-----------------------------------------------------------------------------
(***************************************************************************)
(* No message is lost by the servers.                                      *)
(***************************************************************************)
IsChat(m, chat) == setMessageType(m, "mt_CLIENT_SEND") = chat

\* Where the submitted message m is: in flight, held, or waiting.
Copies(m) ==
  {<<"request", d>> : d \in {x \in requests : x.message = m}} \cup
  {<<"relay", d>> : d \in {x \in relays : x.message = m}} \cup
  {<<"in hand", s>> : s \in {x \in Servers : inHand[x] = <<m>>}} \cup
  UNION {{<<"held", s, k>> : k \in {i \in DOMAIN unassociated[s] :
                                      unassociated[s][i] = m}} \cup
         {<<"waiting", s, k>> : k \in {i \in DOMAIN messageList[s] :
                                         IsChat(messageList[s][i], m)}} :
            s \in Servers}

\* A session of the addressee has shown m.
Shown(m) ==
  \E e \in Endpoints :
    /\ User[e] = m.destination
    /\ \E x \in displayed[e] : IsChat(x, m)

\* The network loses and repeats no chat message before it is in a mailbox, and
\* no server restarts.
NothingForgotten ==
  /\ {"mt_CLIENT_SEND", "relay"} \cap (Lossy \cup Duplicating) = {}
  /\ Restarting = {}

Homes(n) == {Home[e] : e \in {x \in Endpoints : User[x] = n}}

\* An acknowledgement of one of m and n may reach a server where the other
\* waits under the same sequence number.
Colliding(m, n) ==
  /\ m.sequence = n.sequence
  /\ Homes(m.destination) \cap Homes(n.destination) # {}

\* No two messages that were submitted collide, of one session or of two, and
\* none was submitted twice.
NoCollision ==
  /\ repeated = {}
  /\ \A x, y \in Endpoints : \A m \in submitted[x], n \in submitted[y] :
       x # y \/ m # n => m # n /\ ~Colliding(m, n)

\* No list was ever changed by two calls at once.
Orderly == \A s \in Servers : torn[s] = {}

\* A message is in exactly one place until it is acknowledged, and is gone only
\* after its addressee has shown it.
NoMessageVanishes ==
  \A e \in Endpoints : \A m \in submitted[e] :
    \/ Cardinality(Copies(m)) = 1
    \/ Copies(m) = {} /\ Shown(m)

\* As long as submitting and relaying do not lose messages and no server
\* restarts, a message vanishes only after two messages have collided or two
\* calls have overlapped.  Lost or repeated GETs, answers, acknowledgements and
\* client lists, and a message that is in no list while it is routed again, do
\* not matter.
VanishingHasACause == NoCollision /\ Orderly => NoMessageVanishes

\* The system implements the message service: clients, servers and network
\* together never show a message that was not submitted for the user who sees
\* it, and never alter one.
Service ==
  INSTANCE MessageService WITH
    Sessions <- Endpoints,
    UserOf <- User,
    sent <- submitted,
    shown <- [e \in Endpoints |->
                {setMessageType(m, "mt_CLIENT_SEND") : m \in displayed[e]}]

ImplementsService == Service!Spec

-----------------------------------------------------------------------------
(***************************************************************************)
(* Fairness.  Every thread keeps running, and a datagram that is sent again *)
(* and again gets through again and again.  Users start no session and     *)
(* type no line unless they want to.                                       *)
(***************************************************************************)
ByServer(A) == A /\ UNCHANGED clientVars

ByClient(A) == A /\ UNCHANGED serverVars

ServerThreads ==
  \A s \in Servers :
    /\ WF_vars(ByServer(BeginPass(s)))
    /\ WF_vars(ByServer(TakeFront(s)))
    /\ WF_vars(ByServer(RouteAgain(s)))
    /\ WF_vars(ByServer(SnapshotClients(s)))
    /\ WF_vars(ByServer(SendSyncPayload(s)))

ClientThreads ==
  \A e \in Endpoints : WF_vars(ByClient(GetLoad(e) \/ getLoop(e)))

RequestReceived(kind, e) ==
  ByServer(\E d \in requests :
             d.message.type = kind /\ d.from = e /\ ReceiveRequest(d))

RelayReceived(s) == ByServer(\E d \in relays : d.to = s /\ ReceiveRelay(d))

SyncReceived(s, j) ==
  ByServer(\E d \in syncs :
             d.to = s /\ d.origin = j /\ receiveClientsFromAdjacentServers(d))

ReplyReceived(e) == ByClient(\E d \in replies : d.to = e /\ receiveOverUDP(d))

\* Where datagrams may be lost fairness is strong.  Where they are not, one in
\* flight stays there until it is received, and weak fairness says as much.
FairNetwork ==
  /\ \A kind \in ClientTypes \ Lossy : \A e \in Endpoints :
       WF_vars(RequestReceived(kind, e))
  /\ \A kind \in ClientTypes \cap Lossy : \A e \in Endpoints :
       SF_vars(RequestReceived(kind, e))
  /\ \A kind \in {"relay"} \ Lossy : \A s \in Servers :
       WF_vars(RelayReceived(s))
  /\ \A kind \in {"mt_SERVER_SYNC"} \ Lossy : \A s, j \in Servers :
       WF_vars(SyncReceived(s, j))
  /\ \A kind \in {"mt_SERVER_SYNC"} \cap Lossy : \A s, j \in Servers :
       SF_vars(SyncReceived(s, j))
  /\ \A kind \in {"mt_SERVER_SEND"} \ Lossy : \A e \in Endpoints :
       WF_vars(ReplyReceived(e))
  /\ \A kind \in {"mt_SERVER_SEND"} \cap Lossy : \A e \in Endpoints :
       SF_vars(ReplyReceived(e))

FairSpec == Spec /\ ServerThreads /\ ClientThreads /\ FairNetwork

\* As long as no server restarts, every server's lists settle on who is
\* connected where, whoever leaves and however many of the lists were lost on
\* the way; only of a server that everybody has left, the others may keep the
\* last list they got.
TablesConverge ==
  <>[](\A s, j \in Servers :
         ConnectedNames(j) # {} /\ Orderly
           => clientsServed[s][j] = ConnectedNames(j))

\* Once nobody types any more, forwarding comes to an end, unless calls have
\* overlapped: every message is at last delivered to a mailbox or held, and
\* none travels for ever.
MessagesComeToRest == <>[](Orderly => relays = {})

Online(n) == \E e \in Endpoints : User[e] = n /\ threads[e] = Threads

\* A submitted message is shown in the end, if its addressee is online and no
\* calls overlap: it was held until the lists told where to send it, found its
\* way along the line, and was sent again until it was seen.
Delivered ==
  \A e \in Endpoints : \A k \in 1 .. Len(Lines[e]) :
    (typed[e] = k /\ \A m \in submitted[e] : Online(m.destination))
      ~> (\A m \in submitted[e] : Shown(m)) \/ ~Orderly
=============================================================================
