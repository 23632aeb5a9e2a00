------------------------------- MODULE MCChat -------------------------------
(***************************************************************************)
(* Small instances of ChatSystem for TLC: alice has the session a1, bob    *)
(* may have two, b1 at the right end of the line and b2 at the left end.   *)
(***************************************************************************)
EXTENDS ChatSystem

CONSTANTS alice, bob,  \* users
          a1, b1, b2,  \* sessions
          hello, bye   \* texts

UserOfSession == [e \in Endpoints |-> IF e = a1 THEN alice ELSE bob]

BobAtTheRight == [e \in Endpoints |-> IF e = b1 THEN highestServerIndex ELSE 0]

To(user, text) == [destination |-> user, payload |-> text]

NoLines == [e \in Endpoints |-> <<>>]

OneLine == [e \in Endpoints |-> IF e = a1 THEN <<To(bob, hello)>> ELSE <<>>]

TwoLines ==
  [e \in Endpoints |-> IF e = a1 THEN <<To(bob, hello), To(bob, bye)>>
                                 ELSE <<>>]

\* The bounds of getLoop's counting.
NobodyCounts == [e \in Endpoints |-> 0]

AliceCounts == [e \in Endpoints |-> IF e = a1 THEN 2 ELSE 0]

-----------------------------------------------------------------------------
(***************************************************************************)
(* What the documentation says of the servers and their code does not do.  *)
(***************************************************************************)
EntriesOf(s, n) ==
  Cardinality({i \in DOMAIN connectedClients[s] : connectedClients[s][i].id = n})

\* server.cpp:699: a DISCONNECT removes the matching client connection.
DisconnectRemoves ==
  [][\A d \in requests :
       /\ removeClientConnection(d)
       /\ IsConnected(d.to, d.message.source)
       => EntriesOf(d.to, d.message.source)'
            < EntriesOf(d.to, d.message.source)]_vars

\* server.h:78-79: a GET makes the server send the client that asked all
\* messages that are destined for it.
GetAnswersTheAsker ==
  [][\A d \in requests :
       sendMessagesToClient(d) =>
         \A r \in replies' \ replies : r.to = d.from]_vars

\* server.h:169-170: the known client lists are routinely forwarded to the
\* adjacent servers; so once no server restarts, they should settle.
ListsSettleAfterRestarts ==
  <>[][\A s \in Servers : ~Restart(s)]_vars
    => <>[](\A s, j \in Servers : clientsServed[s][j] = ConnectedNames(j))
=============================================================================
