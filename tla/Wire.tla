-------------------------------- MODULE Wire --------------------------------
(***************************************************************************)
(* Chat messages and client lists as the text they are on their way along  *)
(* the line.  Every server on the way receives a datagram into its buffer, *)
(* decodes it, and sends what it has read in a datagram of its own.        *)
(*                                                                         *)
(* A chat message passes the servers 1 .. Path and then reaches a client;  *)
(* a client list is about server 0 and is passed on to the right.  Which   *)
(* way a message takes is the subject of module Server.                    *)
(***************************************************************************)
EXTENDS MessageCodec

CONSTANTS Path,        \* servers on the way
          ServerName,  \* their names, which differ in length
          SyncNumbers  \* the numbers servers give to their SYNCs

ASSUME WireAssumption ==
  /\ Path \in Nat \ {0}
  /\ ServerName \in [0 .. Path -> Seq(STRING)]
  /\ SyncNumbers \subseteq Nat

\* As with the names of the topology: none contains the delimiter, and with two
\* of them, a number, a type and four delimiters there is room for a list.
ASSUME ServerNameAssumption ==
  /\ \A s \in 0 .. Path : find(ServerName[s], messageDelimiter) = 0
  /\ \A s \in 0 .. Path - 1, n \in SyncNumbers :
       Len(to_string(n)) + Len(ServerName[s]) + Len(ServerName[s + 1]) + 9
         <= BufferLength

VARIABLES
  chats,      \* datagrams with a chat message, and the hop they are on
  displayed,  \* history: what was sent, read by server 1, and shown
  lists,      \* datagrams with a client list, and the server they go to
  filed       \* history: the lists each server has had, and of whom

wireVars == <<chats, displayed, lists, filed>>

\* The client list that server 0 has of itself, if it has one.
WireInit(known) ==
  /\ chats = {}
  /\ displayed = {}
  /\ lists = {}
  /\ filed = {[at |-> 0, sent |-> names, names |-> names, origin |-> 0] :
                names \in known}

Arrived(d) == decode(Received(d.chars))

SendChat(m) ==
  /\ chats' = chats \cup {[hop |-> 1, sent |-> m, read |-> {},
                           chars |-> asCharVector(m)]}
  /\ UNCHANGED <<displayed, lists, filed>>

\* The constructor throws, and the receive loop goes on with the next datagram.
RefuseChat(d) ==
  /\ Arrived(d) = {}
  /\ chats' = chats \ {d}
  /\ UNCHANGED <<displayed, lists, filed>>

\* The last server, where the addressee is connected, sets the type.
PassChat(d) ==
  /\ d.hop <= Path
  /\ \E m \in Arrived(d) :
       LET type == IF d.hop = Path THEN "mt_SERVER_SEND" ELSE m.type IN
       chats' = (chats \ {d}) \cup
         {[hop   |-> d.hop + 1,
           sent  |-> d.sent,
           read  |-> IF d.hop = 1 THEN {m} ELSE d.read,
           chars |-> asCharVector([m EXCEPT !.type = type])]}
  /\ UNCHANGED <<displayed, lists, filed>>

ShowChat(d) ==
  /\ d.hop = Path + 1
  /\ \E m \in Arrived(d), first \in d.read :
       displayed' = displayed \cup {[sent |-> d.sent, read |-> first, shown |-> m]}
  /\ chats' = chats \ {d}
  /\ UNCHANGED <<lists, filed>>

\* The lists of this server and of those to its left go to the right, unless
\* they are empty.  The server's number for a SYNC is read by nobody, but takes
\* more room the longer the server runs.
SendList(f) ==
  /\ f.at < Path
  /\ f.origin \in 0 .. f.at
  /\ f.names # <<>>
  /\ \E n \in SyncNumbers :
       lists' = lists \cup
         {[hop |-> f.at + 1, sent |-> f.sent,
           chars |-> asCharVector(message(n, "mt_SERVER_SYNC",
                                          ServerName[f.at],
                                          ServerName[f.at + 1],
                                          createServerSyncPayload(f.names),
                                          f.origin))]}
  /\ UNCHANGED <<chats, displayed, filed>>

RefuseList(d) ==
  /\ Arrived(d) = {}
  /\ lists' = lists \ {d}
  /\ UNCHANGED <<chats, displayed, filed>>

\* The index that was read is recorded as it is, and may be no server's: a list
\* of an empty name and the name 33, when the delimiter after it is cut off, is
\* filed under 33.  In the code that is a write outside of
\* m_clientsServedByServerIndex, which is undefined; what it destroys is no part
\* of this module, and SendList sends no such list on.
FileList(d) ==
  /\ \E m \in Arrived(d) :
       filed' = filed \cup
         {[at |-> d.hop, sent |-> d.sent,
           names |-> viewServerSyncPayload(m.payload), origin |-> m.origin]}
  /\ lists' = lists \ {d}
  /\ UNCHANGED <<chats, displayed>>

WireNext ==
  \/ \E d \in chats : RefuseChat(d) \/ PassChat(d) \/ ShowChat(d)
  \/ \E f \in filed : SendList(f)
  \/ \E d \in lists : RefuseList(d) \/ FileList(d)
=============================================================================
