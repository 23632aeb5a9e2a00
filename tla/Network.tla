------------------------------ MODULE Network ------------------------------
(***************************************************************************)
(* The line of servers, the messages of the chat system and the UDP        *)
(* datagrams that are in flight.  Every socket of the program is UDP, so a *)
(* datagram may be lost, delivered twice or overtake another one.  The     *)
(* datagrams in flight are sets: order is never preserved, and two         *)
(* identical datagrams that are in flight together are one element.        *)
(***************************************************************************)
EXTENDS Integers, Sequences

CONSTANTS highestServerIndex,  \* servers 0 .. highestServerIndex, 4 in the code
          Usernames,           \* names a client runs under or writes to
          Endpoints,           \* UDP endpoints of client processes, one each
          Payloads,            \* chat texts
          Blank,               \* the content of a field no handler reads
          Lossy,               \* kinds of datagram the network may lose
          Duplicating          \* kinds of datagram it may deliver again

Servers == 0 .. highestServerIndex

ClientTypes == {"mt_CLIENT_CONNECT", "mt_CLIENT_DISCONNECT",
                "mt_CLIENT_SEND", "mt_CLIENT_GET", "mt_CLIENT_ACK"}

MessageTypes == ClientTypes \cup {"mt_SERVER_SEND", "mt_SERVER_SYNC"}

\* "relay" is an mt_CLIENT_SEND that one server passes on to the next.
Kinds == MessageTypes \cup {"relay"}

ASSUME NetworkAssumption ==
  /\ highestServerIndex \in Nat
  /\ Lossy \subseteq Kinds
  /\ Duplicating \subseteq Kinds

(***************************************************************************)
(* Messages.  A message is the record of its fields, as the codec reads    *)
(* them where it can: names and texts without a delimiter, in a datagram   *)
(* that fits in the receive buffer.  What it does to others is the subject *)
(* of modules MessageCodec and Wire; a list that it refuses is one that    *)
(* was lost.                                                               *)
(***************************************************************************)
DataMessage == [type        : MessageTypes,
                sequence    : Nat,
                source      : Usernames,
                destination : Usernames \cup {Blank},
                payload     : Payloads \cup {Blank}]

dataMessage(type, sequence, source, destination, payload) ==
  [type |-> type, sequence |-> sequence, source |-> source,
   destination |-> destination, payload |-> payload]

setMessageType(m, type) == [m EXCEPT !.type = type]

(***************************************************************************)
(* The servers form a line: s is adjacent to s-1 and to s+1.               *)
(***************************************************************************)
leftAdjacentServerIndex(s) == s - 1

rightAdjacentServerIndex(s) == s + 1

\* Mutant of HasLeft: the bound of the line is off by one.
HasLeftOffByOne(s) == leftAdjacentServerIndex(s) >= -1

HasLeft(s) == leftAdjacentServerIndex(s) >= 0

HasRight(s) == rightAdjacentServerIndex(s) <= highestServerIndex

(***************************************************************************)
(* Datagrams in flight.                                                    *)
(***************************************************************************)
VARIABLES requests,  \* from a client to its server
          relays,    \* chat messages from a server to an adjacent one
          syncs,     \* client lists from a server to an adjacent one
          replies    \* chat messages from a server to a client

networkVars == <<requests, relays, syncs, replies>>

Request == [to : Servers, from : Endpoints, message : DataMessage]

Relay == [to : Servers, from : Servers, message : DataMessage]

Sync == [to : Servers, from : Servers, origin : Servers,
         clients : SUBSET Usernames]

Reply == [to : Endpoints, from : Servers, message : DataMessage]

NetworkTypeOK ==
  /\ requests \subseteq Request
  /\ relays \subseteq Relay
  /\ syncs \subseteq Sync
  /\ replies \subseteq Reply

NetworkInit ==
  /\ requests = {}
  /\ relays = {}
  /\ syncs = {}
  /\ replies = {}

\* What may be in flight after d, of the given kind, was received.
AfterReceipt(flight, kind, d) ==
  {flight \ {d}} \cup (IF kind \in Duplicating THEN {flight} ELSE {})

Lose ==
  \/ \E d \in requests :
       /\ d.message.type \in Lossy
       /\ requests' = requests \ {d}
       /\ UNCHANGED <<relays, syncs, replies>>
  \/ \E d \in relays :
       /\ "relay" \in Lossy
       /\ relays' = relays \ {d}
       /\ UNCHANGED <<requests, syncs, replies>>
  \/ \E d \in syncs :
       /\ "mt_SERVER_SYNC" \in Lossy
       /\ syncs' = syncs \ {d}
       /\ UNCHANGED <<requests, relays, replies>>
  \/ \E d \in replies :
       /\ "mt_SERVER_SEND" \in Lossy
       /\ replies' = replies \ {d}
       /\ UNCHANGED <<requests, relays, syncs>>
=============================================================================
