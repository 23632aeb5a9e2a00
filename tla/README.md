# The chat system in TLA+

A model of the command-line chat system of this repository (`src/src/`): chat
clients that talk over UDP to one server of a line of five, and servers that
pass each other messages and lists of who is connected where. TLC checks it on
small instances; TLAPS proves its safety for every number of servers and
sessions, every text, and every length of a receive buffer. Two further models
look closer: at the text of a datagram and the threads of one client (`Console`),
and at the pointers of a list that two threads share (`HeldList`).

## 1. The system

| part | state | operations |
|---|---|---|
| **Server, listening thread** (`server::listenLoopUDP`) | `m_connectedClients`, `m_messageList`, `m_messageListOfUnassociatedClients`, `m_clientsServedByServerIndex` | one handler per message type: CONNECT adds a connection, DISCONNECT removes one, SEND routes a message, GET answers with the waiting mail, ACK erases a message, SYNC stores a client list |
| **Server, `attemptForward`** | the same lists, a pass counter, a message in hand | every 5 ms: takes every held message from the front of its list and routes it again |
| **Server, `sendSyncPayloads`** | the same lists | every 1.5 s: snapshot of the connected clients, then each known non-empty list to the left and to the right neighbour |
| **Client** (`getLoop`, `inputLoop`, `receiveLoop`) | `m_sequenceNumber`, `m_serverEndPoint`, `m_terminate` | CONNECT at start; a GET every second; a SEND per typed line; shows each answer and acknowledges it |
| **Message and codec** (`dataMessage`) | fields | text encoding with `/?` between fields |
| **Topology** (`constants.h`) | five servers in a line | adjacency and its ends |
| `remoteConnection` | name, endpoint, time of last activity | the time is never read |
| Bluetooth | none | empty bodies |
| mains, tests | none | read two values from the console; no test exists |

How they interact: everything between processes is a UDP datagram, so it may be
lost, repeated or overtaken. Within a server three threads work on the same
containers without a lock. A message submitted with SEND is put in the mailbox
(`m_messageList`) of the server whose registry knows the addressee; sent on to
the left or the right if a list of that side names the addressee; and otherwise
held (`m_messageListOfUnassociatedClients`) until a list does. A message that
is passed on keeps its type `mt_CLIENT_SEND`, so the next server treats it just
as one from a client. Mail is fetched with GET, repeatedly, and erased by ACK.

What makes it hard: routing on lists that are copies of copies, of any age;
restarts that forget everything; retries that repeat; threads that interleave on
shared lists and on the client's number; numbers that two threads of one client
may use twice, and that a server takes for unique among all clients.

What makes each part correct: the **registry** and the **lists** never say what
was never true; **routing** never takes a message away from its addressee, and
not in circles; the **mailbox** gives a message to its addressee only, and keeps
it until shown; the **held list** is emptied at last, and read when empty only
after two threads have changed it at once; **syncing** reaches everybody; the
**client** talks to one server, shows nothing that was not sent to its user, and
numbers its messages; the **codec** gives the next hop what this one has read, and
never makes up a name or a text.

## 2. The modules

| module | models | correspondence |
|---|---|---|
| `Network` | message record, line of servers, datagrams in flight | `requests` (client to server), `relays` (messages between servers), `syncs` (lists between servers), `replies` (server to client) are sets: order is never kept. `Lossy` and `Duplicating` name the kinds the network may lose or repeat |
| `Server` | the server process | `connectedClients`, `messageList`, `unassociated`, `clientsServed` are the four containers of each server; `toCheck`, `inHand` the locals of `attemptForward`; `syncStep` the position in a round of `sendSyncPayloads`. One action per handler of `listenLoopUDP`, named as in the code; `BeginPass`, `TakeFront`, `TakeMissingFront`, `RouteAgain`; `SnapshotClients`, `SendSyncPayload`; `Restart`. `Overlap` is the meeting of two calls on one list; `torn` names the lists they have met on, `crashed` the servers that ended by it |
| `Client` | a session, i.e. one run of the client program | `sequence`, `serverEndPoint`, `terminate` are the members; `threads` the threads still running; `getLoaded`, `lineLoaded` the numbers they have loaded and not yet stored, `reference` the sessions about to build a message from the reference to the number; `typed`, `displayed` the console; `submitted`, `repeated` are history variables for properties. `Start`; `GetLoad`, `getLoop`; `InputLoad`, `InputStore`, `inputLoop`; `Exit`, `receiveOverUDP`, `Return`, `Kill` |
| `MessageService` | what users are promised | `Submit` and `Show`, without servers or network |
| `ChatSystem` | the composition | `Spec`, `FairSpec`, every property, and the refinement mapping to `MessageService` |
| `ChatSystemProofs`, `ServiceProofs`, `CustodyProofs` | the theorems about it: that it is truthful, that it implements `MessageService`, and when it loses a message | see section 5 |
| `Text` | what the code asks of the C++ library: `find`, `stoi`, `to_string`, streams | a text is a sequence of characters. External: modelled from how `dataMessage.cpp` and `client.cpp` use it, `npos + 2 = 1` and a stream that is no longer good included |
| `MessageCodec` | `dataMessage` as text | `asCharVector`, `decode` (the constructor from a vector), `createServerSyncPayload`, `viewServerSyncPayload`; `Received` is the buffer after a receive |
| `InputLine` | how `inputLoop` takes a line apart | `ParsedLine` |
| `Wire` | datagrams on their way over several hops | chat messages over the servers `1 .. Path` to a client (`SendChat`, `PassChat`, `ShowChat`, `RefuseChat`), client lists from server 0 to the right (`SendList`, `FileList`, `RefuseList`) |
| `Console` | one client: its two sending threads and what becomes of its lines | `++m_sequenceNumber` as `GetLoad`, `GetStore` and `InputLoad`, `InputStore`; `InputSend` reads the number once more, through the reference |
| `InputLineProofs`, `ConsoleProofs` | the theorems about lines and threads | see section 5 |
| `TextProofs`, `CodecProofs`, `WireProofs` | the theorems about texts, about the codec, and about datagrams over several hops | see section 5 |
| `HeldList` | `m_messageListOfUnassociatedClients` as nodes and pointers | one step per access of `push_back` and `pop_front` to a shared pointer, as libstdc++ makes them |
| `MCConsole` | the instance of `Console` | the lines, texts and lists |
| `MCChat` | small instances | constants for TLC, and what the documentation says and the code does not do |

`Server` and `Client` both extend `Network` and share only its variables;
`ChatSystem` interleaves their steps, each leaving the other's state alone.

Choices a reader should know:

- **Grain of the servers.** A step is one call on a shared container, or one send,
  by one thread. A handler of `listenLoopUDP` that touches one container is one
  step. Routing reads the registry and the lists and then writes one of them, in
  one step.
- **Calls that overlap.** No call takes a lock, so in the servers of `Overlapping`
  two threads may be inside calls that change one of the two lists of messages:
  `Overlap` may happen when the listening thread has a datagram that makes it append
  to, or erase from, the list that `attemptForward` is about to take from or append
  to. The list is `torn` from then on. What that means is read off `HeldList`, which
  has the same list at the grain of its pointers: a message that is appended may
  not be found again (`Appended`), the size may say anything (`Sizes`), and a pass
  that trusts the size may come to the front of an empty list (`TakeMissingFront`).
  It then takes the node inside the list object for a message and gives it back to
  the allocator, which ends the process. The calls themselves are the steps that
  follow. `HeldList` has the same end. Races on the other containers: section 6.
- **Grain of the clients.** `++m_sequenceNumber` is a load and a store, in each of
  the two threads that send, and a message is built from a reference to the number,
  so it carries the value the number has by then: `GetLoad` and `getLoop`,
  `InputLoad`, `InputStore` and `inputLoop`. `getLoop` may therefore lower the
  number, and two lines of one session may be sent under one.
- **A session is an endpoint.** A user who starts the client again is another
  session of the same name, with another UDP port. That a port is given to the
  client of another user later is not in the model.
- **Fields nobody reads** are `Blank`. The sequence numbers of CONNECT,
  DISCONNECT and GET, and `m_sequenceNumber` of the server, are read by no
  handler; the former are recorded as 0, the latter is left out. `sequence` still
  counts every message of a client, since chat messages carry it. In `getLoop`
  it stops at the `MaxSequence` of the session: beyond it, a GET is sent without
  counting.
- **Client lists are sets of names.** The code keeps vectors, in which a name
  may stand twice, and only ever asks whether a name is in them or whether they
  are empty.
- **Two identical datagrams in flight are one.** One more delivery of a datagram
  is what `Duplicating` is for. Two *messages* that are equal in every field, as a
  client may send when it repeats a number, are recorded in `repeated`.
- **A datagram is a record** in `Network`. That writing and reading it again keeps
  every field holds of texts that contain no delimiter and fit into the buffer; of
  the others `Wire` and `Console` say what arrives, and `WireProofs` proves it. So
  "unaltered" in `ChatSystem` is said of records. A client list that the codec
  refuses is, here, a list that was lost; one that it files under another number
  exists in `Wire` only.
- **`Exit`.** The branch of `inputLoop` that sends DISCONNECT compares a text that
  starts with the separating blank, or is the whole line, with `/exit`, so nothing
  typed reaches it: `ExitUnreachable` says so in `Console`, whose `InputSend`
  therefore has no such branch, and `ExitIsUnreachable` proves it. `Client` can take it in sessions named by `Departing`, because
  the server implements DISCONNECT and its handling should be right; in runs where
  `Departing` is empty the system is the shipped one.
- **`Return`.** A thread that finds `m_terminate` set is gone. The model does not
  say where in its loop a thread was when the flag was set: it either does one
  more round or none.
- **`Restart` and `Kill`** stand for the operating system. The code keeps nothing
  on disk, so a restarted server is a new one with the same index.
- **The codec's scale.** The words of the message types are one character each
  (`viewMessageTypeAsString`) and the buffer has `BufferLength` places for the 256 of the code. What matters is
  how a text's length compares with the room that is left, and where the cut
  falls: within a text, a delimiter, a name, a number. Nothing depends on 256.
- **Server names** differ in length, as those of the code do, so a list that
  fits on one hop can be cut on the next.
- **What nobody reads.** The origin of a chat message and the numbers of SYNCs and
  GETs are read by no handler. `HopsAgree` does not compare the former. The number
  of a SYNC takes room in its datagram, more the longer a server runs:
  `SyncNumbers`.
- **Undefined behaviour that is left out.** An origin index outside the servers:
  `receiveClientsFromAdjacentServers` indexes an array with it. `Wire` records such
  an index as it was read (a list of an empty name and the name `33`, cut before the
  delimiter after it, is filed under 33), but not what the write destroys. And what
  the pointers of a torn list do to freed memory, beyond the list itself.
- **`HeldList`'s grain.** The size is changed in one step. Each message has one
  node, which is not used again while either thread works on it.
- **Bounds.** `MaxConnections`, `MaxMessages` (guards of the steps that append),
  `MaxSequence`. The proofs hold for every value of them.

Operators whose comment starts with "Mutant of" are not part of the model. Each
is a plausible mistake in the code of the definition after it; with the mistake
in place, the property named for it in `PROJECT.json` is violated.

## 3. The runs

Alice has session `a1` at server 0, bob `b1` at the right end of the line and,
in some runs, `b2` at server 0. Every run can be repeated with
`tlc -workers 2 -config <run>.cfg <module>.tla`, where the module is `MCChat`
unless the table says otherwise. Deadlock is checked in all but `console`, whose
behaviours end when everything typed has been shown or refused, and
`held_list_race`, in which the process may end.

| run | instance | shows |
|---|---|---|
| `routing` | 3 servers, the middle one restarts, relays may be lost, lists repeat | `TypeOK`, `TablesTruthful`, `SyncsFlowOutwards`, `RelayTowardsHome`, `RelaysAreSends`, `RelayNeverReturns` |
| `mailbox` | 2 servers, two lines of alice while her `getLoop` counts too, calls of server 0 may overlap; GETs, answers, ACKs are lost and repeat, lists are lost | `VanishingHasACause`, `PassNeverStarves`, `RepliesRightful` |
| `roaming` | 2 servers, bob at both, one of his sessions killed, relays repeat | `RegistryTruthful`, `MailboxAtHome`, and the refinement `ImplementsService` |
| `delivery_line` | 3 servers, fair, nothing lost | `Delivered`, `MessagesComeToRest`, `TablesConverge` |
| `delivery_lossy` | 2 servers, fair, GETs, answers, ACKs and lists may be lost for ever again | `Delivered` |
| `lists` | 2 servers, fair, two users of the left one, of whom the second may leave; lists may be lost for ever again | `TablesConverge` |
| `console` (`MCConsole`) | every short text and list over two servers, three lines while `getLoop` runs twice | `TypeOK`, `ExitUnreachable`, `NumbersRepeatOnlyDuringGet`, `HopsAgree`, `TextIntegrity`, `ListsOnlyShorten`, `ListsWholeOrRefused` |

The bounds. Three servers are the least with a middle one, that has both
neighbours and passes on lists and messages that are not its own; a hop depends
only on a server, its neighbours and the lists of its two sides, so longer lines
add distance and no new case (and the proofs are for all lengths). Two sessions
are enough for a sender and an addressee, three for a user with two. One message
in most runs, two where messages could be confused: in `mailbox` and
`ack_collision` alice's `getLoop` counts while her number is below 2, which is enough
for every order of its load and store among those of two lines, a lowered number
included. Only server 0 overlaps in `mailbox`, where alice's messages are held: of the
two lists it is the held one that is torn there. Lists of two entries hold all
messages of a run. `lists` has a user who stays at the server from which another
leaves, since of a server that all have left no list is sent.

In `console`, a buffer of 19 characters leaves seven for text and what follows it;
texts have up to seven characters, so there are some that fit, some that fit to the
last place, and some that are cut at each place of the text and of the delimiter.
All texts of up to three characters from `/`, `?`, a letter, a digit and the blank
are typed, which are all ways a delimiter can be contained in a text, be completed
by what follows, or be taken for a number. Lists have up to three names out of
eight, among them an empty one, digits, a comma and half a delimiter, and there
is one longer list. Two hops are the least at which what is read from a text that
was cut is written and cut again; a list is sent with a number of one digit and with
one of two, so that there is more room or less at the next hop. Three lines and two rounds of `getLoop` let a
number come again in every way two threads can cause.

What `console` says of the codec, in short: a text is shown as typed, or refused,
or cut at its end (with perhaps half a delimiter added), if neither it nor its
target contains `/?`; with `/?` it is shown otherwise, but alike at all hops
(`HopsAgree`). A list that is too long is refused, because `stoi` finds no number
where the origin should be, unless its text goes on with one after its first
character: then the beginning of the list is filed under that number. The name of
a user is never shortened. Numbers of messages repeat only when the store of
`inputLoop` falls between the load and the store of `getLoop`.

What the runs found the code does not do:

| run | against | in short |
|---|---|---|
| `ack_collision` | `server.h:91-95`, `client.h:145-148` | `getLoop` stores an old number, so two lines of one client get the same; an ACK erases the first message with its number, and the other is lost unseen |
| `disconnect` | `server.cpp:699` | only the first connection is ever examined, since `break` stands after the `if` |
| `reconnect` | `server.h:78-79` | the GET of a second session of a name is answered to the endpoint of the first, which may have ended |
| `stale_list` | `server.h:169-170` | an empty list is never sent, so a restarted server's old list stays with its neighbours |
| `held_list_race` (`HeldList`) | `server.cpp:423` | `pop_front` of the only held message, overtaken by `push_back` of another, writes pointers it had read before; the new message is no longer found |

A further one without a run: `client.cpp:124-125` says that a line without a
command is broadcast; `inputLoop` prints a hint and sends nothing (`TypeLine`). And
a line whose text is missing, as `/m bob`, sends bob the whole line (`ParsedLine`).

So the properties say when the code has them. `VanishingHasACause` excepts messages
that collide (`NoCollision`) and lists that were torn (`Orderly`): `ack_collision` and
`held_list_race` show what comes of each. `PassNeverStarves` excepts servers whose held
list was torn. `TablesConverge` excepts servers that nobody is connected to, as no
empty list is ever sent: after its clients have left, or after a restart
(`stale_list`), a server stands in the lists of others as it was. `RelayNeverReturns`
is for users who keep to one server (`SingleHome`): of a user who has a session on
either side of a server, one list is on the left and one on the right, and a message
that came from the left may be returned to it.

## 4. Fairness

`FairSpec` asks for:

- weak fairness of each step of `attemptForward` and `sendSyncPayloads`, and of
  `getLoop`: they are endless loops that sleep a fixed time, in threads of their
  own;
- that a datagram of a kind the network does not lose is received at last (weak
  fairness: it stays in flight until it is), and that one of a kind it may lose
  is received if it is sent again and again (strong fairness), per kind and
  endpoint. `listenLoopUDP` and `receiveLoop` are endless loops around a
  blocking receive.

Nothing is asked of users (`Start`, `inputLoop`, `Exit`), of `Restart` and
`Kill`, or of loss. `Delivered` is conditional on the addressee being online;
GET, answers, ACK and lists are sent again by the code and may be lost in
`delivery_lossy`; CONNECT, SEND and messages between servers are sent once, so
no delivery is claimed where they are lost.

## 5. What is proved

`ChatSystemProofs` proves, for every length of the line, every set of sessions,
every bound, and whatever is in `Lossy`, `Duplicating`, `Restarting`,
`Departing` and `Mortal` (assumptions: `NetworkAssumption`, `ServerAssumption`,
`ClientAssumption`, which say what sets the constants are members of):

1. **`TypeCorrect`** and **`PassesNeverStarve`**: `Spec => [](TypeOK /\ PassNeverStarves)`. One induction.
   Routing appends, or, to a torn list, may as well not (`AppendedList`,
   `RoutingTypes`); a sync round names existing servers (`SyncRound`). While the
   calls of a server have not overlapped on the held list, its size is its length,
   nothing but the pass itself takes from it, and the pass counts what it takes:
   so what it has left to take is there, and no server has crashed. `HeldList` shows
   that the exception is needed.
2. **`TruthInvariant`**: `Spec => [](TypeOK /\ Truth)`. No part of `Truth` is
   inductive alone: a hop is right because the lists are truthful, a list because
   the snapshot was, a snapshot because the registry is, an entry because the
   CONNECT was, and that because a session's datagrams go to the server it was
   started on, which depends on who answers it (`m_serverEndPoint` is
   overwritten by each receipt), which again depends on the registry and the
   mailboxes. What carries the argument over lost, repeated, late and stale data
   is that `Joined`, the servers a user has announced itself at, only grows
   (`JoinedGrows`). There is a frame lemma per variable (`ConnectionsFrame`, ...,
   which steps write it) and a step lemma per conjunct.
3. The conjuncts as theorems of their own: **`TablesAreTruthful`**,
   **`SyncsAlwaysFlowOutwards`**, **`RelaysGoHome`**, **`MailWaitsAtHome`**,
   **`RepliesAreRightful`**, **`RegistriesAreTruthful`**, and, by an induction of
   its own over the held list, the message in hand and the relays,
   **`RelaysStaySends`**: no server is ever sent a SERVER_SEND.
4. **`NoCircling`**: `SingleHome` implies `Spec => RelayNeverReturns`. A message
   that reached a server from one side has its addressee's only server on the
   other; the list that would send it back would be untrue.

`ServiceProofs` proves, under the same assumptions:

5. **`NothingIsInvented`** and **`SystemImplementsService`**:
   `Spec => ImplementsService`, the refinement of `MessageService`, in which
   nothing can be shown but what was submitted, to whom it was submitted for. A
   receipt is a `Show` only if the message was submitted, so the invariant
   `NothingInvented` says it of every message on its way: in a request, between
   servers, in hand, held, waiting or in an answer (`RequestsGenuine`,
   `ListsGenuine`). Routing retypes a message, so a message is compared under the
   type it was submitted with (`Genuine`, `Retyping`). `RoutingKeeps` proves once,
   for any set of messages closed under retyping, that routing leads to no
   others. Every step then is a `Submit` (`LineRefinesSubmit`: a session submits in the name
   of its own user, `SubmittedUnderOwnName`), a `Show` (`ReceiptRefinesShow`) or a
   stutter. `MessageService` asks nothing of numbers, since the code keeps to nothing.

`CustodyProofs` is about messages that are lost by the servers themselves:

6. **`MessagesVanishForTwoCauses`**: when no server is restarted, and the network
   neither loses nor repeats chat messages on their way to a mailbox
   (`NothingForgotten`; GETs, answers, ACKs and client lists may be lost and
   repeated, clients may leave, be killed and come back), `Spec =>
   []VanishingHasACause`: a message is in exactly one place until it is shown, as long
   as no two messages for users of one server were submitted under one number, by one
   session or by two (`NoCollision`), and no list was torn (`Orderly`). That each of
   these is enough to lose a message is shown by `ack_collision` and
   `held_list_race`; the theorem says there is no third cause.
   The places of a message are a set (`Copies`), and a message is `InCustody` if
   the set has one element, or none and the message was shown. Routing adds one
   place (`RoutingPlaces`) and its callers take one away (`RoutingStaysOne`); to
   take a message out of a list moves those behind it by one, so places go into
   places one by one (`ErasePlaces`, `TakePlaces`). What remains is the
   ACK. An ACK names a message its sender has shown (`AcksTruthful`), and what it
   erases waits for a user of that server and has the same number: without a
   collision, it is the same message (`AckShown`). `AcksTruthful` needs items 2 and 5.
   Both exceptions only ever come about and do not go away (`CollisionsStay`,
   `TearingStays`), which is what makes the implication inductive, and a server
   whose lists are in order does not crash (item 1).

`InputLineProofs` and `ConsoleProofs` prove, for all lines that are texts
(`InputsAssumption`) and however often `getLoop` runs:

7. **`NoLineIsExit`**: the text of a line is never `/exit`. A stream that is still
   good after `>>` has left off before a blank (`ExtractLeavesBlank`), so its
   rest starts with one; if it is not good, `chatInput` is the whole line, and if
   that is `/exit` its first word is no command (`ExitIsNoCommand`). Where
   something is found is the least of a set of indexes, which exists because `<` is
   well-founded on the naturals (`LeastIndex`). **`ExitIsUnreachable`** is
   `Spec => []ExitUnreachable` from it.
8. **`NumbersAreUniqueOutsideGets`**: `Spec => []NumbersRepeatOnlyDuringGet`. The
   invariant `NumbersInv` says that a number given outside of an interval between
   load and store of `getLoop` is at most the shared number and every copy of it a
   thread has loaded, and less than the shared number while `inputLoop` has stored
   but not yet sent. A store by `getLoop` can lower the shared number only to one more
   than a copy, which still is larger.
9. **`ConsoleTypeCorrect`**: `Spec => []TypeOK`. That `getLoop` runs no more often
   than it may is checked at its load and counted at its store, so the invariant
   adds that a copy that is not stored yet leaves a round to count (`TypeInv`).

`TextProofs`, `CodecProofs` and `WireProofs` prove what becomes of a text on its
way, for all texts, any number of servers, any list, and any length of the receive
buffer:

10. **`AllHopsAgree`**: `Spec => []HopsAgree`, what is shown is what the first
    server read. Cutting a datagram of which the first k fields were read before
    leaves these fields as they are (`FieldsAgain`): either the field ended at a
    delimiter, then it ends there again; or none was left in the buffer, then
    what was read is all of the buffer, and fills all of it again (`FieldAgain`).
    **`MessageAgain`** is this for messages. `WireProofs` carries it over the
    hops with `ChatInv`, which says that the text of a datagram after the first
    hop is that of the message server 1 has read, but for the type and the
    origin. The number must fit into the buffer: `CountInv` bounds it by the
    lines and rounds so far.
11. **`TextsStayIntact`**: `Spec => []TextIntegrity`, from the same invariant. A
    field without a delimiter is read as written (`FieldOfCut`) or, if its end is
    cut, up to there, perhaps with the first half of the delimiter after it
    (`FieldTooLong`); `HeaderRead` and `PayloadCutOff` are that for a whole
    message.
12. **`ListsAreCutBetweenNames`** and **`CutListsAreRefused`**:
    `Spec => []ListsOnlyShorten` and `Spec => []ListsWholeOrRefused`. Of a text of
    names that was cut anywhere, `viewServerSyncPayload` reads the first names of
    the list (**`NamesRead`**): after each character it has some of the names
    and the beginning of the next one (`ReadUpTo`, `ReadNext`). What is read as the
    origin of a list that was cut begins at its second character, so it is a
    number only if one stands there (`ListOrigin`, `NoNumberInCut`). `ListInv`
    says of each list filed or on its way that it is a beginning of the one that
    was sent.

Texts, numbers and lists are of any length, so these proofs are inductions over
data. They are done with sets in the place of predicates: the places up to which a
statement holds are a set that contains 0 and with k also k + 1 (`UpTo`), and a
recursive function is the one that takes one step per element (`Steps`). For
numbers, `DecimalIsNumber` is that induction: the value of the digits `to_string`
writes is the number, so `stoi` reads it again (`NumberText`).

The assumptions: `CodecAssumption`, `WireAssumption`, `InputsAssumption` and
`NameAssumption` say what the constants are members of. `ServerNameAssumption`
asks that no server's name contains the delimiter and that the names of two
neighbours and the number of a SYNC leave room for a list in the buffer (at most
seven characters each, and 20 digits, of 256 in the code), and `NumbersAssumption` that the numbers a client comes to
fit into the buffer with two delimiters and the type (20 digits at most in the
code). A number that is too long for an `int`, which `std::stoi` refuses, is read
here; the program refuses such a datagram, and all four properties are about what
is shown or filed, so it does less than the model allows.

Only model-checked: the liveness properties and all that concerns fairness
(`Delivered`, `TablesConverge`, `MessagesComeToRest`), which are out of the
prover's reach. Every safety property of a passing run is a theorem.

## 6. Not modelled, and the plan

Not modelled:

- Bluetooth (empty bodies), the mains (they read two values), the test main
  (no test), the server's console output, `m_timeOfLastActivity` (never read),
  SERVER_ACK and PING (never sent, and nothing is done on receipt);
- `processServerRelayMessage`: only a SERVER_SEND that reaches a server leads to it,
  and `RelaysStaySends` proves that none does;
- data races on the other containers, and readers of a list that is being changed.
  Without a lock, these may meet: `m_connectedClients`, changed by the listening thread and iterated by
  `attemptForward` and `sendSyncPayloads`; `m_messageList`, appended to by
  `attemptForward` while the listening thread answers a GET from it;
  `m_clientsServedByServerIndex`, assigned by the listening thread and by
  `sendSyncPayloads` while both others read it. For the vectors the outcome is
  reading freed storage, of which a model has nothing to say; for `m_messageList` it
  is one message too few in an answer, which the next GET makes good;
- numbers above 2147483647, which are written as 64 bits and refused by `stoi`
  (after 68 years of GETs);
- the end of the input, at which `inputLoop` no longer blocks.

Order of the plan:

1. `Network`, `Server`, `Client`, `ChatSystem`: routing, mailboxes, syncing.
2. `MessageService` and the refinement, the liveness runs.
3. Type correctness, truthfulness and `NoCircling` proved.
4. `Text`, `MessageCodec`, `Wire`: the codec over a small alphabet and several hops.
5. `InputLine`, `Console`: how a line is taken apart, and the shared number.
6. `HeldList`: one list at the grain of its pointers.
7. Proofs about `Console` and `InputLine`.
8. `ServiceProofs` and `CustodyProofs`: the refinement, and messages in one place.
9. `TextProofs`, `CodecProofs`, `WireProofs`: the codec, for all texts.
10. The shared number and calls that overlap in `Client` and `Server`, which had been
    in `Console` and `HeldList` alone.
11. Left: data races on the mailbox at the grain of `HeldList`; theorems about that
    grain, under which orders of steps no held message is lost; and a statement of
    how long messages for a user known on both sides of a server may be passed back
    and forth.
