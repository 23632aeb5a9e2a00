\* Two lines of alice, while her getLoop counts too; the calls of server 0 may
\* overlap; all but SEND, CONNECT and relays may be lost, GETs, answers and
\* acknowledgements arrive again.
SPECIFICATION Spec
CONSTANTS
  highestServerIndex = 1
  alice = alice
  bob = bob
  a1 = a1
  b1 = b1
  b2 = b2
  hello = hello
  bye = bye
  Blank = Blank
  Usernames = {alice, bob}
  Endpoints = {a1, b1}
  Payloads = {hello, bye}
  User <- UserOfSession
  Home <- BobAtTheRight
  Lines <- TwoLines
  Lossy = {"mt_CLIENT_GET", "mt_CLIENT_ACK", "mt_SERVER_SEND", "mt_SERVER_SYNC"}
  Duplicating = {"mt_CLIENT_GET", "mt_CLIENT_ACK", "mt_SERVER_SEND"}
  Restarting = {}
  Overlapping = {0}
  Departing = {}
  Mortal = {}
  MaxSequence <- AliceCounts
  MaxConnections = 2
  MaxMessages = 2
INVARIANTS
  VanishingHasACause
  PassNeverStarves
  RepliesRightful
