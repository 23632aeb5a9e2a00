\* Three servers, the middle one may restart; messages between servers may be
\* lost, client lists may arrive again.
SPECIFICATION Spec
CONSTANTS
  highestServerIndex = 2
  alice = alice
  bob = bob
  a1 = a1
  b1 = b1
  b2 = b2
  hello = hello
  bye = bye
  Blank = Blank
  Usernames = {alice, bob}
  Endpoints = {a1, b1}
  Payloads = {hello, bye}
  User <- UserOfSession
  Home <- BobAtTheRight
  Lines <- OneLine
  Lossy = {"relay"}
  Duplicating = {"mt_SERVER_SYNC"}
  Restarting = {1}
  Overlapping = {}
  Departing = {}
  Mortal = {}
  MaxSequence <- NobodyCounts
  MaxConnections = 2
  MaxMessages = 2
INVARIANTS
  TypeOK
  TablesTruthful
  SyncsFlowOutwards
  RelayTowardsHome
  RelaysAreSends
PROPERTIES
  RelayNeverReturns
