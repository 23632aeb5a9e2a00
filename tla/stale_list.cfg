\* Server 1 restarts after bob has connected to it.
SPECIFICATION FairSpec
CONSTANTS
  highestServerIndex = 1
  alice = alice
  bob = bob
  a1 = a1
  b1 = b1
  b2 = b2
  hello = hello
  bye = bye
  Blank = Blank
  Usernames = {alice, bob}
  Endpoints = {a1, b1}
  Payloads = {hello, bye}
  User <- UserOfSession
  Home <- BobAtTheRight
  Lines <- OneLine
  Lossy = {}
  Duplicating = {}
  Restarting = {1}
  Overlapping = {}
  Departing = {}
  Mortal = {}
  MaxSequence <- NobodyCounts
  MaxConnections = 2
  MaxMessages = 2
PROPERTIES
  ListsSettleAfterRestarts
