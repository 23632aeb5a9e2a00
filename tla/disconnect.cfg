\* Two users of one server, the second to connect leaves.
SPECIFICATION Spec
CONSTANTS
  highestServerIndex = 0
  alice = alice
  bob = bob
  a1 = a1
  b1 = b1
  b2 = b2
  hello = hello
  bye = bye
  Blank = Blank
  Usernames = {alice, bob}
  Endpoints = {a1, b1}
  Payloads = {hello, bye}
  User <- UserOfSession
  Home <- BobAtTheRight
  Lines <- OneLine
  Lossy = {}
  Duplicating = {}
  Restarting = {}
  Overlapping = {}
  Departing = {b1}
  Mortal = {}
  MaxSequence <- NobodyCounts
  MaxConnections = 2
  MaxMessages = 2
PROPERTIES
  DisconnectRemoves
