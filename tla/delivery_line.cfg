\* Three servers, no loss: the lists settle and the message arrives.
SPECIFICATION FairSpec
CONSTANTS
  highestServerIndex = 2
  alice = alice
  bob = bob
  a1 = a1
  b1 = b1
  b2 = b2
  hello = hello
  bye = bye
  Blank = Blank
  Usernames = {alice, bob}
  Endpoints = {a1, b1}
  Payloads = {hello, bye}
  User <- UserOfSession
  Home <- BobAtTheRight
  Lines <- OneLine
  Lossy = {}
  Duplicating = {}
  Restarting = {}
  Overlapping = {}
  Departing = {}
  Mortal = {}
  MaxSequence <- NobodyCounts
  MaxConnections = 2
  MaxMessages = 2
PROPERTIES
  Delivered
  MessagesComeToRest
  TablesConverge
