\* Two servers, everything that is sent again may be lost.
SPECIFICATION FairSpec
CONSTANTS
  highestServerIndex = 1
  alice = alice
  bob = bob
  a1 = a1
  b1 = b1
  b2 = b2
  hello = hello
  bye = bye
  Blank = Blank
  Usernames = {alice, bob}
  Endpoints = {a1, b1}
  Payloads = {hello, bye}
  User <- UserOfSession
  Home <- BobAtTheRight
  Lines <- OneLine
  Lossy = {"mt_CLIENT_GET", "mt_CLIENT_ACK", "mt_SERVER_SEND", "mt_SERVER_SYNC"}
  Duplicating = {}
  Restarting = {}
  Overlapping = {}
  Departing = {}
  Mortal = {}
  MaxSequence <- NobodyCounts
  MaxConnections = 2
  MaxMessages = 2
PROPERTIES
  Delivered
