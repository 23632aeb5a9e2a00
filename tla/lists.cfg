\* Two servers, two users of the left one, the second may leave; client lists
\* may be lost.
SPECIFICATION FairSpec
CONSTANTS
  highestServerIndex = 1
  alice = alice
  bob = bob
  a1 = a1
  b1 = b1
  b2 = b2
  hello = hello
  bye = bye
  Blank = Blank
  Usernames = {alice, bob}
  Endpoints = {a1, b2}
  Payloads = {hello, bye}
  User <- UserOfSession
  Home <- BobAtTheRight
  Lines <- NoLines
  Lossy = {"mt_SERVER_SYNC"}
  Duplicating = {}
  Restarting = {}
  Overlapping = {}
  Departing = {b2}
  Mortal = {}
  MaxSequence <- NobodyCounts
  MaxConnections = 2
  MaxMessages = 2
PROPERTIES
  TablesConverge
