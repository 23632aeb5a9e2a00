\* bob's client is started again on the same server, whether or not the first
\* was killed.
SPECIFICATION Spec
CONSTANTS
  highestServerIndex = 0
  alice = alice
  bob = bob
  a1 = a1
  b1 = b1
  b2 = b2
  hello = hello
  bye = bye
  Blank = Blank
  Usernames = {alice, bob}
  Endpoints = {a1, b1, b2}
  Payloads = {hello, bye}
  User <- UserOfSession
  Home <- BobAtTheRight
  Lines <- OneLine
  Lossy = {}
  Duplicating = {}
  Restarting = {}
  Overlapping = {}
  Departing = {}
  Mortal = {b1}
  MaxSequence <- NobodyCounts
  MaxConnections = 3
  MaxMessages = 2
PROPERTIES
  GetAnswersTheAsker
