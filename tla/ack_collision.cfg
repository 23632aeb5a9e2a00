\* Two lines of one sender, while getLoop counts too.
SPECIFICATION Spec
CONSTANTS
  highestServerIndex = 0
  alice = alice
  bob = bob
  a1 = a1
  b1 = b1
  b2 = b2
  hello = hello
  bye = bye
  Blank = Blank
  Usernames = {alice, bob}
  Endpoints = {a1, b1}
  Payloads = {hello, bye}
  User <- UserOfSession
  Home <- BobAtTheRight
  Lines <- TwoLines
  Lossy = {}
  Duplicating = {}
  Restarting = {}
  Overlapping = {}
  Departing = {}
  Mortal = {}
  MaxSequence <- AliceCounts
  MaxConnections = 2
  MaxMessages = 2
INVARIANTS
  NoMessageVanishes
