\* bob has a session at both ends of a line of two, one may be killed; messages
\* between the servers may arrive again.
SPECIFICATION Spec
CONSTANTS
  highestServerIndex = 1
  alice = alice
  bob = bob
  a1 = a1
  b1 = b1
  b2 = b2
  hello = hello
  bye = bye
  Blank = Blank
  Usernames = {alice, bob}
  Endpoints = {a1, b1, b2}
  Payloads = {hello, bye}
  User <- UserOfSession
  Home <- BobAtTheRight
  Lines <- OneLine
  Lossy = {}
  Duplicating = {"relay"}
  Restarting = {}
  Overlapping = {}
  Departing = {}
  Mortal = {b1}
  MaxSequence <- NobodyCounts
  MaxConnections = 2
  MaxMessages = 2
INVARIANTS
  RegistryTruthful
  MailboxAtHome
PROPERTIES
  ImplementsService
