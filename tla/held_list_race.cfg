\* attemptForward takes the only message while listenLoopUDP appends another.  The
\* process may end.
SPECIFICATION Spec
CONSTANTS
  Messages = {m1, m2}
  End = End
CHECK_DEADLOCK FALSE
INVARIANTS
  HeldMessagesKept
