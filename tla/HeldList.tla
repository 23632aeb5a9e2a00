------------------------------ MODULE HeldList ------------------------------
(***************************************************************************)
(* m_messageListOfUnassociatedClients, seen closer than in module Server:  *)
(* a std::list that two threads change without a lock.  listenLoopUDP      *)
(* appends; attemptForward takes the front, and appends again what it      *)
(* could not route.  A step is one access to the list's shared pointers or *)
(* to its size, as libstdc++ makes them: the list is circular, and End is  *)
(* the node without a message that the list object itself contains.  The   *)
(* size is changed in one step here, and does change in one or in two in a *)
(* build; the module is about the pointers.                                *)
(***************************************************************************)
EXTENDS Integers, FiniteSets

CONSTANTS Messages,  \* messages, each with the one node it is ever kept in
          End

VARIABLES
  next, prev,  \* the pointers of every node
  size,        \* size()
  pc,          \* where each thread is
  node,        \* the node each thread works on
  removed,     \* attemptForward: the pointers that unhook has read
  toCheck,     \* attemptForward: currentMessageListSize - i
  held         \* history: messages whose push_back ended, and not taken since

vars == <<next, prev, size, pc, node, removed, toCheck, held>>

Threads == {"listenLoopUDP", "attemptForward"}

Nodes == Messages \cup {End}

Init ==
  /\ next = [n \in Nodes |-> End]
  /\ prev = [n \in Nodes |-> End]
  /\ size = 0
  /\ pc = [t \in Threads |-> "idle"]
  /\ node = [t \in Threads |-> End]
  /\ removed = [next |-> End, prev |-> End]
  /\ toCheck = 0
  /\ held = {}

Goto(t, place) == pc' = [pc EXCEPT ![t] = place]

(***************************************************************************)
(* push_back: the node gets its pointers, is hooked in before End, and the *)
(* size is increased.                                                      *)
(***************************************************************************)
\* A message for an unknown client comes in.
Receive(m) ==
  /\ pc["listenLoopUDP"] = "idle"
  /\ m \notin held
  /\ \A t \in Threads : node[t] # m
  /\ node' = [node EXCEPT !["listenLoopUDP"] = m]
  /\ Goto("listenLoopUDP", "push")
  /\ UNCHANGED <<next, prev, size, removed, toCheck, held>>

SetPointers(t) ==
  /\ pc[t] = "push"
  /\ next' = [next EXCEPT ![node[t]] = End]
  /\ prev' = [prev EXCEPT ![node[t]] = prev[End]]
  /\ Goto(t, "hook")
  /\ UNCHANGED <<size, node, removed, toCheck, held>>

HookNext(t) ==
  /\ pc[t] = "hook"
  /\ next' = [next EXCEPT ![prev[node[t]]] = node[t]]
  /\ Goto(t, "hookEnd")
  /\ UNCHANGED <<prev, size, node, removed, toCheck, held>>

HookPrev(t) ==
  /\ pc[t] = "hookEnd"
  /\ prev' = [prev EXCEPT ![End] = node[t]]
  /\ Goto(t, "count")
  /\ UNCHANGED <<next, size, node, removed, toCheck, held>>

EndPush(t) ==
  /\ pc[t] = "count"
  /\ size' = size + 1
  /\ held' = held \cup {node[t]}
  /\ node' = [node EXCEPT ![t] = End]
  /\ Goto(t, "idle")
  /\ UNCHANGED <<next, prev, removed, toCheck>>

(***************************************************************************)
(* attemptForward: front and pop_front, then routing.                      *)
(***************************************************************************)
BeginPass ==
  /\ pc["attemptForward"] = "idle"
  /\ toCheck = 0
  /\ toCheck' = size
  /\ UNCHANGED <<next, prev, size, pc, node, removed, held>>

\* The front is copied; pop_front decreases the size first.
TakeFront ==
  /\ pc["attemptForward"] = "idle"
  /\ toCheck > 0
  /\ next[End] # End
  /\ node' = [node EXCEPT !["attemptForward"] = next[End]]
  /\ held' = held \ {next[End]}
  /\ toCheck' = toCheck - 1
  /\ size' = size - 1
  /\ Goto("attemptForward", "pop")
  /\ UNCHANGED <<next, prev, removed>>

\* The size may say that there is a front where the list is empty.  Then End is
\* taken for a message, and pop_front gives it, a part of the server object,
\* back to the allocator: the process ends, at the latest there.
TakeMissingFront ==
  /\ pc["attemptForward"] = "idle"
  /\ toCheck > 0
  /\ next[End] = End
  /\ pc' = [t \in Threads |-> "ended"]
  /\ UNCHANGED <<next, prev, size, node, removed, toCheck, held>>

ReadPointers ==
  /\ pc["attemptForward"] = "pop"
  /\ LET n == node["attemptForward"] IN
       removed' = [next |-> next[n], prev |-> prev[n]]
  /\ Goto("attemptForward", "unhook")
  /\ UNCHANGED <<next, prev, size, node, toCheck, held>>

UnhookNext ==
  /\ pc["attemptForward"] = "unhook"
  /\ next' = [next EXCEPT ![removed.prev] = removed.next]
  /\ Goto("attemptForward", "unhookPrev")
  /\ UNCHANGED <<prev, size, node, removed, toCheck, held>>

UnhookPrev ==
  /\ pc["attemptForward"] = "unhookPrev"
  /\ prev' = [prev EXCEPT ![removed.next] = removed.prev]
  /\ Goto("attemptForward", "route")
  /\ UNCHANGED <<next, size, node, removed, toCheck, held>>

\* The message is put in a mailbox or forwarded, or it is held again.
RouteAgain ==
  /\ pc["attemptForward"] = "route"
  /\ \/ /\ node' = [node EXCEPT !["attemptForward"] = End]
        /\ Goto("attemptForward", "idle")
     \/ /\ Goto("attemptForward", "push")
        /\ UNCHANGED node
  /\ UNCHANGED <<next, prev, size, removed, toCheck, held>>

Next ==
  \/ \E m \in Messages : Receive(m)
  \/ \E t \in Threads :
       SetPointers(t) \/ HookNext(t) \/ HookPrev(t) \/ EndPush(t)
  \/ BeginPass \/ TakeFront \/ TakeMissingFront
  \/ ReadPointers \/ UnhookNext \/ UnhookPrev \/ RouteAgain

Spec == Init /\ [][Next]_vars

-----------------------------------------------------------------------------
\* The nodes that are found from the front of the list.
Reached ==
  LET after[k \in 0 .. Cardinality(Nodes)] ==
        IF k = 0 THEN End ELSE next[after[k - 1]]
  IN {after[k] : k \in DOMAIN after}

\* server.cpp:423: "if we make it here, as per the requirements, we hold on to
\* the message"; so when no call is under way, every message that was appended
\* and not taken is found in the list.
HeldMessagesKept ==
  (\A t \in Threads : pc[t] = "idle") => held \subseteq Reached
=============================================================================
