--------------------------- MODULE CustodyProofs ---------------------------
(***************************************************************************)
(* When the servers lose a message.  It is in one place until its          *)
(* addressee has shown it, unless two messages for users of one server     *)
(* were sent under one number, so that an acknowledgement of the one may   *)
(* remove the other, or two threads have changed one list at once.         *)
(***************************************************************************)
EXTENDS ServiceProofs, FiniteSetTheorems

\* A message is in one place, or in none because it has been shown.
InCustody(m) ==
  \/ \E c : Copies(m) = {c}
  \/ Copies(m) = {} /\ Shown(m)

AllInCustody == \A e \in Endpoints : \A m \in submitted[e] : InCustody(m)

\* An acknowledgement on its way names a message that a session of the
\* acknowledging user has shown.
AcksTruthful ==
  \A d \in requests : d.message.type = "mt_CLIENT_ACK" =>
    \E e \in Endpoints : \E m \in submitted[e] :
      /\ m.sequence = d.message.sequence
      /\ m.destination = User[d.from]
      /\ Shown(m)

Custody ==
  /\ AcksTruthful
  /\ NoCollision /\ Orderly => AllInCustody

-----------------------------------------------------------------------------
(***************************************************************************)
(* Where the copies of a message are.                                      *)
(***************************************************************************)

\* The copies a client or attemptForward has in hand.
Carried(m) ==
  {<<"request", d>> : d \in {x \in requests : x.message = m}} \cup
  {<<"in hand", s>> : s \in {x \in Servers : inHand[x] = <<m>>}}

\* The copies in the servers' lists, and among the relays of "flight".
Kept(flight, m) ==
  {<<"relay", d>> : d \in {x \in flight : x.message = m}} \cup
  UNION {{<<"held", s, k>> : k \in {i \in DOMAIN unassociated[s] :
                                      unassociated[s][i] = m}} \cup
         {<<"waiting", s, k>> : k \in {i \in DOMAIN messageList[s] :
                                         IsChat(messageList[s][i], m)}} :
            s \in Servers}

\* A message is carried or kept.
LEMMA CarriedOrKept == \A m : Copies(m) = Carried(m) \cup Kept(relays, m)
  BY DEF Copies, Carried, Kept

\* What a kept copy is.
LEMMA KeptForms ==
  ASSUME NEW flight, NEW m, NEW c
  PROVE  c \in Kept(flight, m) <=>
           \/ \E d \in flight : d.message = m /\ c = <<"relay", d>>
           \/ \E s \in Servers : \E k \in DOMAIN unassociated[s] :
                unassociated[s][k] = m /\ c = <<"held", s, k>>
           \/ \E s \in Servers : \E k \in DOMAIN messageList[s] :
                IsChat(messageList[s][k], m) /\ c = <<"waiting", s, k>>
  BY DEF Kept

\* Appending to a list of a server leaves what was in the lists where it was.
LEMMA AppendAt ==
  ASSUME NEW lists \in [Servers -> Seq(DataMessage)], NEW s \in Servers,
         NEW x \in DataMessage, NEW after,
         after = [lists EXCEPT ![s] = Append(lists[s], x)]
  PROVE  /\ Len(lists[s]) + 1 \in DOMAIN after[s]
         /\ after[s][Len(lists[s]) + 1] = x
         /\ \A t \in Servers : \A k \in DOMAIN lists[t] :
              k \in DOMAIN after[t] /\ after[t][k] = lists[t][k]
         /\ \A t \in Servers : \A k \in DOMAIN after[t] :
              k \in DOMAIN lists[t] \/ (t = s /\ k = Len(lists[s]) + 1)
<1>1. lists[s] \in Seq(DataMessage) /\ after[s] = Append(lists[s], x)
  OBVIOUS
<1>2. /\ Append(lists[s], x) \in Seq(DataMessage)
      /\ Len(Append(lists[s], x)) = Len(lists[s]) + 1
      /\ \A k \in 1 .. Len(lists[s]) : Append(lists[s], x)[k] = lists[s][k]
      /\ Append(lists[s], x)[Len(lists[s]) + 1] = x
  BY <1>1, AppendProperties
<1>3. /\ DOMAIN lists[s] = 1 .. Len(lists[s]) /\ Len(lists[s]) \in Nat
      /\ DOMAIN after[s] = 1 .. Len(lists[s]) + 1
  BY <1>1, <1>2, LenProperties
<1>4. \A t \in Servers : t # s => after[t] = lists[t]
  OBVIOUS
<1>5. /\ Len(lists[s]) + 1 \in DOMAIN after[s]
      /\ after[s][Len(lists[s]) + 1] = x
      /\ \A k \in DOMAIN lists[s] :
           k \in DOMAIN after[s] /\ after[s][k] = lists[s][k]
      /\ \A k \in DOMAIN after[s] :
           k \in DOMAIN lists[s] \/ k = Len(lists[s]) + 1
  BY <1>1, <1>2, <1>3
<1> QED BY <1>4, <1>5

\* IsChat recognises a chat message under whatever type it is kept.
LEMMA Recognised ==
  ASSUME NEW x \in SendMessage, NEW m \in SendMessage,
         NEW type \in MessageTypes
  PROVE  /\ setMessageType(x, type) \in DataMessage
         /\ IsChat(setMessageType(x, type), m) <=> x = m
         /\ setMessageType(x, "mt_CLIENT_SEND") = x
<1>1. x \in DataMessage /\ x.type = "mt_CLIENT_SEND"
  BY DEF SendMessage
<1> QED BY <1>1, Retyping DEF IsChat

\* The step puts x at the place p, and moves no other message that is kept.
FiledAt(p, x, rest) ==
  \A m \in SendMessage :
    Kept(relays, m)' = Kept(rest, m) \cup (IF m = x THEN {p} ELSE {})

\* processClientSendMessage puts the message at hand into one place: a relay,
\* the messages that wait for a client, or those of nobody.
LEMMA RoutingPlaces ==
  ASSUME TypeOK, Orderly, NEW s \in Servers, NEW x \in SendMessage, NEW rest,
         processClientSendMessage(s, x, rest)
  PROVE  \E p : FiledAt(p, x, rest)
<1>1. /\ unassociated \in [Servers -> Seq(DataMessage)]
      /\ messageList \in [Servers -> Seq(DataMessage)]
  BY DEF TypeOK, ServerTypeOK
<1>2. "mt_SERVER_SEND" \in MessageTypes
  BY DEF MessageTypes
<1>3. ASSUME NEW t, relays' = rest \cup Forwarded(s, t, x), UNCHANGED listVars
      PROVE  \E p : FiledAt(p, x, rest)
  <2> DEFINE d == [to |-> t, from |-> s, message |-> x]
  <2>1. relays' = rest \cup {d} /\ d.message = x
    BY <1>3 DEF Forwarded
  <2> HIDE DEF d
  <2>2. ASSUME NEW m \in SendMessage
        PROVE  Kept(relays, m)' =
                 Kept(rest, m) \cup (IF m = x THEN {<<"relay", d>>} ELSE {})
    BY <1>3, <2>1 DEF Kept, listVars
  <2> QED BY <2>2 DEF FiledAt
<1>4. CASE addToMessageList(s, x) /\ relays' = rest /\ UNCHANGED unassociated
  <2> DEFINE mail == setMessageType(x, "mt_SERVER_SEND")
             last == Len(messageList[s]) + 1
             p == <<"waiting", s, last>>
  <2>1. messageList' = [messageList EXCEPT ![s] = Append(messageList[s], mail)]
    BY <1>4 DEF addToMessageList, Appended, Orderly
  <2>2. /\ mail \in DataMessage
        /\ \A m \in SendMessage : IsChat(mail, m) <=> x = m
    BY <1>2, Recognised
  <2> HIDE DEF mail
  <2>3. /\ last \in DOMAIN messageList'[s]
        /\ messageList'[s][last] = mail
        /\ \A t \in Servers : \A k \in DOMAIN messageList[t] :
             /\ k \in DOMAIN messageList'[t]
             /\ messageList'[t][k] = messageList[t][k]
        /\ \A t \in Servers : \A k \in DOMAIN messageList'[t] :
             k \in DOMAIN messageList[t] \/ (t = s /\ k = last)
    BY <1>1, <2>1, <2>2, AppendAt
  <2> HIDE DEF last
  <2>4. ASSUME NEW m \in SendMessage, NEW c
        PROVE  c \in Kept(relays, m)'
                 <=> c \in Kept(rest, m) \/ (m = x /\ c = p)
    <3>1. c \in Kept(relays, m)' <=>
            \/ \E d \in rest : d.message = m /\ c = <<"relay", d>>
            \/ \E t \in Servers : \E k \in DOMAIN unassociated[t] :
                 unassociated[t][k] = m /\ c = <<"held", t, k>>
            \/ \E t \in Servers : \E k \in DOMAIN messageList'[t] :
                 IsChat(messageList'[t][k], m) /\ c = <<"waiting", t, k>>
      BY <1>4 DEF Kept, IsChat
    <3>2. (\E t \in Servers : \E k \in DOMAIN messageList'[t] :
             IsChat(messageList'[t][k], m) /\ c = <<"waiting", t, k>>)
          <=> \/ \E t \in Servers : \E k \in DOMAIN messageList[t] :
                   IsChat(messageList[t][k], m) /\ c = <<"waiting", t, k>>
              \/ m = x /\ c = p
      BY <2>2, <2>3
    <3> QED BY <3>1, <3>2, KeptForms
  <2>5. ASSUME NEW m \in SendMessage
        PROVE  Kept(relays, m)' =
                 Kept(rest, m) \cup (IF m = x THEN {p} ELSE {})
    BY <2>4
  <2> QED BY <2>5 DEF FiledAt
<1>5. CASE addToMessageListOfUnassociatedClients(s, x) /\ relays' = rest
           /\ UNCHANGED messageList
  <2> DEFINE last == Len(unassociated[s]) + 1
             p == <<"held", s, last>>
  <2>1. unassociated' = [unassociated EXCEPT ![s] = Append(unassociated[s], x)]
    BY <1>2, <1>5, Recognised
    DEF addToMessageListOfUnassociatedClients, Appended, Orderly
  <2>2. x \in DataMessage
    BY DEF SendMessage
  <2>3. /\ last \in DOMAIN unassociated'[s]
        /\ unassociated'[s][last] = x
        /\ \A t \in Servers : \A k \in DOMAIN unassociated[t] :
             /\ k \in DOMAIN unassociated'[t]
             /\ unassociated'[t][k] = unassociated[t][k]
        /\ \A t \in Servers : \A k \in DOMAIN unassociated'[t] :
             k \in DOMAIN unassociated[t] \/ (t = s /\ k = last)
    BY <1>1, <2>1, <2>2, AppendAt
  <2> HIDE DEF last
  <2>4. ASSUME NEW m \in SendMessage, NEW c
        PROVE  c \in Kept(relays, m)'
                 <=> c \in Kept(rest, m) \/ (m = x /\ c = p)
    <3>1. c \in Kept(relays, m)' <=>
            \/ \E d \in rest : d.message = m /\ c = <<"relay", d>>
            \/ \E t \in Servers : \E k \in DOMAIN unassociated'[t] :
                 unassociated'[t][k] = m /\ c = <<"held", t, k>>
            \/ \E t \in Servers : \E k \in DOMAIN messageList[t] :
                 IsChat(messageList[t][k], m) /\ c = <<"waiting", t, k>>
      BY <1>5 DEF Kept, IsChat
    <3>2. (\E t \in Servers : \E k \in DOMAIN unassociated'[t] :
             unassociated'[t][k] = m /\ c = <<"held", t, k>>)
          <=> \/ \E t \in Servers : \E k \in DOMAIN unassociated[t] :
                   unassociated[t][k] = m /\ c = <<"held", t, k>>
              \/ m = x /\ c = p
      BY <2>3
    <3> QED BY <3>1, <3>2, KeptForms
  <2>5. ASSUME NEW m \in SendMessage
        PROVE  Kept(relays, m)' =
                 Kept(rest, m) \cup (IF m = x THEN {p} ELSE {})
    BY <2>4
  <2> QED BY <2>5 DEF FiledAt
<1> QED BY <1>3, <1>4, <1>5 DEF processClientSendMessage

-----------------------------------------------------------------------------
(***************************************************************************)
(* What taking a message out of a list does to the places of the others.   *)
(***************************************************************************)

\* Where the message at i was before the one at k was taken out.
Skip(k, i) == IF i < k THEN i ELSE i + 1

\* "after" is the list without the message at k.
Without(list, k, after) ==
  /\ DOMAIN after = 1 .. Len(list) - 1
  /\ \A i \in 1 .. Len(list) - 1 : after[i] = list[Skip(k, i)]

\* std::list::erase and pop_front close the gap and keep the order.
LEMMA ErasedAt ==
  ASSUME NEW S, NEW list \in Seq(S), NEW k \in DOMAIN list
  PROVE  Without(list, k, Erase(list, k))
<1> DEFINE front == SubSeq(list, 1, k - 1)
           back == SubSeq(list, k + 1, Len(list))
<1>1. k \in 1 .. Len(list) /\ Len(list) \in Nat
  BY LenProperties
<1>2. /\ front \in Seq(S)
      /\ Len(front) = k - 1
      /\ \A i \in 1 .. k - 1 : front[i] = list[i]
  BY <1>1, SubSeqProperties
<1>3. /\ back \in Seq(S)
      /\ Len(back) = Len(list) - k
      /\ \A i \in 1 .. Len(list) - k : back[i] = list[k + i]
  BY <1>1, SubSeqProperties
<1>4. Erase(list, k) = front \o back
  BY DEF Erase
<1> HIDE DEF front, back
<1>5. /\ front \o back \in Seq(S)
      /\ Len(front \o back) = Len(front) + Len(back)
      /\ \A i \in 1 .. Len(front) + Len(back) :
           (front \o back)[i] = IF i <= Len(front) THEN front[i]
                                ELSE back[i - Len(front)]
  BY <1>2, <1>3, ConcatProperties
<1>6. DOMAIN Erase(list, k) = 1 .. Len(list) - 1
  <2>1. Len(front) + Len(back) = Len(list) - 1
    BY <1>1, <1>2, <1>3
  <2>2. DOMAIN (front \o back) = 1 .. Len(front \o back)
    BY <1>5, LenProperties
  <2> QED BY <1>4, <1>5, <2>1, <2>2
<1>7. ASSUME NEW i \in 1 .. Len(list) - 1
      PROVE  Erase(list, k)[i] = list[Skip(k, i)]
  <2>1. i \in 1 .. Len(front) + Len(back)
    BY <1>1, <1>2, <1>3
  <2>2. Erase(list, k)[i] = IF i <= k - 1 THEN front[i] ELSE back[i - (k - 1)]
    BY <1>2, <1>4, <1>5, <2>1
  <2>3. CASE i < k
    BY <1>1, <1>2, <2>1, <2>2, <2>3 DEF Skip
  <2>4. CASE ~(i < k)
    <3>1. i - (k - 1) \in 1 .. Len(list) - k /\ k + (i - (k - 1)) = i + 1
      BY <1>1, <2>1, <2>4
    <3>2. back[i - (k - 1)] = list[k + (i - (k - 1))]
      BY <1>3, <3>1
    <3>3. Erase(list, k)[i] = back[i - (k - 1)]
      BY <1>1, <2>1, <2>2, <2>4
    <3> QED BY <2>4, <3>1, <3>2, <3>3 DEF Skip
  <2> QED BY <2>3, <2>4
<1> QED BY <1>6, <1>7 DEF Without

\* pop_front is the erasure of the first.
LEMMA TailAt ==
  ASSUME NEW S, NEW list \in Seq(S), list # <<>>
  PROVE  /\ 1 \in DOMAIN list
         /\ Head(list) = list[1]
         /\ Without(list, 1, Tail(list))
<1>1. /\ Tail(list) \in Seq(S)
      /\ Len(Tail(list)) = Len(list) - 1
      /\ \A i \in 1 .. Len(Tail(list)) : Tail(list)[i] = list[i + 1]
      /\ Head(list) = list[1]
  BY HeadTailProperties
<1>2. /\ DOMAIN Tail(list) = 1 .. Len(list) - 1
      /\ DOMAIN list = 1 .. Len(list) /\ Len(list) \in Nat /\ Len(list) # 0
  BY <1>1, LenProperties, EmptySeq
<1>3. \A i \in 1 .. Len(list) - 1 : Skip(1, i) = i + 1
  BY <1>2 DEF Skip
<1> QED BY <1>1, <1>2, <1>3 DEF Without

\* Every message but the one taken out has one place afterwards.
LEMMA Places ==
  ASSUME NEW S, NEW list \in Seq(S), NEW k \in DOMAIN list, NEW after,
         Without(list, k, after)
  PROVE  /\ \A i \in DOMAIN after : /\ Skip(k, i) \in DOMAIN list \ {k}
                                    /\ after[i] = list[Skip(k, i)]
         /\ \A j \in DOMAIN list \ {k} :
              \E i \in DOMAIN after : Skip(k, i) = j
         /\ \A i, j \in DOMAIN after : Skip(k, i) = Skip(k, j) => i = j
<1>1. /\ DOMAIN list = 1 .. Len(list) /\ Len(list) \in Nat
      /\ DOMAIN after = 1 .. Len(list) - 1
      /\ \A i \in 1 .. Len(list) - 1 : after[i] = list[Skip(k, i)]
  BY LenProperties DEF Without
<1>2. \A i \in DOMAIN after : Skip(k, i) \in DOMAIN list \ {k}
  BY <1>1 DEF Skip
<1>3. ASSUME NEW j \in DOMAIN list \ {k}
      PROVE  \E i \in DOMAIN after : Skip(k, i) = j
  <2>1. CASE j < k
    BY <1>1, <2>1 DEF Skip
  <2>2. CASE j > k
    <3>1. j - 1 \in DOMAIN after /\ Skip(k, j - 1) = j
      BY <1>1, <2>2 DEF Skip
    <3> QED BY <3>1
  <2> QED BY <1>1, <2>1, <2>2
<1>4. \A i, j \in DOMAIN after : Skip(k, i) = Skip(k, j) => i = j
  BY <1>1 DEF Skip
<1> QED BY <1>1, <1>2, <1>3, <1>4

\* The chat messages among the requests are the same.
ChatUnchanged ==
  \A d : d.message \in SendMessage => (d \in requests <=> d \in requests')

\* An acknowledgement removes one copy of one message; the messages behind it
\* move up, and each of them is still in one place.
LEMMA ErasePlaces ==
  ASSUME TypeOK, NEW s \in Servers, NEW k \in DOMAIN messageList[s],
         messageList' = [messageList EXCEPT ![s] = Erase(messageList[s], k)],
         ChatUnchanged, UNCHANGED <<relays, unassociated, inHand>>,
         NEW m \in SendMessage
  PROVE  /\ Copies(m) = {} => Copies(m)' = {}
         /\ Copies(m) = {<<"waiting", s, k>>} => Copies(m)' = {}
         /\ \A c : Copies(m) = {c} /\ c # <<"waiting", s, k>>
                   => \E d : Copies(m)' = {d}
<1> DEFINE list == messageList[s]
           after == messageList'[s]
           Waiting(c) == \E i \in Int : c = <<"waiting", s, i>>
<1>1. messageList \in [Servers -> Seq(DataMessage)]
  BY DEF TypeOK, ServerTypeOK
<1>2. /\ list \in Seq(DataMessage) /\ Without(list, k, after)
      /\ \A t \in Servers : t # s => messageList'[t] = messageList[t]
  BY <1>1, ErasedAt
<1>3. /\ \A i \in DOMAIN after : /\ Skip(k, i) \in DOMAIN list \ {k}
                                 /\ after[i] = list[Skip(k, i)]
      /\ \A j \in DOMAIN list \ {k} : \E i \in DOMAIN after : Skip(k, i) = j
      /\ \A i, j \in DOMAIN after : Skip(k, i) = Skip(k, j) => i = j
  BY <1>2, Places
<1>4. DOMAIN list \subseteq Int /\ DOMAIN after \subseteq Int
  BY <1>2, LenProperties DEF Without
<1>5. ASSUME NEW c, ~Waiting(c)
      PROVE  c \in Copies(m)' <=> c \in Copies(m)
  <2>1. c \in Carried(m)' <=> c \in Carried(m)
    BY DEF Carried, ChatUnchanged
  <2>2. ASSUME NEW t \in Servers, NEW i, c = <<"waiting", t, i>>
        PROVE  i \in DOMAIN messageList[t] \cup DOMAIN messageList'[t]
                 => messageList'[t] = messageList[t]
    BY <1>2, <1>4, <1>5, <2>2
  <2>3. c \in Kept(relays, m)' <=>
          \/ \E d \in relays : d.message = m /\ c = <<"relay", d>>
          \/ \E t \in Servers : \E i \in DOMAIN unassociated[t] :
               unassociated[t][i] = m /\ c = <<"held", t, i>>
          \/ \E t \in Servers : \E i \in DOMAIN messageList'[t] :
               IsChat(messageList'[t][i], m) /\ c = <<"waiting", t, i>>
    BY DEF Kept, IsChat
  <2>4. c \in Kept(relays, m)' <=> c \in Kept(relays, m)
    BY <2>2, <2>3, KeptForms
  <2>5. Copies(m)' = Carried(m)' \cup Kept(relays, m)'
    BY CarriedOrKept DEF Copies, Carried, Kept, IsChat
  <2> QED BY <2>1, <2>4, <2>5, CarriedOrKept
<1>6. \A i : <<"waiting", s, i>> \in Copies(m)
               <=> i \in DOMAIN list /\ IsChat(list[i], m)
  BY DEF Copies
<1>7. \A i : <<"waiting", s, i>> \in Copies(m)'
               <=> i \in DOMAIN after /\ IsChat(after[i], m)
  BY DEF Copies, IsChat
<1> HIDE DEF list, after
<1>8. ASSUME NEW i, <<"waiting", s, i>> \in Copies(m)'
      PROVE  i \in DOMAIN after /\ <<"waiting", s, Skip(k, i)>> \in Copies(m)
             /\ Skip(k, i) # k
  BY <1>3, <1>6, <1>7, <1>8
<1>9. CASE Copies(m) = {}
  BY <1>5, <1>8, <1>9
<1>10. CASE Copies(m) = {<<"waiting", s, k>>}
  <2>1. Waiting(<<"waiting", s, k>>)
    BY <1>4 DEF list
  <2>2. ASSUME NEW d \in Copies(m)' PROVE FALSE
    <3>1. CASE ~Waiting(d)
      BY <1>5, <1>10, <2>1, <2>2, <3>1
    <3>2. CASE Waiting(d)
      BY <1>8, <1>10, <2>2, <3>2
    <3> QED BY <3>1, <3>2
  <2> QED BY <1>10, <2>2
<1>11. ASSUME NEW c, Copies(m) = {c}, c # <<"waiting", s, k>>
       PROVE  \E d : Copies(m)' = {d}
  <2>1. CASE ~Waiting(c)
    <3>1. ASSUME NEW d \in Copies(m)' PROVE d = c
      <4>1. CASE ~Waiting(d)
        BY <1>5, <1>11, <3>1, <4>1
      <4>2. ASSUME NEW i \in Int, d = <<"waiting", s, i>> PROVE FALSE
        <5>1. <<"waiting", s, Skip(k, i)>> = c /\ Skip(k, i) \in Int
          BY <1>3, <1>4, <1>8, <1>11, <3>1, <4>2
        <5> QED BY <2>1, <5>1
      <4> QED BY <4>1, <4>2
    <3> QED BY <1>5, <1>11, <2>1, <3>1
  <2>2. ASSUME NEW j, c = <<"waiting", s, j>>
        PROVE  \E d : Copies(m)' = {d}
    <3>1. j \in DOMAIN list \ {k}
      BY <1>6, <1>11, <2>2
    <3>2. PICK i \in DOMAIN after : Skip(k, i) = j
      BY <1>3, <3>1
    <3>3. <<"waiting", s, i>> \in Copies(m)'
      BY <1>3, <1>6, <1>7, <1>11, <2>2, <3>2
    <3>4. ASSUME NEW d \in Copies(m)' PROVE d = <<"waiting", s, i>>
      <4>1. CASE ~Waiting(d)
        BY <1>4, <1>5, <1>11, <2>2, <3>1, <3>4, <4>1
      <4>2. ASSUME NEW h \in Int, d = <<"waiting", s, h>>
            PROVE  h = i
        <5>1. h \in DOMAIN after /\ <<"waiting", s, Skip(k, h)>> = c
          BY <1>8, <1>11, <3>4, <4>2
        <5>2. Skip(k, h) = j
          BY <2>2, <5>1
        <5> QED BY <1>3, <3>2, <5>1, <5>2
      <4> QED BY <4>1, <4>2
    <3> QED BY <3>3, <3>4
  <2> QED BY <2>1, <2>2
<1> QED BY <1>9, <1>10, <1>11

\* attemptForward takes the first held message in hand; the others move up, and
\* each is still in one place.
LEMMA TakePlaces ==
  ASSUME TypeOK, NEW s \in Servers, TakeFront(s),
         NEW m \in SendMessage
  PROVE  /\ Copies(m) = {} => Copies(m)' = {}
         /\ \A c : Copies(m) = {c} => \E d : Copies(m)' = {d}
<1> DEFINE list == unassociated[s]
           after == unassociated'[s]
           Here(c) == \/ c = <<"in hand", s>>
                      \/ \E i \in Int : c = <<"held", s, i>>
<1>1. /\ unassociated \in [Servers -> Seq(DataMessage)]
      /\ inHand \in [Servers -> Seq(DataMessage)]
      /\ list # <<>>
      /\ UNCHANGED <<requests, relays, messageList>>
      /\ inHand[s] = <<>>
      /\ inHand' = [inHand EXCEPT ![s] = <<Head(list)>>]
      /\ unassociated' = [unassociated EXCEPT ![s] = Tail(list)]
  BY DEF TypeOK, ServerTypeOK, TakeFront, networkVars
<1>2. /\ list \in Seq(DataMessage) /\ list # <<>>
      /\ \A t \in Servers : t # s => /\ unassociated'[t] = unassociated[t]
                                     /\ inHand'[t] = inHand[t]
      /\ inHand'[s] = <<Head(list)>>
      /\ after = Tail(list)
  BY <1>1
<1>3. 1 \in DOMAIN list /\ Head(list) = list[1] /\ Without(list, 1, after)
  BY <1>2, TailAt
<1>4. /\ \A i \in DOMAIN after : /\ Skip(1, i) \in DOMAIN list \ {1}
                                 /\ after[i] = list[Skip(1, i)]
      /\ \A j \in DOMAIN list \ {1} : \E i \in DOMAIN after : Skip(1, i) = j
      /\ \A i, j \in DOMAIN after : Skip(1, i) = Skip(1, j) => i = j
  <2> HIDE DEF list, after
  <2> DEFINE k == 1
  <2>1. /\ list \in Seq(DataMessage) /\ k \in DOMAIN list
        /\ Without(list, k, after)
    BY <1>2, <1>3
  <2> HIDE DEF k
  <2>2. /\ \A i \in DOMAIN after : /\ Skip(k, i) \in DOMAIN list \ {k}
                                   /\ after[i] = list[Skip(k, i)]
        /\ \A j \in DOMAIN list \ {k} : \E i \in DOMAIN after : Skip(k, i) = j
        /\ \A i, j \in DOMAIN after : Skip(k, i) = Skip(k, j) => i = j
    BY <2>1, Places
  <2> QED BY <2>2 DEF k
<1>5. DOMAIN list \subseteq Int /\ DOMAIN after \subseteq Int
  BY <1>2, <1>3, LenProperties DEF Without
<1>6. Copies(m)' = Carried(m)' \cup Kept(relays, m)'
  BY DEF Copies, Carried, Kept, IsChat
<1>7. ASSUME NEW c, ~Here(c)
      PROVE  c \in Copies(m)' <=> c \in Copies(m)
  <2>1. c \in Carried(m)' <=> c \in Carried(m)
    BY <1>1, <1>2, <1>7 DEF Carried
  <2>2. ASSUME NEW t \in Servers, NEW i, c = <<"held", t, i>>
        PROVE  i \in DOMAIN unassociated[t] \cup DOMAIN unassociated'[t]
                 => unassociated'[t] = unassociated[t]
    BY <1>2, <1>5, <1>7, <2>2
  <2>3. c \in Kept(relays, m)' <=>
          \/ \E d \in relays : d.message = m /\ c = <<"relay", d>>
          \/ \E t \in Servers : \E i \in DOMAIN unassociated'[t] :
               unassociated'[t][i] = m /\ c = <<"held", t, i>>
          \/ \E t \in Servers : \E i \in DOMAIN messageList[t] :
               IsChat(messageList[t][i], m) /\ c = <<"waiting", t, i>>
    BY <1>1 DEF Kept, IsChat
  <2>4. c \in Kept(relays, m)' <=> c \in Kept(relays, m)
    BY <2>2, <2>3, KeptForms
  <2> QED BY <1>6, <2>1, <2>4, CarriedOrKept
<1>8. /\ \A i : <<"held", s, i>> \in Copies(m)
                  <=> i \in DOMAIN list /\ list[i] = m
      /\ <<"in hand", s>> \notin Copies(m)
  <2>1. inHand[s] # <<m>>
    BY <1>1
  <2>2. <<"in hand", s>> \notin Copies(m)
    BY <2>1 DEF Copies
  <2>3. \A i : <<"held", s, i>> \in Copies(m)
                 <=> i \in DOMAIN list /\ list[i] = m
    BY DEF Copies
  <2> QED BY <2>2, <2>3
<1>9. /\ \A i : <<"held", s, i>> \in Copies(m)'
                  <=> i \in DOMAIN after /\ after[i] = m
      /\ <<"in hand", s>> \in Copies(m)' <=> list[1] = m
  <2>1. inHand'[s] = <<m>> <=> list[1] = m
    BY <1>2, <1>3
  <2>2. <<"in hand", s>> \in Copies(m)' <=> inHand'[s] = <<m>>
    BY DEF Copies, IsChat
  <2>3. \A i : <<"held", s, i>> \in Copies(m)'
                 <=> i \in DOMAIN after /\ after[i] = m
    BY DEF Copies, IsChat
  <2> QED BY <2>1, <2>2, <2>3
<1> HIDE DEF list, after
<1>10. ASSUME NEW i, <<"held", s, i>> \in Copies(m)'
       PROVE  /\ i \in DOMAIN after /\ Skip(1, i) \in DOMAIN list
              /\ <<"held", s, Skip(1, i)>> \in Copies(m)
              /\ Skip(1, i) # 1
  BY <1>4, <1>8, <1>9, <1>10
<1>11. <<"in hand", s>> \in Copies(m)' <=> <<"held", s, 1>> \in Copies(m)
  BY <1>3, <1>8, <1>9
<1>12. Here(<<"held", s, 1>>)
  OBVIOUS
<1>13. CASE Copies(m) = {}
  BY <1>7, <1>10, <1>11, <1>13
<1>14. ASSUME NEW c, Copies(m) = {c}
       PROVE  \E d : Copies(m)' = {d}
  <2>1. CASE ~Here(c)
    <3>1. ASSUME NEW d \in Copies(m)' PROVE d = c
      <4>1. CASE ~Here(d)
        BY <1>7, <1>14, <3>1, <4>1
      <4>2. CASE d = <<"in hand", s>>
        BY <1>11, <1>12, <1>14, <2>1, <3>1, <4>2
      <4>3. ASSUME NEW i \in Int, d = <<"held", s, i>> PROVE FALSE
        <5>1. <<"held", s, Skip(1, i)>> = c /\ Skip(1, i) \in Int
          BY <1>5, <1>10, <1>14, <3>1, <4>3
        <5> QED BY <2>1, <5>1
      <4> QED BY <4>1, <4>2, <4>3
    <3> QED BY <1>7, <1>14, <2>1, <3>1
  <2>2. CASE c = <<"held", s, 1>>
    <3>1. <<"in hand", s>> \in Copies(m)'
      BY <1>11, <1>14, <2>2
    <3>2. ASSUME NEW d \in Copies(m)' PROVE d = <<"in hand", s>>
      <4>1. CASE ~Here(d)
        BY <1>7, <1>12, <1>14, <2>2, <3>2, <4>1
      <4>2. ASSUME NEW i \in Int, d = <<"held", s, i>> PROVE FALSE
        <5>1. <<"held", s, Skip(1, i)>> = c /\ Skip(1, i) # 1
          BY <1>10, <1>14, <3>2, <4>2
        <5> QED BY <2>2, <5>1
      <4> QED BY <4>1, <4>2
    <3> QED BY <3>1, <3>2
  <2>3. ASSUME NEW j, j # 1, c = <<"held", s, j>>
        PROVE  \E d : Copies(m)' = {d}
    <3>1. j \in DOMAIN list \ {1} /\ list[j] = m
      BY <1>8, <1>14, <2>3
    <3>2. PICK i \in DOMAIN after : Skip(1, i) = j
      BY <1>4, <3>1
    <3>3. <<"held", s, i>> \in Copies(m)'
      BY <1>4, <1>9, <3>1, <3>2
    <3>4. ASSUME NEW d \in Copies(m)' PROVE d = <<"held", s, i>>
      <4>1. CASE ~Here(d)
        BY <1>5, <1>7, <1>14, <2>3, <3>1, <3>4, <4>1
      <4>2. CASE d = <<"in hand", s>>
        BY <1>11, <1>14, <2>3, <3>4, <4>2
      <4>3. ASSUME NEW h \in Int, d = <<"held", s, h>>
            PROVE  h = i
        <5>1. h \in DOMAIN after /\ <<"held", s, Skip(1, h)>> = c
          BY <1>10, <1>14, <3>4, <4>3
        <5>2. Skip(1, h) = j
          BY <2>3, <5>1
        <5> QED BY <1>4, <3>2, <5>1, <5>2
      <4> QED BY <4>1, <4>2, <4>3
    <3> QED BY <3>3, <3>4
  <2> QED BY <1>8, <1>14, <2>1, <2>2, <2>3
<1> QED BY <1>14, <1>13

\* A step moves the only copy of m, or leaves it where it is.
StaysOne(m) ==
  /\ Copies(m) = {} => Copies(m)' = {}
  /\ \A c : Copies(m) = {c} => \E d : Copies(m)' = {d}

\* Nothing moves when no chat message is sent, received, filed or taken up.
LEMMA CopiesFrame ==
  ASSUME ChatUnchanged,
         UNCHANGED <<relays, inHand, unassociated, messageList>>,
         NEW m \in SendMessage
  PROVE  Copies(m)' = Copies(m)
<1>1. \A c : c \in Carried(m)' <=> c \in Carried(m)
  BY DEF Carried, ChatUnchanged
<1>2. Kept(relays, m)' = Kept(relays, m)
  BY DEF Kept, IsChat
<1>3. Copies(m)' = Carried(m)' \cup Kept(relays, m)'
  BY DEF Copies, Carried, Kept, IsChat
<1> QED BY <1>1, <1>2, <1>3, CarriedOrKept

\* A routed message leaves the place it was read from and gets another.
LEMMA RoutedOnce ==
  ASSUME TypeOK, Orderly, NEW s \in Servers, NEW x \in SendMessage, NEW rest,
         processClientSendMessage(s, x, rest),
         NEW from \in Copies(x), NEW m \in SendMessage,
         Carried(m)' \cup Kept(rest, m)
           = Copies(m) \ (IF m = x THEN {from} ELSE {})
  PROVE  StaysOne(m)
<1>1. PICK p : FiledAt(p, x, rest)
  BY RoutingPlaces
<1>2. Copies(m)' = Carried(m)' \cup Kept(relays, m)'
  BY DEF Copies, Carried, Kept, IsChat
<1>3. CASE m # x
  <2>1. Copies(m)' = Copies(m)
    BY <1>1, <1>2, <1>3 DEF FiledAt
  <2> QED BY <2>1 DEF StaysOne
<1>4. CASE m = x
  <2>1. Copies(m)' = (Copies(m) \ {from}) \cup {p}
    BY <1>1, <1>2, <1>4 DEF FiledAt
  <2>2. from \in Copies(m)
    BY <1>4
  <2>3. ASSUME NEW c, Copies(m) = {c}
        PROVE  Copies(m)' = {p}
    BY <2>1, <2>2, <2>3
  <2> QED BY <2>2, <2>3 DEF StaysOne
<1> QED BY <1>3, <1>4

\* A chat message that is received from a client, or from a neighbour, or that
\* attemptForward has in hand, is routed once, and no other is moved.
LEMMA RoutingStaysOne ==
  ASSUME NothingForgotten, TypeOK, RelaysAreSends, Orderly,
         NEW m \in SendMessage,
         \/ \E d \in requests : ReceiveClientSend(d)
         \/ \E d \in relays : ReceiveRelay(d)
         \/ \E s \in Servers : RouteAgain(s)
  PROVE  StaysOne(m)
<1>1. /\ \A d \in requests : d.to \in Servers /\ d.message \in DataMessage
      /\ \A d \in relays : d.to \in Servers /\ d.message \in SendMessage
      /\ inHand \in [Servers -> Seq(DataMessage)]
      /\ \A s \in Servers :
           inHand[s] \in Seq(SendMessage) /\ Len(inHand[s]) <= 1
  BY DEF TypeOK, NetworkTypeOK, ServerTypeOK, Request, Relay, RelaysAreSends
<1>2. Copies(m) = Carried(m) \cup Kept(relays, m)
  BY CarriedOrKept
<1>3. ASSUME NEW d \in requests, ReceiveClientSend(d)
      PROVE  StaysOne(m)
  <2> DEFINE p == <<"request", d>>
  <2>1. /\ processClientSendMessage(d.to, d.message, relays)
        /\ requests' = requests \ {d}
        /\ inHand' = inHand
        /\ d.message \in SendMessage
    BY <1>1, <1>3
    DEF ReceiveClientSend, ReceivedRequest, AfterReceipt, NothingForgotten,
        forwardVars, SendMessage
  <2>2. p \in Copies(d.message)
    BY DEF Copies
  <2>3. ASSUME NEW c
        PROVE  c \in Carried(m)'
                 <=> c \in Carried(m) /\ ~(m = d.message /\ c = p)
    <3>1. c \in Carried(m)' <=>
            \/ \E r \in requests' : r.message = m /\ c = <<"request", r>>
            \/ \E t \in Servers : inHand'[t] = <<m>> /\ c = <<"in hand", t>>
      BY DEF Carried
    <3>2. (\E r \in requests' : r.message = m /\ c = <<"request", r>>)
          <=> (\E r \in requests : r.message = m /\ c = <<"request", r>>)
              /\ ~(m = d.message /\ c = p)
      BY <2>1
    <3>3. ~(\E t \in Servers : p = <<"in hand", t>>)
      OBVIOUS
    <3>4. c \in Carried(m) <=>
            \/ \E r \in requests : r.message = m /\ c = <<"request", r>>
            \/ \E t \in Servers : inHand[t] = <<m>> /\ c = <<"in hand", t>>
      BY DEF Carried
    <3> HIDE DEF p
    <3> QED BY <2>1, <3>1, <3>2, <3>3, <3>4
  <2>4. p \notin Kept(relays, m)
    BY DEF Kept
  <2>5. Carried(m)' \cup Kept(relays, m)
          = Copies(m) \ (IF m = d.message THEN {p} ELSE {})
    BY <1>2, <2>3, <2>4
  <2> HIDE DEF p
  <2> QED BY <1>1, <2>1, <2>2, <2>5, RoutedOnce
<1>4. ASSUME NEW d \in relays, ReceiveRelay(d)
      PROVE  StaysOne(m)
  <2> DEFINE p == <<"relay", d>>
             rest == relays \ {d}
  <2>1. /\ processClientSendMessage(d.to, d.message, rest)
        /\ UNCHANGED <<requests, inHand>>
        /\ d.message \in SendMessage
    BY <1>1, <1>4
    DEF ReceiveRelay, AfterReceipt, NothingForgotten, forwardVars
  <2>2. p \in Copies(d.message)
    BY DEF Copies
  <2>3. Carried(m)' = Carried(m) /\ p \notin Carried(m)
    BY <2>1 DEF Carried
  <2>4. Kept(rest, m) = Kept(relays, m) \ (IF m = d.message THEN {p} ELSE {})
    BY DEF Kept
  <2>5. Carried(m)' \cup Kept(rest, m)
          = Copies(m) \ (IF m = d.message THEN {p} ELSE {})
    BY <1>2, <2>3, <2>4
  <2> HIDE DEF p, rest
  <2> QED BY <1>1, <2>1, <2>2, <2>5, RoutedOnce
<1>5. ASSUME NEW s \in Servers, RouteAgain(s)
      PROVE  StaysOne(m)
  <2> DEFINE x == Head(inHand[s])
             p == <<"in hand", s>>
  <2>1. /\ processClientSendMessage(s, x, relays)
        /\ requests' = requests
        /\ inHand' = [inHand EXCEPT ![s] = <<>>]
        /\ inHand[s] # <<>>
    BY <1>5 DEF RouteAgain
  <2>2. x \in SendMessage /\ inHand[s] = <<x>>
    BY <1>1, <2>1, HeadTailProperties
  <2> HIDE DEF x
  <2>3. p \in Copies(x)
    BY <2>2 DEF Copies
  <2>4. \A t \in Servers : inHand'[t] = <<m>> <=> inHand[t] = <<m>> /\ t # s
    BY <1>1, <2>1
  <2>5. inHand[s] = <<m>> <=> m = x
    BY <2>2
  <2>6. ASSUME NEW c
        PROVE  c \in Carried(m)' <=> c \in Carried(m) /\ ~(m = x /\ c = p)
    <3>1. c \in Carried(m)' <=>
            \/ \E d \in requests : d.message = m /\ c = <<"request", d>>
            \/ \E t \in Servers : inHand'[t] = <<m>> /\ c = <<"in hand", t>>
      BY <2>1 DEF Carried
    <3>2. (\E t \in Servers : inHand'[t] = <<m>> /\ c = <<"in hand", t>>)
          <=> (\E t \in Servers : inHand[t] = <<m>> /\ c = <<"in hand", t>>)
              /\ c # p
      <4>1. \A t : <<"in hand", t>> = p <=> t = s
        OBVIOUS
      <4> HIDE DEF p
      <4> QED BY <2>4, <4>1
    <3>3. ~(\E r \in requests : p = <<"request", r>>)
      OBVIOUS
    <3>4. p \in Carried(m) => m = x
      <4>1. p \in Carried(m) => inHand[s] = <<m>>
        BY DEF Carried
      <4> QED BY <2>5, <4>1
    <3>5. c \in Carried(m) <=>
            \/ \E r \in requests : r.message = m /\ c = <<"request", r>>
            \/ \E t \in Servers : inHand[t] = <<m>> /\ c = <<"in hand", t>>
      BY DEF Carried
    <3> HIDE DEF p
    <3> QED BY <3>1, <3>2, <3>3, <3>4, <3>5
  <2>7. p \notin Kept(relays, m)
    BY DEF Kept
  <2>8. Carried(m)' \cup Kept(relays, m)
          = Copies(m) \ (IF m = x THEN {p} ELSE {})
    BY <1>2, <2>6, <2>7
  <2> HIDE DEF p
  <2> QED BY <2>1, <2>2, <2>3, <2>8, RoutedOnce
<1> QED BY <1>3, <1>4, <1>5

-----------------------------------------------------------------------------
(***************************************************************************)
(* The inductive invariant.                                                *)
(***************************************************************************)

\* What has been shown stays shown.
LEMMA ShownGrows ==
  ASSUME TypeOK, [Next]_vars, NEW m
  PROVE  Shown(m) => Shown(m)'
<1>1. /\ displayed \in [Endpoints -> SUBSET DataMessage]
      /\ \A d \in replies : d.to \in Endpoints
  BY DEF TypeOK, ClientTypeOK, NetworkTypeOK, Reply
<1>2. \/ displayed' = displayed
      \/ \E e \in Endpoints : \E x :
           displayed' = [displayed EXCEPT ![e] = displayed[e] \cup {x}]
  <2>1. ASSUME NEW d \in replies, receiveOverUDP(d)
        PROVE  displayed' = [displayed EXCEPT
                               ![d.to] = displayed[d.to] \cup {d.message}]
    BY <2>1 DEF receiveOverUDP
  <2>2. ASSUME NEW e, inputLoop(e) PROVE displayed' = displayed
    BY <2>2 DEF inputLoop
  <2> QED BY <1>1, <2>1, <2>2, HistoryFrame
<1>3. \A e \in Endpoints : displayed[e] \subseteq displayed'[e]
  BY <1>1, <1>2
<1> QED BY <1>3 DEF Shown, IsChat

\* Messages that have collided have collided for good.
LEMMA CollisionsStay ==
  ASSUME TypeOK, [Next]_vars
  PROVE  NoCollision' => NoCollision
<1>1. repeated \subseteq repeated'
  <2>1. ASSUME NEW e \in Endpoints, inputLoop(e)
        PROVE  repeated \subseteq repeated'
    BY <2>1, LineSubmitted
  <2>2. \/ repeated' = repeated
        \/ \E e \in Endpoints : inputLoop(e)
    BY DEF Next, vars, clientVars, lineVars, ClientNext, Start, GetLoad,
           getLoop, InputLoad, InputStore, Exit, Kill, Return, receiveOverUDP
  <2> QED BY <2>1, <2>2
<1> QED BY <1>1, GenuineGrows DEF NoCollision, Colliding

\* Without a restart a list that was torn stays torn.
LEMMA TearingStays ==
  ASSUME NothingForgotten, TypeOK, [Next]_vars
  PROVE  Orderly' => Orderly
<1>1. torn \in [Servers -> SUBSET Lists]
  BY DEF TypeOK, ServerTypeOK
<1>2. \/ torn' = torn
      \/ \E s \in Servers : Overlap(s)
  <2>1. ASSUME NEW d, ReceiveRequest(d)
        PROVE  torn' = torn
    BY <2>1
    DEF ReceiveRequest, addClientConnection, removeClientConnection,
        ReceiveClientSend, sendMessagesToClient, removeReceivedMessageFromList,
        serverVars, damageVars
  <2>2. ASSUME NEW d, ReceiveRelay(d) \/ receiveClientsFromAdjacentServers(d)
        PROVE  torn' = torn
    BY <2>2 DEF ReceiveRelay, receiveClientsFromAdjacentServers, damageVars
  <2>3. ASSUME NEW s, \/ BeginPass(s) \/ TakeFront(s) \/ TakeMissingFront(s)
                      \/ RouteAgain(s) \/ SnapshotClients(s)
                      \/ SendSyncPayload(s)
        PROVE  torn' = torn
    BY <2>3 DEF BeginPass, TakeFront, TakeMissingFront, RouteAgain,
                SnapshotClients, SendSyncPayload, damageVars
  <2>4. \A s : ~Restart(s)
    BY DEF Restart, NothingForgotten
  <2>5. CASE UNCHANGED serverVars
    BY <2>5 DEF serverVars, damageVars
  <2>6. CASE ServerNext
    BY <2>1, <2>2, <2>3, <2>4, <2>6 DEF ServerNext, listenLoopUDP
  <2> QED BY <2>5, <2>6 DEF Next, vars
<1>3. ASSUME NEW s \in Servers, Overlap(s)
      PROVE  \A t \in Servers : torn[t] \subseteq torn'[t]
  <2>1. \E new : torn' = [torn EXCEPT ![s] = torn[s] \cup new]
    BY <1>3 DEF Overlap
  <2> QED BY <1>1, <2>1
<1>4. \A t \in Servers : torn[t] \subseteq torn'[t]
  BY <1>2, <1>3
<1> QED BY <1>4 DEF Orderly

\* What has a copy was submitted.
LEMMA CopiesGenuine ==
  ASSUME TypeOK, NothingInvented, NEW m \in SendMessage, Copies(m) # {}
  PROVE  \E e \in Endpoints : m \in submitted[e]
<1>1. m \in DataMessage /\ setMessageType(m, "mt_CLIENT_SEND") = m
  BY Retyping DEF SendMessage, MessageTypes, ClientTypes
<1>2. ASSUME NEW x \in Genuine, IsChat(x, m)
      PROVE  \E e \in Endpoints : m \in submitted[e]
  BY <1>2 DEF Genuine, IsChat
<1>3. IsChat(m, m)
  BY <1>1 DEF IsChat
<1>4. PICK c : c \in Carried(m) \/ c \in Kept(relays, m)
  BY CarriedOrKept
<1>5. ASSUME NEW d \in requests, d.message = m
      PROVE  m \in Genuine
  BY <1>5 DEF NothingInvented, RequestsGenuine, SendMessage
<1>6. ASSUME NEW d \in relays, d.message = m
      PROVE  m \in Genuine
  BY <1>6 DEF NothingInvented, ListsGenuine
<1>7. /\ \A s \in Servers : /\ inHand[s] \in Seq(Genuine)
                            /\ unassociated[s] \in Seq(Genuine)
                            /\ messageList[s] \in Seq(Genuine)
  BY DEF NothingInvented, ListsGenuine
<1>8. ASSUME NEW s \in Servers, inHand[s] = <<m>>
      PROVE  m \in Genuine
  <2>1. inHand[s] # <<>> /\ Head(inHand[s]) = m
    BY <1>8
  <2>2. Head(inHand[s]) \in Genuine
    BY <1>7, <2>1, HeadTailProperties
  <2> QED BY <2>1, <2>2
<1>9. ASSUME NEW s \in Servers, NEW k \in DOMAIN unassociated[s],
             unassociated[s][k] = m
      PROVE  m \in Genuine
  BY <1>7, <1>9, ElementOfSeq, LenProperties
<1>10. ASSUME NEW s \in Servers, NEW k \in DOMAIN messageList[s],
              IsChat(messageList[s][k], m)
       PROVE  \E e \in Endpoints : m \in submitted[e]
  <2>1. messageList[s][k] \in Genuine
    BY <1>7, <1>10, ElementOfSeq, LenProperties
  <2> QED BY <1>2, <1>10, <2>1
<1>11. CASE c \in Carried(m)
  <2>1. \/ \E d \in requests : d.message = m
        \/ \E s \in Servers : inHand[s] = <<m>>
    BY <1>11 DEF Carried
  <2> QED BY <1>2, <1>3, <1>5, <1>8, <2>1
<1>12. CASE c \in Kept(relays, m)
  <2>1. \/ \E d \in relays : d.message = m
        \/ \E s \in Servers : \E k \in DOMAIN unassociated[s] :
             unassociated[s][k] = m
        \/ \E s \in Servers : \E k \in DOMAIN messageList[s] :
             IsChat(messageList[s][k], m)
    BY <1>12, KeptForms
  <2> QED BY <1>2, <1>3, <1>6, <1>9, <1>10, <2>1
<1> QED BY <1>4, <1>11, <1>12

\* An acknowledgement removes the message it names, which has been shown: the
\* only other one it could name would collide with it.
LEMMA AckShown ==
  ASSUME TypeOK, Truth, NothingInvented, AcksTruthful, NoCollision, NEW d \in requests,
         d.message.type = "mt_CLIENT_ACK",
         NEW k \in AcknowledgedBy(d.to, d.message.sequence),
         NEW e \in Endpoints, NEW m \in submitted[e],
         IsChat(messageList[d.to][k], m)
  PROVE  Shown(m)
<1> DEFINE s == d.to
           x == messageList[s][k]
<1>1. /\ s \in Servers /\ d.from \in Endpoints
      /\ k \in DOMAIN messageList[s] /\ x.sequence = d.message.sequence
  BY DEF TypeOK, NetworkTypeOK, Request, AcknowledgedBy
<1>2. x \in DataMessage
  BY <1>1, ListElements DEF TypeOK
<1>3. m.sequence = d.message.sequence /\ m.destination = x.destination
  BY <1>1, <1>2, Retyping DEF IsChat, MessageTypes, ClientTypes
<1>4. s \in Homes(m.destination)
  BY <1>1, <1>3 DEF Truth, MailboxAtHome, Joined, Homes
<1>5. PICK o \in Endpoints : \E n \in submitted[o] :
         /\ n.sequence = d.message.sequence
         /\ n.destination = User[d.from]
         /\ Shown(n)
  BY DEF AcksTruthful
<1>6. PICK n \in submitted[o] :
         /\ n.sequence = d.message.sequence
         /\ n.destination = User[d.from]
         /\ Shown(n)
  BY <1>5
<1>7. s \in Homes(n.destination)
  BY <1>1, <1>6 DEF Truth, RequestsTruthful, Homes
<1>8. Colliding(m, n)
  BY <1>3, <1>4, <1>6, <1>7 DEF Colliding
<1>9. n = m
  BY <1>8 DEF NoCollision
<1> QED BY <1>6, <1>9

\* Every step of a server moves each message to one place, but for the message
\* that an acknowledgement removes.
LEMMA ServerKeepsCustody ==
  ASSUME NothingForgotten, TypeOK, PassNeverStarves, RelaysAreSends, Truth,
         NothingInvented, AcksTruthful, NoCollision, Orderly, ServerNext,
         NEW e \in Endpoints, NEW m \in submitted[e]
  PROVE  StaysOne(m) \/ (Copies(m)' = {} /\ Shown(m))
<1>1. /\ m \in SendMessage
      /\ \A d \in requests : d.to \in Servers
  BY DEF TypeOK, ClientTypeOK, NetworkTypeOK, Request, NothingInvented,
         SubmittedUnderOwnName, SendMessage
<1>2. ASSUME ChatUnchanged,
             UNCHANGED <<relays, inHand, unassociated, messageList>>
      PROVE  StaysOne(m)
  <2>1. Copies(m)' = Copies(m)
    BY <1>1, <1>2, CopiesFrame
  <2> QED BY <2>1 DEF StaysOne
<1>3. ASSUME requests' = requests
      PROVE  ChatUnchanged
  BY <1>3 DEF ChatUnchanged
<1>4. ASSUME NEW d \in requests, NEW type, ReceivedRequest(d, type),
             type # "mt_CLIENT_SEND"
      PROVE  ChatUnchanged
  BY <1>4 DEF ReceivedRequest, AfterReceipt, ChatUnchanged, SendMessage
<1>5. CASE \/ \E d \in requests : ReceiveClientSend(d)
           \/ \E d \in relays : ReceiveRelay(d)
           \/ \E s \in Servers : RouteAgain(s)
  BY <1>1, <1>5, RoutingStaysOne
<1>6. ASSUME NEW d \in requests,
             \/ addClientConnection(d) \/ removeClientConnection(d)
             \/ sendMessagesToClient(d)
      PROVE  StaysOne(m)
  <2>1. ChatUnchanged
    BY <1>4, <1>6
    DEF addClientConnection, removeClientConnection, sendMessagesToClient
  <2> QED
    BY <1>2, <1>6, <2>1
    DEF addClientConnection, removeClientConnection, sendMessagesToClient,
        serverVars, listVars, forwardVars
<1>7. ASSUME NEW d \in requests, removeReceivedMessageFromList(d)
      PROVE  StaysOne(m) \/ (Copies(m)' = {} /\ Shown(m))
  <2> DEFINE s == d.to
  <2>1. /\ ReceivedRequest(d, "mt_CLIENT_ACK")
        /\ UNCHANGED <<relays, unassociated, inHand>>
    BY <1>7 DEF removeReceivedMessageFromList, forwardVars
  <2>2. ChatUnchanged
    BY <1>4, <2>1
  <2>3. CASE messageList' = messageList
    BY <1>2, <2>1, <2>2, <2>3
  <2>4. ASSUME NEW k \in AcknowledgedBy(s, d.message.sequence),
               messageList' = [messageList EXCEPT
                                 ![s] = Erase(messageList[s], k)]
        PROVE  StaysOne(m) \/ (Copies(m)' = {} /\ Shown(m))
    <3>1. s \in Servers /\ k \in DOMAIN messageList[s]
      BY <1>1 DEF AcknowledgedBy
    <3>2. /\ Copies(m) = {} => Copies(m)' = {}
          /\ Copies(m) = {<<"waiting", s, k>>} => Copies(m)' = {}
          /\ \A c : Copies(m) = {c} /\ c # <<"waiting", s, k>>
                    => \E b : Copies(m)' = {b}
      BY <1>1, <2>1, <2>2, <2>4, <3>1, ErasePlaces
    <3>3. CASE Copies(m) = {<<"waiting", s, k>>}
      <4>1. IsChat(messageList[s][k], m)
        <5>1. <<"waiting", s, k>> \in Copies(m)
                <=> k \in DOMAIN messageList[s] /\ IsChat(messageList[s][k], m)
          BY <3>1 DEF Copies
        <5> QED BY <3>3, <5>1
      <4>2. d.message.type = "mt_CLIENT_ACK"
        BY <2>1 DEF ReceivedRequest
      <4>3. Shown(m)
        BY <2>4, <4>1, <4>2, AckShown
      <4> QED BY <3>2, <3>3, <4>3
    <3>4. CASE Copies(m) # {<<"waiting", s, k>>}
      BY <3>2, <3>4 DEF StaysOne
    <3> QED BY <3>3, <3>4
  <2> QED BY <1>7, <2>3, <2>4 DEF removeReceivedMessageFromList
<1>8. ASSUME NEW d, receiveClientsFromAdjacentServers(d)
      PROVE  StaysOne(m)
  BY <1>2, <1>3, <1>8
  DEF receiveClientsFromAdjacentServers, listVars, forwardVars
<1>9. ASSUME NEW s, \/ BeginPass(s) \/ SnapshotClients(s)
                    \/ SendSyncPayload(s) \/ Overlap(s)
      PROVE  StaysOne(m)
  BY <1>2, <1>3, <1>9
  DEF BeginPass, SnapshotClients, SendSyncPayload, Overlap, networkVars,
      listVars, forwardVars
<1>10. ASSUME NEW s \in Servers, TakeFront(s)
       PROVE  StaysOne(m)
  BY <1>1, <1>10, TakePlaces DEF StaysOne
<1>11. \A s \in Servers : ~Restart(s) /\ ~TakeMissingFront(s)
  <2>1. ASSUME NEW s \in Servers, TakeMissingFront(s)
        PROVE  FALSE
    <3>1. /\ toCheck[s] \in Nat /\ toCheck[s] > 0
          /\ toCheck[s] <= Len(unassociated[s])
          /\ Len(unassociated[s]) = 0
      BY <2>1, EmptySeq
      DEF TakeMissingFront, Orderly, PassNeverStarves, TypeOK, ServerTypeOK
    <3> QED BY <3>1
  <2> QED BY <2>1 DEF Restart, NothingForgotten
<1> QED
  BY <1>5, <1>6, <1>7, <1>8, <1>9, <1>10, <1>11
  DEF ServerNext, listenLoopUDP, ReceiveRequest

\* A client's step moves no message; inputLoop adds one, in one place.
LEMMA ClientKeepsCustody ==
  ASSUME TypeOK, NothingInvented, NoCollision', AllInCustody, [Next]_vars,
         UNCHANGED serverVars, ClientNext
  PROVE  AllInCustody'
<1>1. /\ submitted \in [Endpoints -> SUBSET DataMessage]
      /\ \A e \in Endpoints : submitted[e] \subseteq SendMessage
  BY DEF TypeOK, ClientTypeOK, NothingInvented, SubmittedUnderOwnName,
         SendMessage
<1>2. UNCHANGED <<relays, inHand, unassociated, messageList>>
  BY DEF serverVars, listVars, forwardVars, ClientNext, Start, GetLoad,
         getLoop, InputLoad, InputStore, inputLoop, Exit, Kill, Return,
         receiveOverUDP, networkVars
<1>3. ASSUME submitted' = submitted, ChatUnchanged
      PROVE  AllInCustody'
  <2>1. ASSUME NEW e \in Endpoints, NEW m \in submitted[e]
        PROVE  InCustody(m)'
    <3>1. Copies(m)' = Copies(m)
      BY <1>1, <1>2, <1>3, CopiesFrame
    <3> QED BY <3>1, ShownGrows DEF AllInCustody, InCustody
  <2> QED BY <1>3, <2>1 DEF AllInCustody
<1>4. ASSUME NEW x, NEW m, NEW server, sendOverUDP(x, server, m),
             m.type # "mt_CLIENT_SEND"
      PROVE  ChatUnchanged
  BY <1>4 DEF sendOverUDP, ChatUnchanged, SendMessage
<1>5. ASSUME NEW x \in Endpoints, Start(x) \/ getLoop(x) \/ Exit(x)
      PROVE  AllInCustody'
  <2>1. /\ submitted' = submitted
        /\ \E type \in {"mt_CLIENT_CONNECT", "mt_CLIENT_GET",
                        "mt_CLIENT_DISCONNECT"} :
             sendOverUDP(x, serverEndPoint[x], Signal(x, type))
    BY <1>5 DEF Start, getLoop, Exit, lineVars
  <2>2. \A type : Signal(x, type).type = type
    BY DEF Signal, dataMessage
  <2> QED BY <1>3, <1>4, <2>1, <2>2
<1>6. ASSUME NEW d \in replies, receiveOverUDP(d)
      PROVE  AllInCustody'
  <2>1. /\ submitted' = submitted
        /\ sendOverUDP(d.to, serverEndPoint'[d.to],
                       Acknowledgement(d.to, d.message))
    BY <1>6 DEF receiveOverUDP, lineVars
  <2>2. Acknowledgement(d.to, d.message).type = "mt_CLIENT_ACK"
    BY DEF Acknowledgement, dataMessage
  <2> QED BY <1>3, <1>4, <2>1, <2>2
<1>7. ASSUME NEW x, \/ GetLoad(x) \/ InputLoad(x) \/ InputStore(x)
                    \/ Kill(x) \/ \E thread : Return(x, thread)
      PROVE  AllInCustody'
  BY <1>3, <1>7
  DEF GetLoad, InputLoad, InputStore, Kill, Return, networkVars, lineVars,
      ChatUnchanged
<1>8. ASSUME NEW x \in Endpoints, inputLoop(x)
      PROVE  AllInCustody'
  <2>1. PICK new \in DataMessage :
           /\ new.type = "mt_CLIENT_SEND"
           /\ submitted' = [submitted EXCEPT ![x] = submitted[x] \cup {new}]
           /\ repeated' = IF new \in submitted[x] THEN repeated \cup {x}
                                                  ELSE repeated
           /\ requests' = requests \cup
                {[to |-> serverEndPoint[x], from |-> x, message |-> new]}
    BY <1>8, LineSubmitted
  <2> DEFINE q == [to |-> serverEndPoint[x], from |-> x, message |-> new]
  <2>2. new \in SendMessage /\ q.message = new /\ requests' = requests \cup {q}
    BY <2>1 DEF SendMessage
  <2> HIDE DEF q
  <2>3. ASSUME NEW e \in Endpoints, NEW m \in submitted[e]
        PROVE  m # new
    <3>1. CASE e = x
      <4>1. new \notin submitted[x]
        BY <2>1 DEF NoCollision
      <4> QED BY <2>3, <3>1, <4>1
    <3>2. CASE e # x
      <4>1. m \in submitted'[e] /\ new \in submitted'[x]
        BY <1>1, <2>1, <2>3, <3>2
      <4> QED BY <3>2, <4>1 DEF NoCollision
    <3> QED BY <3>1, <3>2
  <2>4. Copies(new) = {}
    BY <2>2, <2>3, CopiesGenuine
  <2>5. Kept(relays, new)' = Kept(relays, new)
    BY <1>2 DEF Kept, IsChat
  <2>6. ASSUME NEW m \in SendMessage, NEW c
        PROVE  c \in Carried(m)'
                 <=> c \in Carried(m) \/ (m = new /\ c = <<"request", q>>)
    BY <1>2, <2>2 DEF Carried
  <2>7. \A m : Copies(m)' = Carried(m)' \cup Kept(relays, m)'
    BY DEF Copies, Carried, Kept, IsChat
  <2>8. Copies(new)' = {<<"request", q>>}
    BY <2>2, <2>4, <2>5, <2>6, <2>7, CarriedOrKept
  <2>9. ASSUME NEW e \in Endpoints, NEW m \in submitted[e]
        PROVE  InCustody(m)'
    <3>1. Kept(relays, m)' = Kept(relays, m)
      BY <1>2 DEF Kept, IsChat
    <3>2. Copies(m)' = Copies(m)
      BY <1>1, <2>3, <2>6, <2>7, <3>1, CarriedOrKept
    <3> QED BY <3>2, ShownGrows DEF AllInCustody, InCustody
  <2>10. \A e \in Endpoints : \A m \in submitted'[e] :
            m \in submitted[e] \/ m = new
    BY <1>1, <2>1
  <2> QED BY <2>8, <2>9, <2>10 DEF AllInCustody, InCustody
<1> QED BY <1>5, <1>6, <1>7, <1>8 DEF ClientNext

\* What the network may lose here is no chat message on its way to a mailbox.
LEMMA RestKeepsCustody ==
  ASSUME NothingForgotten, TypeOK, NothingInvented, AllInCustody,
         \/ Lose /\ UNCHANGED <<serverVars, clientVars>>
         \/ UNCHANGED vars
  PROVE  AllInCustody'
<1>1. \A e \in Endpoints : submitted[e] \subseteq SendMessage
  BY DEF TypeOK, ClientTypeOK, NothingInvented, SubmittedUnderOwnName,
         SendMessage
<1>2. /\ relays' = relays /\ ChatUnchanged
      /\ UNCHANGED <<inHand, unassociated, messageList, submitted, displayed>>
  BY DEF Lose, ChatUnchanged, SendMessage, NothingForgotten, vars, networkVars,
         serverVars, listVars, forwardVars, clientVars, lineVars
<1>3. ASSUME NEW e \in Endpoints, NEW m \in submitted[e]
      PROVE  InCustody(m)'
  <2>1. Copies(m)' = Copies(m)
    BY <1>1, <1>2, CopiesFrame
  <2>2. Shown(m) => Shown(m)'
    BY <1>2 DEF Shown, IsChat
  <2> QED BY <2>1, <2>2 DEF AllInCustody, InCustody
<1> QED BY <1>2, <1>3 DEF AllInCustody

\* receiveOverUDP acknowledges what it has just shown, and that was submitted
\* for the user it was shown to.
LEMMA AcksStep ==
  ASSUME TypeOK, Truth, NothingInvented, AcksTruthful, [Next]_vars
  PROVE  AcksTruthful'
<1> DEFINE Named(d) ==
      \E e \in Endpoints : \E m \in submitted'[e] :
        /\ m.sequence = d.message.sequence
        /\ m.destination = User[d.from]
        /\ Shown(m)'
<1>1. \A d \in requests : d.message.type = "mt_CLIENT_ACK" => Named(d)
  BY GenuineGrows, ShownGrows DEF AcksTruthful
<1>2. ASSUME NEW d \in replies, receiveOverUDP(d)
      PROVE  \A r \in requests' : r \in requests \/ Named(r)
  <2> DEFINE x == d.message
             m == setMessageType(x, "mt_CLIENT_SEND")
  <2>1. /\ x \in DataMessage /\ d.to \in Endpoints
        /\ displayed \in [Endpoints -> SUBSET DataMessage]
    BY DEF TypeOK, NetworkTypeOK, ClientTypeOK, Reply
  <2>2. m.sequence = x.sequence /\ m.destination = x.destination
    BY <2>1, Retyping DEF MessageTypes, ClientTypes
  <2>3. PICK e \in Endpoints : m \in submitted[e]
    BY DEF NothingInvented, ListsGenuine, Genuine
  <2>4. m \in submitted'[e]
    BY <2>3, GenuineGrows
  <2>5. x.destination = User[d.to]
    BY DEF Truth, RepliesRightful
  <2>6. /\ displayed' = [displayed EXCEPT ![d.to] = displayed[d.to] \cup {x}]
        /\ requests' = requests \cup
             {[to |-> serverEndPoint'[d.to], from |-> d.to,
               message |-> Acknowledgement(d.to, x)]}
    BY <1>2 DEF receiveOverUDP, sendOverUDP
  <2>7. x \in displayed'[d.to]
    BY <2>1, <2>6
  <2>8. Shown(m)'
    BY <2>1, <2>2, <2>5, <2>7 DEF Shown, IsChat
  <2>9. Acknowledgement(d.to, x).sequence = x.sequence
    BY DEF Acknowledgement, dataMessage
  <2> HIDE DEF m, x
  <2> QED BY <2>2, <2>4, <2>5, <2>6, <2>8, <2>9
<1>3. ASSUME NEW e \in Endpoints, inputLoop(e), NEW r \in requests'
      PROVE  r \in requests \/ r.message.type # "mt_CLIENT_ACK"
  <2>1. PICK m \in DataMessage :
           /\ m.type = "mt_CLIENT_SEND"
           /\ requests' = requests \cup
                {[to |-> serverEndPoint[e], from |-> e, message |-> m]}
    BY <1>3, LineSubmitted
  <2> QED BY <2>1
<1>4. ASSUME NEW e, NEW server, NEW m, m.type # "mt_CLIENT_ACK",
             sendOverUDP(e, server, m), NEW r \in requests'
      PROVE  r \in requests \/ r.message.type # "mt_CLIENT_ACK"
  BY <1>4 DEF sendOverUDP
<1>5. \A r \in requests' : r.message.type = "mt_CLIENT_ACK" => Named(r)
  BY <1>1, <1>2, <1>3, <1>4, RequestsFrame
<1> QED BY <1>5 DEF AcksTruthful

\* Nothing has been sent yet.
LEMMA CustodyInit == Init => Custody
  BY DEF Init, NetworkInit, ClientInit, Custody, AcksTruthful, AllInCustody

\* One step of the induction.
LEMMA CustodyStep ==
  ASSUME NothingForgotten, TypeOK, PassNeverStarves, RelaysAreSends, Truth,
         NothingInvented, Custody, [Next]_vars
  PROVE  Custody'
<1>1. AcksTruthful'
  BY AcksStep DEF Custody
<1>2. ASSUME NoCollision', Orderly' PROVE AllInCustody'
  <2>1. NoCollision /\ Orderly /\ AllInCustody
    BY <1>2, CollisionsStay, TearingStays DEF Custody
  <2>2. CASE ServerNext /\ UNCHANGED clientVars
    <3>1. UNCHANGED <<submitted, displayed>>
      BY <2>2 DEF clientVars, lineVars
    <3>2. ASSUME NEW e \in Endpoints, NEW m \in submitted[e]
          PROVE  InCustody(m)'
      <4>1. StaysOne(m) \/ (Copies(m)' = {} /\ Shown(m))
        BY <2>1, <2>2, ServerKeepsCustody DEF Custody
      <4>2. Shown(m) => Shown(m)'
        BY ShownGrows
      <4> QED BY <2>1, <4>1, <4>2 DEF AllInCustody, InCustody, StaysOne
    <3> QED BY <3>1, <3>2 DEF AllInCustody
  <2>3. CASE ClientNext /\ UNCHANGED serverVars
    BY <1>2, <2>1, <2>3, ClientKeepsCustody
  <2>4. CASE \/ Lose /\ UNCHANGED <<serverVars, clientVars>>
             \/ UNCHANGED vars
    BY <2>1, <2>4, RestKeepsCustody
  <2> QED BY <2>2, <2>3, <2>4 DEF Next
<1> QED BY <1>1, <1>2 DEF Custody

-----------------------------------------------------------------------------
(***************************************************************************)
(* The theorem.                                                            *)
(***************************************************************************)

\* Where chat messages are not lost or repeated on the way to a mailbox and no
\* server restarts, the servers lose a message in two ways only: two messages
\* for users of one server have one number, and removeReceivedMessageFromList
\* compares nothing but that number; or calls of attemptForward and of
\* listenLoopUDP, which take no lock, have overlapped on one list.
THEOREM MessagesVanishForTwoCauses ==
  ASSUME NothingForgotten
  PROVE  Spec => []VanishingHasACause
<1>1. /\ TypeOK /\ PassNeverStarves /\ RelaysAreSends /\ Truth
      /\ NothingInvented /\ Custody /\ [Next]_vars
      => Custody'
  BY NothingForgotten, CustodyStep
<1>2. Custody => VanishingHasACause
  <2>1. ASSUME NEW m, InCustody(m)
        PROVE  Cardinality(Copies(m)) = 1 \/ (Copies(m) = {} /\ Shown(m))
    BY <2>1, FS_Singleton DEF InCustody
  <2> QED
    BY <2>1 DEF Custody, AllInCustody, VanishingHasACause, NoMessageVanishes
<1> QED
  BY CustodyInit, TypeCorrect, PassesNeverStarve, RelaysStaySends,
     TruthInvariant, NothingIsInvented, <1>1, <1>2, PTL
  DEF Spec

=============================================================================
