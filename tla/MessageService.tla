--------------------------- MODULE MessageService ---------------------------
(***************************************************************************)
(* What the users are promised, without servers or a network: a session    *)
(* submits chat messages, one at a time and under its own name, and each   *)
(* is shown, as it was written, to sessions of its addressee and to nobody *)
(* else.  A message may be shown by several sessions of the addressee, and *)
(* messages may be shown in any order.  Their numbers promise nothing: two *)
(* messages of a session may even be equal in every field.                 *)
(***************************************************************************)
EXTENDS Naturals

CONSTANTS Sessions,  \* the runs of the client program
          UserOf     \* the user each of them runs under

VARIABLES sent,   \* the messages each session has submitted
          shown   \* the messages each session has displayed

Init ==
  /\ sent = [e \in Sessions |-> {}]
  /\ shown = [e \in Sessions |-> {}]

Submit(e) ==
  \E m \in sent'[e] :
    /\ sent' = [sent EXCEPT ![e] = @ \cup {m}]
    /\ m.source = UserOf[e]
    /\ UNCHANGED shown

Show(e) ==
  \E x \in Sessions : \E m \in sent[x] :
    /\ m.source = UserOf[x]
    /\ m.destination = UserOf[e]
    /\ shown' = [shown EXCEPT ![e] = @ \cup {m}]
    /\ UNCHANGED sent

Next == \E e \in Sessions : Submit(e) \/ Show(e)

Spec == Init /\ [][Next]_<<sent, shown>>
=============================================================================
