------------------------------ MODULE PduQueue ------------------------------
(* What datalink/dlmstp.h promises of the PDU queue between the tasks that *)
(* send on MS/TP and the state machine that has the token: a bounded queue,*)
(* first in, first out.                                                    *)
EXTENDS Naturals, Sequences

CONSTANTS
  Pdu,      \* what is queued
  NoPdu,    \* nothing was sent yet
  Size      \* room in the queue

VARIABLES
  queue,    \* PDUs that were accepted and not sent yet
  sent      \* the PDU that was sent last

vars == <<queue, sent>>

Init == queue = <<>> /\ sent = NoPdu

Accept(p) ==
  /\ Len(queue) < Size
  /\ queue' = Append(queue, p)
  /\ UNCHANGED sent

Send ==
  /\ queue # <<>>
  /\ sent' = Head(queue)
  /\ queue' = Tail(queue)

Next == Send \/ \E p \in Pdu : Accept(p)

Spec == Init /\ [][Next]_vars
=============================================================================
