----------------------------- MODULE CovNotify -----------------------------
(***************************************************************************)
(* What the subscriptions of Cov are for: a client that subscribed learns  *)
(* the value of the object.  Each action of Cov is taken together with the *)
(* world around the device: the value of each object, the client that made *)
(* each subscription and the last value it was sent, and the confirmed     *)
(* notifications a client still has to answer.                             *)
(***************************************************************************)
EXTENDS Cov

CONSTANTS
  Value,          \* values of an object that are a COV increment apart
  InitialValue,   \* what every object holds after a restart
  NoValue,        \* what a client knows before its first notification
  AnswersLost,    \* can the answer to a confirmed notification be lost?
  AnswersPrompt,  \* do answers arrive before the next second's COV step?
  SendMayFail     \* can the datalink refuse a PDU it could address?

ASSUME NotifyAssumption ==
  /\ InitialValue \in Value
  /\ NoValue \notin Value
  /\ AnswersLost \in BOOLEAN
  /\ AnswersPrompt \in BOOLEAN
  /\ SendMayFail \in BOOLEAN

VARIABLES
  val,     \* Present_Value of each object
  owner,   \* the request each entry was made or renewed for
  told,    \* the value that client was last notified of
  owed,    \* invoke ids whose answers are still to arrive
  lost     \* has an answer ever been lost?

network == <<owed, lost>>
world == <<val, owner, told, network>>
nvars == <<vars, world>>

NInit ==
  /\ Init
  /\ val = [o \in Object |-> InitialValue]
  /\ owner = [i \in Sub |-> <<ZeroAddress, 0, AnalogInput0>>]
  /\ told = [i \in Sub |-> NoValue]
  /\ owed = {}
  /\ lost = FALSE

-----------------------------------------------------------------------------
(* SubscribeCOV: the client that asks is the one to be told.               *)
NSubscribe ==
  \E i \in Sub, r \in Request :
    \/ /\ \E confirmed \in BOOLEAN, lifetime \in Lifetime :
            Resubscribe(i, r, confirmed, lifetime)
              \/ Subscribe(i, r, confirmed, lifetime)
       /\ owner' = [owner EXCEPT ![i] = r]
       /\ told' = [told EXCEPT ![i] = NoValue]
       /\ UNCHANGED <<val, network>>
    \/ Cancel(i, r) /\ UNCHANGED world

(* Present_Value_Set of an object, with a change its COV_Detect flags.     *)
Write(o, v) ==
  /\ val[o] # v
  /\ ObjectChange(o)
  /\ val' = [val EXCEPT ![o] = v]
  /\ UNCHANGED <<owner, told, network>>

(* The answer of the client.  If its transaction was freed meanwhile       *)
(* apdu_handler finds nothing to free.                                     *)
NAnswer(id) ==
  /\ id \in owed
  /\ owed' = owed \ {id}
  /\ Answer(id) \/ (LockFree /\ ~ InUse(tsm, id) /\ UNCHANGED vars)
  /\ UNCHANGED <<val, owner, told, lost>>

(* The client answers notification id, unless one of the two gets lost.    *)
AnswerDue(id) ==
  \/ owed' = owed \cup {id} /\ UNCHANGED lost
  \/ AnswersLost /\ lost' = TRUE /\ UNCHANGED owed

(* A retry makes the client answer again.                                  *)
NTsmTimer(k) ==
  /\ TsmTimer(k)
  /\ IF tsm'[k].state = "AWAIT_CONFIRMATION"
       THEN AnswerDue(tsm[k].id)
       ELSE UNCHANGED network
  /\ UNCHANGED <<val, owner, told>>

-----------------------------------------------------------------------------
(* bacnet_cov_task.                                                        *)

NTimer ==
  /\ AnswersPrompt => owed = {}
  /\ handler_cov_timer_seconds
  /\ UNCHANGED world

(* Where a notification of entry i is sent, and the process id and object  *)
(* it names.                                                               *)
Addressed(i) ==
  <<addrs[subs[i].dest].dest, subs[i].pid, subs[i].object>>

(* Entry index is sent, or is not, as the link allows.  Only a PDU that    *)
(* goes to the client itself, for what it asked, tells it something.       *)
Notified(sent) ==
  /\ ~ sent => SendMayFail \/ ~ LinkTakes(addrs[subs[index].dest].dest)
  /\ told' = IF sent /\ Addressed(index) = owner[index]
               THEN [told EXCEPT ![index] = val[subs[index].object]]
               ELSE told
  /\ UNCHANGED <<val, owner>>

(* Variant: the PDU is encoded before the entry has its invoke id.         *)
NSend_IdTooEarly(sent) ==
  \/ FsmSendUnconfirmed(sent) /\ Notified(sent) /\ UNCHANGED network
  \/ \E id \in InvokeID :
       /\ FsmSendConfirmed(id, sent)
       /\ Notified(sent)
       /\ IF sent THEN AnswerDue(subs[index].invokeID) ELSE UNCHANGED network

NSend(sent) ==
  \/ FsmSendUnconfirmed(sent) /\ Notified(sent) /\ UNCHANGED network
  \/ \E id \in InvokeID :
       /\ FsmSendConfirmed(id, sent)
       /\ Notified(sent)
       /\ IF sent THEN AnswerDue(id) ELSE UNCHANGED network

NFsm ==
  \/ (FsmIdle \/ FsmMark \/ FsmClear \/ FsmFree \/ FsmSendNothing)
       /\ UNCHANGED world
  \/ \E sent \in BOOLEAN : NSend(sent)

NCovTask == NTimer \/ NFsm

NNext ==
  \/ NSubscribe
  \/ \E o \in Object, v \in Value : Write(o, v)
  \/ \E id \in InvokeID : NAnswer(id)
  \/ \E k \in Slot : NTsmTimer(k)
  \/ NCovTask

(* bacnet_cov_task wakes once a second for good, so its step is weakly     *)
(* fair.  A receive task waits for the mutex at a higher priority than the *)
(* COV task and is given it when that one releases it, so an answer that   *)
(* arrived is handled although the mutex is taken again and again: strong  *)
(* fairness.  Nothing is assumed of clients that subscribe, of writers, of *)
(* what gets lost, or of the transaction timer, which no task runs.        *)
Fairness ==
  /\ WF_nvars(NCovTask)
  /\ \A id \in InvokeID : SF_nvars(NAnswer(id))

NSafety == NInit /\ [][NNext]_nvars

NSpec == NSafety /\ Fairness

-----------------------------------------------------------------------------
NTypeOK ==
  /\ val \in [Object -> Value]
  /\ owner \in [Sub -> Address \X Nat \X (Object \cup {AnalogInput0})]
  /\ told \in [Sub -> Value \cup {NoValue}]
  /\ owed \subseteq InvokeID
  /\ lost \in BOOLEAN

-----------------------------------------------------------------------------
(* What the theorems about the next invariants ask of the clients: the     *)
(* stack can tell the sources apart, and no object is subscribed to twice. *)
DistinctSources ==
  \A r, q \in Request : bacnet_address_same(r[1], q[1]) => r[1] = q[1]

OneRequestPerObject ==
  \A r, q \in Request : r[3] = q[3] => r = q

(* No change gets lost between the flag of the object, set by its writer   *)
(* at any time, and the send_requested flags that handler_cov_fsm computes *)
(* from it one entry a second: a client that does not know the value has   *)
(* one of the two still set for it.                                        *)
NoLostChange ==
  \A i \in Sub :
    subs[i].valid /\ told[i] # val[subs[i].object] =>
      changed[subs[i].object] \/ subs[i].send_requested

(* Notifications of a subscription go to the client that made it, with the *)
(* process id and object it gave: finding the existing entry, renewing it  *)
(* and sharing address entries never exchange clients or their processes.  *)
DestIsSubscriber ==
  \A i \in Sub : subs[i].valid => Addressed(i) = owner[i]

(* The flag of an object is only cleared when every subscription to it has *)
(* been checked, and so asks to be sent, as handler_cov_fsm's comment on   *)
(* its CLEAR state has it.                                                 *)
ClearedAfterChecking ==
  [][\A i \in Sub :
       LET o == subs[i].object
       IN subs[i].valid /\ changed[o] /\ ~ changed'[o] =>
            subs[i].send_requested]_nvars

(* A subscriber is in the end told a value that lasts, unless it goes      *)
(* away or an answer got lost: the transaction and the entry that wait for *)
(* an answer, however late, are freed by it and by the machine in time for *)
(* the next notification, and no retry or wrap of the ids gets in the way. *)
EventuallyTold ==
  \A i \in Sub, o \in Object, v \in Value :
    (subs[i].valid /\ subs[i].object = o /\ val[o] = v)
      ~> \/ ~ subs[i].valid \/ subs[i].object # o \/ val[o] # v
         \/ told[i] = v
         \/ lost

(* A transaction does not wait for its confirmation for ever, even if the  *)
(* answer got lost: the timer ends it, after its retries, as the comment   *)
(* on tsm_timer_milliseconds has it.  The firmware's tasks do not run it.  *)
AwaitEnds ==
  \A k \in Slot, id \in InvokeID :
    (tsm[k].id = id /\ tsm[k].state = "AWAIT_CONFIRMATION")
      ~> ~ (tsm[k].id = id /\ tsm[k].state = "AWAIT_CONFIRMATION")

(* The subscription an entry stands for.                                   *)
Promised(i) ==
  [request |-> owner[i],
   confirmed |-> subs[i].confirmed, lifetime |-> subs[i].lifetime,
   due |-> subs[i].send_requested, told |-> told[i]]

Book == {Promised(i) : i \in {j \in Sub : subs[j].valid}}
News == {o \in Object : changed[o]}

Service == INSTANCE CovService WITH book <- Book, news <- News

(* The tables, the shared addresses and the machine that takes one entry a *)
(* second together keep the service each client was promised: whatever the *)
(* order of requests, expirations, writes and refused sends, renewals and  *)
(* cancellations meet the subscription of that client alone, lifetimes are *)
(* counted down for all, and only a write makes one due again.             *)
ImplementsService == Service!Spec
=============================================================================
