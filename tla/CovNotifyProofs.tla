-------------------------- MODULE CovNotifyProofs --------------------------
(* Theorems about CovNotify, for every value of its constants. *)
EXTENDS CovNotify, CovProofs

USE DEF Sub, AddrIndex, NoDest, Slot, InvokeID

-----------------------------------------------------------------------------
(* The world around the device only watches: each step of CovNotify is one *)
(* of Cov or leaves Cov's state alone.                                     *)

LEMMA WorldStep == [NNext]_nvars => [Next]_vars
<1> SUFFICES ASSUME [NNext]_nvars PROVE [Next]_vars
  OBVIOUS
<1>1. CASE NSubscribe
  BY <1>1 DEF NSubscribe, Next, SubscribeCOV
<1>2. ASSUME NEW o \in Object, NEW v \in Value, Write(o, v)
      PROVE  Next
  BY <1>2 DEF Write, Next
<1>3. ASSUME NEW id \in InvokeID, NAnswer(id)
      PROVE  [Next]_vars
  BY <1>3 DEF NAnswer, Next
<1>4. ASSUME NEW k \in Slot, NTsmTimer(k)
      PROVE  Next
  BY <1>4 DEF NTsmTimer, Next
<1>5. CASE NTimer
  BY <1>5 DEF NTimer, Next, bacnet_cov_task
<1>6. CASE NFsm
  <2>1. ASSUME NEW sent \in BOOLEAN, NSend(sent) PROVE FsmSend
    BY <2>1 DEF NSend, FsmSend
  <2>2. handler_cov_fsm
    BY <1>6, <2>1 DEF NFsm, handler_cov_fsm, FsmSend
  <2>3. QED
    BY <2>2 DEF Next, bacnet_cov_task
<1>7. CASE UNCHANGED nvars
  BY <1>7 DEF nvars
<1>8. QED
  BY <1>1, <1>2, <1>3, <1>4, <1>5, <1>6, <1>7 DEF NNext, NCovTask

(* Every behaviour of CovNotify is one of Cov, so that the theorems about  *)
(* the tables hold whatever clients and writers do.                        *)
THEOREM NotifyImplementsCov == NSafety => Spec
<1>1. NInit => Init
  BY DEF NInit
<1>2. QED
  BY <1>1, WorldStep, PTL DEF NSafety, Spec

LEMMA TablesCorrect == NSafety => [](TypeOK /\ AddressInv)
  BY NotifyImplementsCov, TypeCorrect, AddressListCorrect, PTL

-----------------------------------------------------------------------------
(* A slot that awaits its confirmation has an id, so a retry never asks    *)
(* the client for an answer to id 0.                                       *)
AwaitingHasID ==
  \A k \in Slot : tsm[k].state = "AWAIT_CONFIRMATION" => tsm[k].id # 0

LEMMA FreeKeepsAwaiting ==
  ASSUME TypeOK, AwaitingHasID, NEW ids, tsm' = tsm_free_invoke_ids(tsm, ids)
  PROVE  AwaitingHasID'
<1>1. \A k \in Slot : tsm'[k] = tsm[k] \/ tsm'[k].state = "IDLE"
  BY DEF tsm_free_invoke_ids, TypeOK, TsmTable, SlotRecord
<1>2. QED
  BY <1>1 DEF AwaitingHasID

LEMMA ReleaseKeepsAwaiting ==
  ASSUME TypeOK, AwaitingHasID, NEW i \in Sub, tsm' = TransactionReleased(i)
  PROVE  AwaitingHasID'
<1>1. CASE tsm' = tsm
  BY <1>1 DEF AwaitingHasID
<1>2. CASE tsm' = tsm_free_invoke_ids(tsm, {subs[i].invokeID})
  BY <1>2, FreeKeepsAwaiting
<1>3. QED
  BY <1>1, <1>2 DEF TransactionReleased, tsm_free_invoke_id

LEMMA StepAwaiting == TypeOK /\ AwaitingHasID /\ [Next]_vars => AwaitingHasID'
<1> SUFFICES ASSUME TypeOK, AwaitingHasID, [Next]_vars PROVE AwaitingHasID'
  OBVIOUS
<1>1. CASE UNCHANGED tsm
  BY <1>1 DEF AwaitingHasID
<1>2. ASSUME NEW i \in Sub, tsm' = TransactionReleased(i)
      PROVE  AwaitingHasID'
  BY <1>2, ReleaseKeepsAwaiting
<1>3. CASE SubscribeCOV
  BY <1>1, <1>2, <1>3 DEF SubscribeCOV, Cancel, Resubscribe, Subscribe
<1>4. ASSUME NEW id \in InvokeID, Answer(id)
      PROVE  AwaitingHasID'
  BY <1>4, FreeKeepsAwaiting DEF Answer, tsm_free_invoke_id
<1>5. ASSUME NEW k \in Slot, TsmTimer(k)
      PROVE  AwaitingHasID'
  <2>1. \A j \in Slot : tsm'[j].id = tsm[j].id
    BY <1>5 DEF TsmTimer, tsm_timer_expired, TypeOK, TsmTable, SlotRecord
  <2>2. \A j \in Slot : tsm'[j].state = tsm[j].state \/ tsm'[j].state = "IDLE"
    BY <1>5 DEF TsmTimer, tsm_timer_expired, TypeOK, TsmTable, SlotRecord
  <2>3. QED
    BY <2>1, <2>2 DEF AwaitingHasID
<1>6. CASE handler_cov_timer_seconds
  BY <1>6, FreeKeepsAwaiting DEF handler_cov_timer_seconds
<1>7. CASE FsmFree
  <2>1. \/ tsm' = tsm
        \/ tsm' = tsm_free_invoke_ids(tsm, {subs[index].invokeID})
    BY <1>7 DEF FsmFree, tsm_free_invoke_id
  <2>2. QED
    BY <1>1, <2>1, FreeKeepsAwaiting
<1>8. ASSUME NEW id \in InvokeID, NEW sent \in BOOLEAN,
             FsmSendConfirmed(id, sent)
      PROVE  AwaitingHasID'
  <2>1. \A k \in Slot : tsm'[k] = tsm[k] \/ tsm'[k].id = id
    BY <1>8 DEF FsmSendConfirmed, tsm_set_confirmed_unsegmented_transaction
  <2>2. QED
    BY <2>1 DEF AwaitingHasID
<1>9. QED
  BY <1>1, <1>3, <1>4, <1>5, <1>6, <1>7, <1>8
  DEF Next, ObjectChange, bacnet_cov_task, handler_cov_fsm, FsmIdle, FsmMark,
      FsmClear, FsmSend, FsmSendNothing, FsmSendUnconfirmed, vars

LEMMA InitNTypeOK == NInit => NTypeOK /\ AwaitingHasID
<1> SUFFICES ASSUME NInit PROVE NTypeOK /\ AwaitingHasID
  OBVIOUS
<1>1. lost \in BOOLEAN
  BY DEF NInit
<1>2. /\ val \in [Object -> Value] /\ told \in [Sub -> Value \cup {NoValue}]
      /\ owed \subseteq InvokeID
  BY NotifyAssumption DEF NInit
<1>3. owner \in [Sub -> Address \X Nat \X (Object \cup {AnalogInput0})]
  BY DEF NInit, ZeroAddress, Address, Octets
<1>4. AwaitingHasID
  BY DEF NInit, Init, AwaitingHasID, EmptyTsm, FreeSlot
<1> QED  BY <1>1, <1>2, <1>3, <1>4 DEF NTypeOK

LEMMA StepNTypeOK ==
  TypeOK /\ AwaitingHasID /\ NTypeOK /\ [NNext]_nvars => NTypeOK'
<1> SUFFICES ASSUME TypeOK, AwaitingHasID, NTypeOK, [NNext]_nvars
             PROVE  NTypeOK'
  OBVIOUS
<1> USE DEF NTypeOK
<1>1. CASE NSubscribe
  <2>1. Request \subseteq Address \X Nat \X (Object \cup {AnalogInput0})
    BY CovAssumption
  <2>2. ASSUME NEW i \in Sub, NEW r \in Request,
               owner' = [owner EXCEPT ![i] = r],
               told' = [told EXCEPT ![i] = NoValue], UNCHANGED <<val, network>>
        PROVE  NTypeOK'
    <3> DEFINE Keys == Address \X Nat \X (Object \cup {AnalogInput0})
    <3>1. r \in Keys /\ owner \in [Sub -> Keys]
      BY <2>1
    <3> HIDE DEF Keys
    <3>2. owner' \in [Sub -> Keys]
      BY <2>2, <3>1
    <3>3. QED
      BY <2>2, <3>2 DEF Keys, network
  <2>3. QED
    BY <1>1, <2>2 DEF NSubscribe, world, network
<1>2. ASSUME NEW o \in Object, NEW v \in Value, Write(o, v)
      PROVE  NTypeOK'
  BY <1>2 DEF Write, network
<1>3. ASSUME NEW id \in InvokeID, NAnswer(id)
      PROVE  NTypeOK'
  BY <1>3 DEF NAnswer
<1>4. ASSUME NEW k \in Slot, NTsmTimer(k)
      PROVE  NTypeOK'
  <2>1. tsm[k].id \in InvokeID
    BY <1>4 DEF NTsmTimer, TsmTimer, TypeOK, TsmTable, SlotRecord, AwaitingHasID
  <2>2. QED
    BY <1>4, <2>1 DEF NTsmTimer, AnswerDue, network
<1>5. CASE NTimer
  BY <1>5 DEF NTimer, world, network
<1>6. ASSUME NEW sent \in BOOLEAN, NSend(sent)
      PROVE  NTypeOK'
  <2>1. index \in Sub /\ subs[index].valid
    BY <1>6 DEF NSend, FsmSendUnconfirmed, FsmSendConfirmed, SendDue, TypeOK
  <2>2. val[subs[index].object] \in Value
    BY <2>1 DEF TypeOK
  <2>3. UNCHANGED <<val, owner>> /\ told' \in [Sub -> Value \cup {NoValue}]
    BY <1>6, <2>1, <2>2 DEF NSend, Notified
  <2>4. owed' \subseteq InvokeID /\ lost' \in BOOLEAN
    BY <1>6 DEF NSend, AnswerDue, network
  <2>5. QED
    BY <2>3, <2>4
<1>7. CASE UNCHANGED world
  BY <1>7 DEF world, network
<1>8. QED
  BY <1>1, <1>2, <1>3, <1>4, <1>5, <1>6, <1>7
  DEF NNext, NCovTask, NFsm, nvars

(* The variables of the world keep their types.                            *)
THEOREM NotifyTypeCorrect == NSafety => []NTypeOK
<1>1. TypeOK /\ AwaitingHasID /\ NTypeOK /\ [NNext]_nvars
        => (AwaitingHasID /\ NTypeOK)'
  BY WorldStep, StepAwaiting, StepNTypeOK
<1>2. QED
  BY <1>1, InitNTypeOK, TablesCorrect, PTL DEF NSafety

-----------------------------------------------------------------------------
(* A subscription is the request of its client: the address it notifies,   *)
(* its process id and its object are the client's own.                     *)
ClientInv ==
  /\ DestIsSubscriber
  /\ \A i \in Sub : subs[i].valid => owner[i] \in Request

LEMMA SourceOfRequest ==
  ASSUME NEW r \in Request
  PROVE  r = <<r[1], r[2], r[3]>>
  BY CovAssumption

(* A source that compares equal to the address of a live entry is that     *)
(* address: some client was asked for it.                                  *)
LEMMA HitIsSource ==
  ASSUME DistinctSources, TypeOK, AddressInv, ClientInv,
         NEW r \in Request, NEW a \in AddrIndex, AddressHit(r[1], a)
  PROVE  addrs[a].dest = r[1]
<1>1. PICK j \in Sub : subs[j].valid /\ subs[j].dest = a
  BY DEF AddressHit, AddressInv, NoAddressLeak
<1>2. PICK q \in Request : q[1] = addrs[a].dest
  <2>1. owner[j] \in Request /\ owner[j][1] = addrs[a].dest
    BY <1>1 DEF ClientInv, DestIsSubscriber, Addressed
  <2>2. QED
    BY <2>1
<1>3. QED
  BY <1>2 DEF AddressHit, DistinctSources

LEMMA SubscribeKeepsClientInv ==
  ASSUME DistinctSources, TypeOK, NTypeOK, AddressInv, ClientInv,
         NEW i \in Sub, NEW r \in Request, NEW c \in BOOLEAN,
         NEW l \in Lifetime, Subscribe(i, r, c, l),
         owner' = [owner EXCEPT ![i] = r]
  PROVE  ClientInv'
<1>1. PICK a \in AddrIndex :
        /\ cov_address_add(r[1], a)
        /\ addrs' = AddressAdded(r[1], a)
        /\ subs' = [subs EXCEPT ![i] =
                      [valid |-> TRUE, confirmed |-> c,
                       send_requested |-> TRUE, dest |-> a, invokeID |-> 0,
                       pid |-> r[2], lifetime |-> l, object |-> r[3]]]
  BY DEF Subscribe
<1>2. addrs'[a].dest = r[1]
  <2>1. CASE addrs[a].valid
    <3>1. AddressHit(r[1], a)
      BY <1>1, <2>1 DEF cov_address_add
    <3>2. QED
      BY <1>1, <2>1, <3>1, HitIsSource DEF AddressAdded
  <2>2. CASE ~ addrs[a].valid
    BY <1>1, <2>2 DEF AddressAdded, TypeOK
  <2>3. QED
    BY <2>1, <2>2
<1>3. /\ subs'[i].dest = a /\ subs'[i].pid = r[2] /\ subs'[i].object = r[3]
      /\ owner'[i] = r
  BY <1>1 DEF TypeOK, NTypeOK
<1>4. ASSUME NEW j \in Sub, j # i, subs'[j].valid
      PROVE  Addressed(j)' = owner'[j] /\ owner'[j] \in Request
  <2>1. subs'[j] = subs[j] /\ owner'[j] = owner[j]
    BY <1>1, <1>4 DEF TypeOK, NTypeOK
  <2>2. subs[j].dest \in AddrIndex /\ addrs[subs[j].dest].valid
    BY <1>4, <2>1 DEF AddressInv, DestinationsLive
  <2>3. addrs'[subs[j].dest] = addrs[subs[j].dest]
    BY <1>1, <2>2 DEF AddressAdded, TypeOK
  <2>4. QED
    BY <1>4, <2>1, <2>3 DEF ClientInv, DestIsSubscriber, Addressed
<1>5. Addressed(i)' = owner'[i] /\ owner'[i] \in Request
  BY <1>2, <1>3, SourceOfRequest DEF Addressed
<1>6. QED
  BY <1>4, <1>5 DEF ClientInv, DestIsSubscriber

LEMMA RenewalKeepsClientInv ==
  ASSUME DistinctSources, TypeOK, NTypeOK, AddressInv, ClientInv,
         NEW i \in Sub, NEW r \in Request, NEW c \in BOOLEAN,
         NEW l \in Lifetime, Resubscribe(i, r, c, l),
         owner' = [owner EXCEPT ![i] = r]
  PROVE  ClientInv'
<1> DEFINE d == subs[i].dest
<1>1. Matches(i, r)
  BY DEF Resubscribe, Existing
<1>2. d \in AddrIndex /\ addrs[d].valid /\ AddressHit(r[1], d)
  BY <1>1 DEF Matches, AddressInv, DestinationsLive, AddressHit
<1>3. addrs[d].dest = r[1]
  BY <1>2, HitIsSource
<1>4. PICK a \in AddrIndex :
        /\ cov_address_add(r[1], a)
        /\ addrs' = AddressAdded(r[1], a)
        /\ subs' = [subs EXCEPT ![i] =
                      [@ EXCEPT !.dest = a, !.confirmed = c, !.lifetime = l,
                                !.send_requested = TRUE, !.invokeID = 0]]
  BY DEF Resubscribe
<1>5. a = d /\ addrs' = addrs
  BY <1>1, <1>4, RenewalKeepsAddress
<1>6. /\ subs'[i].dest = d
      /\ subs'[i].pid = subs[i].pid
      /\ subs'[i].object = subs[i].object
      /\ owner'[i] = r
  BY <1>4, <1>5 DEF TypeOK, NTypeOK, Subscription
<1>7. Addressed(i)' = owner'[i] /\ owner'[i] \in Request
  <2>1. <<r[1], subs[i].pid, subs[i].object>> = r
    BY <1>1, SourceOfRequest DEF Matches
  <2>2. QED
    BY <1>3, <1>5, <1>6, <2>1 DEF Addressed
<1>8. ASSUME NEW j \in Sub, j # i, subs'[j].valid
      PROVE  Addressed(j)' = owner'[j] /\ owner'[j] \in Request
  <2>1. subs'[j] = subs[j] /\ owner'[j] = owner[j]
    BY <1>4, <1>8 DEF TypeOK, NTypeOK
  <2>2. QED
    BY <1>5, <1>8, <2>1 DEF ClientInv, DestIsSubscriber, Addressed
<1>9. QED
  BY <1>7, <1>8 DEF ClientInv, DestIsSubscriber

(* Every other step keeps the key of an entry that stays valid, makes none *)
(* valid, and leaves the clients as they are.                              *)
LEMMA OtherStepsKeepKeys ==
  ASSUME TypeOK,
         \/ UNCHANGED subs
         \/ \E i \in Sub, r \in Request : Cancel(i, r)
         \/ bacnet_cov_task,
         NEW j \in Sub, subs'[j].valid
  PROVE  /\ subs[j].valid
         /\ subs'[j].pid = subs[j].pid
         /\ subs'[j].object = subs[j].object
<1>1. ASSUME NEW i \in Sub, NEW r \in Request, Cancel(i, r)
      PROVE  subs'[j] = subs[j]
  BY <1>1 DEF Cancel, TypeOK, Subscription
<1>2. CASE handler_cov_timer_seconds
  BY <1>2 DEF handler_cov_timer_seconds, TypeOK, Subscription
<1>3. CASE UNCHANGED subs
  BY <1>3
<1>4. CASE FsmMark
  BY <1>4 DEF FsmMark, TypeOK, Subscription
<1>5. CASE FsmFree
  BY <1>5 DEF FsmFree, TypeOK, Subscription
<1>6. ASSUME NEW sent \in BOOLEAN, FsmSendUnconfirmed(sent)
      PROVE  /\ subs[j].valid
             /\ subs'[j].pid = subs[j].pid
             /\ subs'[j].object = subs[j].object
  BY <1>6 DEF FsmSendUnconfirmed, TypeOK, Subscription
<1>7. ASSUME NEW sent \in BOOLEAN, NEW id \in InvokeID,
             FsmSendConfirmed(id, sent)
      PROVE  /\ subs[j].valid
             /\ subs'[j].pid = subs[j].pid
             /\ subs'[j].object = subs[j].object
  BY <1>7 DEF FsmSendConfirmed, TypeOK, Subscription
<1>8. QED
  BY <1>1, <1>2, <1>3, <1>4, <1>5, <1>6, <1>7
  DEF bacnet_cov_task, handler_cov_fsm, FsmIdle, FsmClear, FsmSend,
      FsmSendNothing

LEMMA StepClientInv ==
  ASSUME DistinctSources, TypeOK, NTypeOK, AddressInv, ClientInv,
         [NNext]_nvars
  PROVE  ClientInv'
<1>1. ASSUME NEW i \in Sub, NEW r \in Request, NEW c \in BOOLEAN,
             NEW l \in Lifetime,
             Resubscribe(i, r, c, l) \/ Subscribe(i, r, c, l),
             owner' = [owner EXCEPT ![i] = r]
      PROVE  ClientInv'
  BY <1>1, SubscribeKeepsClientInv, RenewalKeepsClientInv
<1>2. ASSUME UNCHANGED owner,
             \/ UNCHANGED subs
             \/ \E i \in Sub, r \in Request : Cancel(i, r)
             \/ bacnet_cov_task
      PROVE  ClientInv'
  <2>1. SUFFICES ASSUME NEW j \in Sub, subs'[j].valid
                 PROVE  Addressed(j)' = owner[j] /\ owner[j] \in Request
    BY <1>2 DEF ClientInv, DestIsSubscriber
  <2>2. /\ subs[j].valid
        /\ subs'[j].pid = subs[j].pid
        /\ subs'[j].object = subs[j].object
    BY <1>2, <2>1, OtherStepsKeepKeys
  <2>3. [Next]_vars
    BY WorldStep
  <2>4. addrs'[subs'[j].dest].dest = addrs[subs[j].dest].dest
    BY <2>1, <2>2, <2>3, StepDestinationStable
  <2>5. QED
    BY <2>2, <2>4 DEF ClientInv, DestIsSubscriber, Addressed
<1>3. CASE NSubscribe
  BY <1>1, <1>2, <1>3 DEF NSubscribe, world
<1>4. ASSUME NEW o \in Object, NEW v \in Value, Write(o, v)
      PROVE  ClientInv'
  BY <1>2, <1>4 DEF Write, ObjectChange
<1>5. ASSUME NEW id \in InvokeID, NAnswer(id)
      PROVE  ClientInv'
  BY <1>2, <1>5 DEF NAnswer, Answer, vars
<1>6. ASSUME NEW k \in Slot, NTsmTimer(k)
      PROVE  ClientInv'
  BY <1>2, <1>6 DEF NTsmTimer, TsmTimer
<1>7. CASE NTimer
  BY <1>2, <1>7 DEF NTimer, bacnet_cov_task, world
<1>8. CASE NFsm
  <2>1. ASSUME NEW sent \in BOOLEAN, NSend(sent)
        PROVE  FsmSend /\ UNCHANGED owner
    BY <2>1 DEF NSend, FsmSend, Notified
  <2>2. UNCHANGED owner /\ bacnet_cov_task
    BY <1>8, <2>1 DEF NFsm, bacnet_cov_task, handler_cov_fsm, FsmSend, world
  <2>3. QED
    BY <1>2, <2>2
<1>9. CASE UNCHANGED nvars
  BY <1>2, <1>9 DEF nvars, vars, world
<1>10. QED
  BY <1>3, <1>4, <1>5, <1>6, <1>7, <1>8, <1>9 DEF NNext, NCovTask

LEMMA InitClientInv == NInit => ClientInv
  BY DEF NInit, Init, ClientInv, DestIsSubscriber

(* Where the stack can tell the sources of the requests apart (stations of *)
(* the MS/TP segment, stations behind routers, a single IP station), every *)
(* notification goes to the client that asked for it.                      *)
THEOREM SubscriberIsNotified ==
  ASSUME DistinctSources
  PROVE  NSafety => [](TypeOK /\ AddressInv /\ ClientInv /\ DestIsSubscriber)
<1>1. TypeOK /\ NTypeOK /\ AddressInv /\ ClientInv /\ [NNext]_nvars
        => ClientInv'
  BY StepClientInv
<1>2. ClientInv => DestIsSubscriber
  BY DEF ClientInv
<1>3. QED
  BY <1>1, <1>2, InitClientInv, TablesCorrect, NotifyTypeCorrect, PTL
  DEF NSafety

-----------------------------------------------------------------------------
(* Two live entries for one object are one entry when no object is asked   *)
(* for twice.                                                              *)
LEMMA OneEntryPerObject ==
  ASSUME OneRequestPerObject, TypeOK, AddressInv, ClientInv,
         NEW i \in Sub, NEW j \in Sub, subs[i].valid, subs[j].valid,
         subs[i].object = subs[j].object
  PROVE  i = j
<1>1. /\ owner[i] \in Request /\ Addressed(i) = owner[i]
      /\ owner[j] \in Request /\ Addressed(j) = owner[j]
  BY DEF ClientInv, DestIsSubscriber
<1>2. owner[i][3] = owner[j][3]
  BY <1>1 DEF Addressed
<1>3. Addressed(i) = Addressed(j)
  BY <1>1, <1>2 DEF OneRequestPerObject
<1>4. /\ addrs[subs[i].dest].dest = addrs[subs[j].dest].dest
      /\ subs[i].pid = subs[j].pid
  BY <1>3 DEF Addressed
<1>5. /\ subs[i].dest \in AddrIndex /\ addrs[subs[i].dest].valid
      /\ subs[j].dest \in AddrIndex /\ addrs[subs[j].dest].valid
  BY DEF AddressInv, DestinationsLive
<1>6. subs[i].dest = subs[j].dest
  BY <1>4, <1>5, SameEquivalence DEF AddressInv, AddressesDistinct
<1>7. QED
  BY <1>4, <1>6 DEF AddressInv, OneSubscriptionPerKey

LEMMA RequestedKeepsNoLostChange ==
  ASSUME TypeOK, NTypeOK, NoLostChange, NEW i \in Sub,
         subs'[i].send_requested,
         \A j \in Sub : j # i => subs'[j] = subs[j] /\ told'[j] = told[j],
         UNCHANGED <<val, changed>>
  PROVE  NoLostChange'
  BY DEF NoLostChange

LEMMA StepNoLostChange ==
  ASSUME OneRequestPerObject, TypeOK, NTypeOK, AddressInv, ClientInv,
         NoLostChange, [NNext]_nvars
  PROVE  NoLostChange'
<1>1. CASE NSubscribe
  <2>1. ASSUME NEW i \in Sub, NEW r \in Request, NEW c \in BOOLEAN,
               NEW l \in Lifetime,
               Resubscribe(i, r, c, l) \/ Subscribe(i, r, c, l),
               told' = [told EXCEPT ![i] = NoValue], UNCHANGED val
        PROVE  NoLostChange'
    <3>1. subs'[i].send_requested
      <4>1. CASE Subscribe(i, r, c, l)
        BY <4>1 DEF Subscribe, TypeOK
      <4>2. CASE Resubscribe(i, r, c, l)
        <5>1. PICK a \in AddrIndex :
                subs'[i] = [subs[i] EXCEPT
                              !.dest = a, !.confirmed = c, !.lifetime = l,
                              !.send_requested = TRUE, !.invokeID = 0]
          BY <4>2 DEF Resubscribe, TypeOK
        <5>2. subs[i] \in Subscription
          BY DEF TypeOK
        <5>3. QED
          BY <5>1, <5>2 DEF Subscription
      <4>3. QED
        BY <2>1, <4>1, <4>2
    <3>2. \A j \in Sub : j # i => subs'[j] = subs[j] /\ told'[j] = told[j]
      BY <2>1 DEF Resubscribe, Subscribe, TypeOK, NTypeOK
    <3>3. UNCHANGED changed
      BY <2>1 DEF Resubscribe, Subscribe
    <3>4. QED
      BY <2>1, <3>1, <3>2, <3>3, RequestedKeepsNoLostChange
  <2>2. ASSUME NEW i \in Sub, NEW r \in Request, Cancel(i, r), UNCHANGED world
        PROVE  NoLostChange'
    <3>1. \A j \in Sub : subs'[j].valid => subs'[j] = subs[j]
      BY <2>2 DEF Cancel, TypeOK, Subscription
    <3>2. QED
      BY <2>2, <3>1 DEF Cancel, world, NoLostChange
  <2>3. QED
    BY <1>1, <2>1, <2>2 DEF NSubscribe
<1>2. ASSUME NEW o \in Object, NEW v \in Value, Write(o, v)
      PROVE  NoLostChange'
  BY <1>2 DEF Write, ObjectChange, NoLostChange, TypeOK, NTypeOK
<1>3. ASSUME UNCHANGED <<subs, changed, val, told>>
      PROVE  NoLostChange'
  BY <1>3 DEF NoLostChange
<1>4. ASSUME NEW id \in InvokeID, NAnswer(id)
      PROVE  NoLostChange'
  BY <1>3, <1>4 DEF NAnswer, Answer, vars
<1>5. ASSUME NEW k \in Slot, NTsmTimer(k)
      PROVE  NoLostChange'
  BY <1>3, <1>5 DEF NTsmTimer, TsmTimer
<1>6. CASE NTimer
  <2>1. \A j \in Sub : subs'[j].valid =>
          /\ subs[j].valid
          /\ subs'[j].object = subs[j].object
          /\ subs'[j].send_requested = subs[j].send_requested
    BY <1>6 DEF NTimer, handler_cov_timer_seconds, TypeOK, Subscription
  <2>2. QED
    BY <1>6, <2>1 DEF NTimer, handler_cov_timer_seconds, world, NoLostChange
<1>7. CASE FsmMark /\ UNCHANGED world
  <2>1. \A j \in Sub : /\ subs'[j].valid = subs[j].valid
                       /\ subs'[j].object = subs[j].object
                       /\ subs[j].send_requested => subs'[j].send_requested
    BY <1>7 DEF FsmMark, TypeOK, Subscription
  <2>2. QED
    BY <1>7, <2>1 DEF FsmMark, world, NoLostChange
<1>8. CASE FsmClear /\ UNCHANGED world
  <2>1. SUFFICES ASSUME NEW j \in Sub, subs[j].valid,
                        told[j] # val[subs[j].object],
                        ~ subs[j].send_requested
                 PROVE  changed'[subs[j].object]
    BY <1>8 DEF FsmClear, world, NoLostChange
  <2>2. changed[subs[j].object] /\ subs[j].object \in Object /\ index \in Sub
    BY <2>1 DEF NoLostChange, TypeOK
  <2>3. CASE subs[index].valid /\ subs[index].send_requested
    <3>1. subs[index].object # subs[j].object
      BY <2>1, <2>2, <2>3, OneEntryPerObject
    <3>2. QED
      BY <1>8, <2>2, <3>1 DEF FsmClear, TypeOK
  <2>4. QED
    BY <1>8, <2>2, <2>3 DEF FsmClear
<1>9. CASE FsmFree /\ UNCHANGED world
  <2>1. \A j \in Sub : /\ subs'[j].valid = subs[j].valid
                       /\ subs'[j].object = subs[j].object
                       /\ subs'[j].send_requested = subs[j].send_requested
    BY <1>9 DEF FsmFree, TypeOK, Subscription
  <2>2. QED
    BY <1>9, <2>1 DEF FsmFree, world, NoLostChange
<1>10. CASE (FsmIdle \/ FsmSendNothing) /\ UNCHANGED world
  BY <1>3, <1>10 DEF FsmIdle, FsmSendNothing, world
<1>11. ASSUME NEW sent \in BOOLEAN, NSend(sent)
       PROVE  NoLostChange'
  <2>1. /\ UNCHANGED <<val, changed>> /\ index \in Sub /\ subs[index].valid
        /\ subs[index].send_requested
    BY <1>11 DEF NSend, Notified, FsmSendUnconfirmed, FsmSendConfirmed,
                 SendDue, TypeOK
  <2>2. \A j \in Sub : /\ subs'[j].valid = subs[j].valid
                       /\ subs'[j].object = subs[j].object
                       /\ j # index => subs'[j].send_requested
                                         = subs[j].send_requested
    <3>1. CASE FsmSendUnconfirmed(sent)
      BY <3>1 DEF FsmSendUnconfirmed, TypeOK, Subscription
    <3>2. ASSUME NEW id \in InvokeID, FsmSendConfirmed(id, sent)
          PROVE  \A j \in Sub :
                   /\ subs'[j].valid = subs[j].valid
                   /\ subs'[j].object = subs[j].object
                   /\ j # index => subs'[j].send_requested
                                     = subs[j].send_requested
      BY <3>2 DEF FsmSendConfirmed, TypeOK, Subscription
    <3>3. QED
      BY <1>11, <3>1, <3>2 DEF NSend
  <2>3. subs'[index].send_requested = ~ sent
    <3>1. CASE FsmSendUnconfirmed(sent)
      BY <2>1, <3>1 DEF FsmSendUnconfirmed, TypeOK, Subscription
    <3>2. ASSUME NEW id \in InvokeID, FsmSendConfirmed(id, sent)
          PROVE  subs'[index].send_requested = ~ sent
      BY <2>1, <3>2 DEF FsmSendConfirmed, TypeOK, Subscription
    <3>3. QED
      BY <1>11, <3>1, <3>2 DEF NSend
  <2>4. \A j \in Sub : j # index => told'[j] = told[j]
    BY <1>11 DEF NSend, Notified, NTypeOK
  <2>5. sent => told'[index] = val[subs[index].object]
    BY <1>11, <2>1 DEF NSend, Notified, NTypeOK, ClientInv, DestIsSubscriber
  <2>6. QED
    BY <2>1, <2>2, <2>3, <2>4, <2>5 DEF NoLostChange
<1>12. CASE UNCHANGED nvars
  BY <1>3, <1>12 DEF nvars, vars, world
<1>13. QED
  BY <1>1, <1>2, <1>4, <1>5, <1>6, <1>7, <1>8, <1>9, <1>10, <1>11, <1>12
  DEF NNext, NCovTask, NFsm

LEMMA InitNoLostChange == NInit => NoLostChange
  BY DEF NInit, Init, NoLostChange

(* With one subscription for each object, and clients the stack can tell   *)
(* apart, no interleaving of writers, requests, answers, failed sends and  *)
(* COV steps loses a change.  Drop OneRequestPerObject and the CLEAR state *)
(* does lose them.                                                         *)
THEOREM NoChangeLost ==
  ASSUME DistinctSources, OneRequestPerObject
  PROVE  NSafety => []NoLostChange
<1>1. TypeOK /\ NTypeOK /\ AddressInv /\ ClientInv /\ NoLostChange
        /\ [NNext]_nvars => NoLostChange'
  BY StepNoLostChange
<1>2. QED
  BY <1>1, InitNoLostChange, SubscriberIsNotified, NotifyTypeCorrect, PTL
  DEF NSafety
=============================================================================
