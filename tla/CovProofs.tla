----------------------------- MODULE CovProofs -----------------------------
(* Theorems about Cov, for every value of its constants. *)
EXTENDS Cov, TLAPS

USE DEF Sub, AddrIndex, NoDest, Slot, InvokeID

(* Updates of one field, and of several, keep a record in its set. *)
LEMMA FieldUpdates ==
  ASSUME NEW s \in Subscription
  PROVE  /\ \A b \in BOOLEAN : /\ [s EXCEPT !.valid = b] \in Subscription
                             /\ [s EXCEPT !.confirmed = b] \in Subscription
                             /\ [s EXCEPT !.send_requested = b] \in Subscription
         /\ \A d \in AddrIndex \cup {NoDest} : [s EXCEPT !.dest = d] \in Subscription
         /\ \A id \in 0 .. MaxInvokeID : [s EXCEPT !.invokeID = id] \in Subscription
         /\ \A l \in 0 .. MaxLifetime : [s EXCEPT !.lifetime = l] \in Subscription
  BY DEF Subscription

LEMMA Bounds ==
  /\ 0 \in 0 .. MaxInvokeID
  /\ 0 \in 0 .. MaxLifetime
  /\ InvokeID \subseteq 0 .. MaxInvokeID
  /\ NoDest \in AddrIndex \cup {NoDest}
  BY TsmAssumption, CovAssumption

LEMMA CancelledType ==
  ASSUME NEW s \in Subscription
  PROVE  [s EXCEPT !.valid = FALSE, !.dest = NoDest, !.invokeID = 0]
           \in Subscription
<1> DEFINE s1 == [s EXCEPT !.valid = FALSE]
           s2 == [s1 EXCEPT !.dest = NoDest]
           s3 == [s2 EXCEPT !.invokeID = 0]
<1>1. s1 \in Subscription
  BY FieldUpdates
<1>2. s2 \in Subscription
  BY <1>1, FieldUpdates
<1>3. s3 \in Subscription
  BY <1>2, FieldUpdates, Bounds, Zenon
<1>4. QED
  BY <1>3

LEMMA ExpiredType ==
  ASSUME NEW s \in Subscription, NEW id \in 0 .. MaxInvokeID
  PROVE  [s EXCEPT !.valid = FALSE, !.dest = NoDest, !.lifetime = 0,
                   !.invokeID = id] \in Subscription
<1> DEFINE s1 == [s EXCEPT !.valid = FALSE]
           s2 == [s1 EXCEPT !.dest = NoDest]
           s3 == [s2 EXCEPT !.lifetime = 0]
           s4 == [s3 EXCEPT !.invokeID = id]
<1>1. s1 \in Subscription
  BY FieldUpdates
<1>2. s2 \in Subscription
  BY <1>1, FieldUpdates
<1>3. s3 \in Subscription
  BY <1>2, FieldUpdates, Bounds, Zenon
<1>4. s4 \in Subscription
  BY <1>3, FieldUpdates
<1>5. QED
  BY <1>4

LEMMA RenewedType ==
  ASSUME NEW s \in Subscription, NEW a \in AddrIndex, NEW c \in BOOLEAN,
         NEW l \in 0 .. MaxLifetime
  PROVE  [s EXCEPT !.dest = a, !.confirmed = c, !.lifetime = l,
                   !.send_requested = TRUE, !.invokeID = 0] \in Subscription
<1> DEFINE s1 == [s EXCEPT !.dest = a]
           s2 == [s1 EXCEPT !.confirmed = c]
           s3 == [s2 EXCEPT !.lifetime = l]
           s4 == [s3 EXCEPT !.send_requested = TRUE]
           s5 == [s4 EXCEPT !.invokeID = 0]
<1>1. s1 \in Subscription
  BY FieldUpdates
<1>2. s2 \in Subscription
  BY <1>1, FieldUpdates
<1>3. s3 \in Subscription
  BY <1>2, FieldUpdates
<1>4. s4 \in Subscription
  BY <1>3, FieldUpdates
<1>5. s5 \in Subscription
  BY <1>4, FieldUpdates, Bounds, Zenon
<1>6. QED
  BY <1>5

LEMMA SentType ==
  ASSUME NEW s \in Subscription, NEW b \in BOOLEAN, NEW id \in InvokeID
  PROVE  [s EXCEPT !.send_requested = b, !.invokeID = id] \in Subscription
<1> DEFINE s1 == [s EXCEPT !.send_requested = b]
           s2 == [s1 EXCEPT !.invokeID = id]
<1>1. s1 \in Subscription
  BY FieldUpdates
<1>2. s2 \in Subscription
  BY <1>1, FieldUpdates, Bounds, Zenon
<1>3. QED
  BY <1>2

(* The transaction table keeps its type under each operation on it. *)
LEMMA TsmFreeType ==
  ASSUME NEW t \in TsmTable, NEW ids
  PROVE  tsm_free_invoke_ids(t, ids) \in TsmTable
<1>1. \A s \in SlotRecord : /\ [s EXCEPT !.id = 0] \in SlotRecord
                           /\ [s EXCEPT !.state = "IDLE"] \in SlotRecord
  BY TsmAssumption DEF SlotRecord
<1>2. \A s \in SlotRecord :
        [s EXCEPT !.id = 0, !.state = "IDLE"] \in SlotRecord
  <2>1. TAKE s \in SlotRecord
  <2> DEFINE s1 == [s EXCEPT !.id = 0]
             s2 == [s1 EXCEPT !.state = "IDLE"]
  <2>2. s1 \in SlotRecord
    BY <1>1
  <2>3. s2 \in SlotRecord
    BY <1>1, <2>2
  <2>4. QED
    BY <2>3
<1>3. QED
  BY <1>2 DEF tsm_free_invoke_ids, TsmTable

LEMMA TsmReserveType ==
  ASSUME NEW t \in TsmTable, NEW id \in InvokeID
  PROVE  tsm_set_confirmed_unsegmented_transaction(t, id) \in TsmTable
  BY TsmAssumption
  DEF tsm_set_confirmed_unsegmented_transaction, TsmTable, SlotRecord

LEMMA TsmTimerType ==
  ASSUME NEW t \in TsmTable, NEW k \in Slot
  PROVE  tsm_timer_expired(t, k) \in TsmTable
  BY TsmAssumption DEF tsm_timer_expired, TsmTable, SlotRecord

LEMMA TransactionReleasedType ==
  ASSUME TypeOK, NEW i \in Sub
  PROVE  TransactionReleased(i) \in TsmTable
  BY TsmFreeType DEF TransactionReleased, tsm_free_invoke_id, TypeOK

(* A request is a source, a process id and a monitored object. *)
LEMMA RequestType ==
  ASSUME NEW r \in Request
  PROVE  r[1] \in Address /\ r[2] \in Nat /\ r[3] \in Object
  BY CovAssumption

LEMMA AddressAddedType ==
  ASSUME TypeOK, NEW src \in Address, NEW a \in AddrIndex
  PROVE  AddressAdded(src, a) \in [AddrIndex -> CovAddress]
  BY DEF AddressAdded, TypeOK, CovAddress

LEMMA RemoveUnusedType ==
  ASSUME TypeOK, NEW s
  PROVE  cov_address_remove_unused(s) \in [AddrIndex -> CovAddress]
  BY DEF cov_address_remove_unused, TypeOK, CovAddress

LEMMA NextIndexType ==
  ASSUME TypeOK, NEW next \in FsmState, NextIndex(next)
  PROVE  index' \in Sub /\ state' \in FsmState
  BY CovAssumption DEF NextIndex, TypeOK, FsmState

LEMMA InitType == Init => TypeOK
  BY CovAssumption, TsmAssumption
  DEF Init, TypeOK, Subscription, CovAddress, TsmTable, SlotRecord, EmptyTsm,
      FreeSlot, FsmState, ZeroAddress, Address, Octets

LEMMA StepType == TypeOK /\ [Next]_vars => TypeOK'
<1> SUFFICES ASSUME TypeOK, [Next]_vars PROVE TypeOK'
  OBVIOUS
<1> USE DEF TypeOK
<1>1. ASSUME NEW i \in Sub, NEW r \in Request, Cancel(i, r) PROVE TypeOK'
  <2>1. subs' \in [Sub -> Subscription]
    BY <1>1, CancelledType DEF Cancel
  <2>2. \A j \in Sub : subs'[j].valid => subs'[j].object \in Object
    BY <1>1 DEF Cancel, Subscription
  <2>3. QED
    BY <1>1, <2>1, <2>2, RemoveUnusedType, TransactionReleasedType DEF Cancel
<1>2. ASSUME NEW i \in Sub, NEW r \in Request, NEW c \in BOOLEAN,
             NEW l \in Lifetime, Resubscribe(i, r, c, l)
      PROVE  TypeOK'
  <2>1. l \in 0 .. MaxLifetime /\ r[1] \in Address
    BY CovAssumption, RequestType
  <2>2. PICK a \in AddrIndex :
          /\ addrs' = AddressAdded(r[1], a)
          /\ subs' = [subs EXCEPT ![i] =
                        [@ EXCEPT !.dest = a, !.confirmed = c, !.lifetime = l,
                                  !.send_requested = TRUE, !.invokeID = 0]]
    BY <1>2 DEF Resubscribe
  <2>3. subs' \in [Sub -> Subscription]
    BY <2>1, <2>2, RenewedType
  <2>4. \A j \in Sub : subs'[j].valid => subs'[j].object \in Object
    BY <2>2 DEF Subscription
  <2>5. QED
    BY <1>2, <2>1, <2>2, <2>3, <2>4, AddressAddedType, TransactionReleasedType
    DEF Resubscribe
<1>3. ASSUME NEW i \in Sub, NEW r \in Request, NEW c \in BOOLEAN,
             NEW l \in Lifetime, Subscribe(i, r, c, l)
      PROVE  TypeOK'
  <2>1. l \in 0 .. MaxLifetime /\ r[1] \in Address /\ r[2] \in Nat
        /\ r[3] \in Object
    BY CovAssumption, RequestType
  <2>2. PICK a \in AddrIndex :
          /\ addrs' = AddressAdded(r[1], a)
          /\ subs' = [subs EXCEPT ![i] =
                        [valid |-> TRUE, confirmed |-> c, send_requested |-> TRUE,
                         dest |-> a, invokeID |-> 0, pid |-> r[2],
                         lifetime |-> l, object |-> r[3]]]
    BY <1>3 DEF Subscribe
  <2>3. subs' \in [Sub -> Subscription]
    BY <2>1, <2>2, TsmAssumption DEF Subscription
  <2>4. \A j \in Sub : subs'[j].valid => subs'[j].object \in Object
    BY <2>1, <2>2 DEF Subscription
  <2>5. QED
    BY <1>3, <2>1, <2>2, <2>3, <2>4, AddressAddedType DEF Subscribe
<1>4. ASSUME NEW id \in InvokeID, Answer(id) PROVE TypeOK'
  BY <1>4, TsmFreeType DEF Answer, tsm_free_invoke_id
<1>5. ASSUME NEW k \in Slot, TsmTimer(k) PROVE TypeOK'
  BY <1>5, TsmTimerType DEF TsmTimer
<1>6. ASSUME NEW o \in Object, ObjectChange(o) PROVE TypeOK'
  BY <1>6 DEF ObjectChange
<1>7. CASE handler_cov_timer_seconds
  <2>1. subs' \in [Sub -> Subscription]
    <3>1. ASSUME NEW i \in Sub PROVE subs'[i] \in Subscription
      <4> DEFINE id == IF subs[i].confirmed THEN 0 ELSE subs[i].invokeID
      <4>1. CASE i \in Expiring
        <5>1. subs'[i] = [subs[i] EXCEPT !.valid = FALSE, !.dest = NoDest,
                                         !.lifetime = 0, !.invokeID = id]
          BY <1>7, <4>1 DEF handler_cov_timer_seconds
        <5>2. subs[i] \in Subscription
          OBVIOUS
        <5>3. subs[i].invokeID \in 0 .. MaxInvokeID
          BY <5>2 DEF Subscription
        <5>4. id \in 0 .. MaxInvokeID
          BY <5>3, Bounds
        <5> HIDE DEF id
        <5>5. QED
          BY <5>1, <5>2, <5>4, ExpiredType
      <4>2. CASE i \notin Expiring /\ subs[i].valid /\ subs[i].lifetime > 0
        <5>1. subs'[i] = [subs[i] EXCEPT !.lifetime = @ - 1]
          BY <1>7, <4>2 DEF handler_cov_timer_seconds
        <5>2. subs[i] \in Subscription /\ subs[i].lifetime - 1 \in 0 .. MaxLifetime
          BY <4>2, CovAssumption DEF Subscription
        <5>3. QED
          BY <5>1, <5>2, FieldUpdates, Zenon
      <4>3. CASE i \notin Expiring /\ ~ (subs[i].valid /\ subs[i].lifetime > 0)
        BY <1>7, <4>3 DEF handler_cov_timer_seconds
      <4>4. QED
        BY <4>1, <4>2, <4>3
    <3>2. QED
      BY <1>7, <3>1 DEF handler_cov_timer_seconds
  <2>2. \A j \in Sub : subs'[j].valid => subs'[j].object \in Object
    BY <1>7 DEF handler_cov_timer_seconds, Subscription, Expiring
  <2>3. addrs' \in [AddrIndex -> CovAddress]
    BY <1>7, RemoveUnusedType DEF handler_cov_timer_seconds
  <2>4. tsm' \in TsmTable
    BY <1>7, TsmFreeType DEF handler_cov_timer_seconds
  <2>5. QED
    BY <1>7, <2>1, <2>2, <2>3, <2>4 DEF handler_cov_timer_seconds
<1>8. CASE FsmIdle
  BY <1>8, CovAssumption DEF FsmIdle, FsmStep, FsmState
<1>9. CASE FsmMark
  <2>1. subs' \in [Sub -> Subscription]
        /\ \A j \in Sub : subs'[j].valid => subs'[j].object \in Object
    BY <1>9 DEF FsmMark, Subscription
  <2>2. QED
    BY <1>9, <2>1, NextIndexType DEF FsmMark, FsmStep, FsmState
<1>10. CASE FsmClear
  <2>1. changed' \in [Object -> BOOLEAN]
    BY <1>10 DEF FsmClear
  <2>2. QED
    BY <1>10, <2>1, NextIndexType DEF FsmClear, FsmStep, FsmState
<1>11. CASE FsmFree
  <2>1. [subs EXCEPT ![index].invokeID = 0] \in [Sub -> Subscription]
    BY TsmAssumption DEF Subscription
  <2>1a. subs' \in [Sub -> Subscription]
    BY <1>11, <2>1 DEF FsmFree
  <2>1b. \A j \in Sub : subs'[j].valid => subs'[j].object \in Object
    BY <1>11 DEF FsmFree, Subscription
  <2>2. tsm' \in TsmTable
    BY <1>11, TsmFreeType DEF FsmFree, tsm_free_invoke_id
  <2>3. QED
    BY <1>11, <2>1a, <2>1b, <2>2, NextIndexType DEF FsmFree, FsmStep, FsmState
<1>12. CASE FsmSendNothing
  BY <1>12, NextIndexType DEF FsmSendNothing, FsmStep, FsmState
<1>13. ASSUME NEW sent \in BOOLEAN, FsmSendUnconfirmed(sent) PROVE TypeOK'
  <2>1. [subs[index] EXCEPT !.send_requested = ~ sent] \in Subscription
    BY FieldUpdates
  <2>2. subs' \in [Sub -> Subscription]
    BY <1>13, <2>1 DEF FsmSendUnconfirmed
  <2>3. \A j \in Sub : subs'[j].valid => subs'[j].object \in Object
    BY <1>13 DEF FsmSendUnconfirmed, Subscription
  <2>4. QED
    BY <1>13, <2>2, <2>3, NextIndexType DEF FsmSendUnconfirmed, FsmStep, FsmState
<1>14. ASSUME NEW sent \in BOOLEAN, NEW id \in InvokeID,
              FsmSendConfirmed(id, sent)
       PROVE  TypeOK'
  <2>1. [subs[index] EXCEPT !.send_requested = ~ sent, !.invokeID = id]
          \in Subscription
    BY SentType
  <2>1a. subs' \in [Sub -> Subscription]
    BY <1>14, <2>1 DEF FsmSendConfirmed
  <2>1b. \A j \in Sub : subs'[j].valid => subs'[j].object \in Object
    BY <1>14 DEF FsmSendConfirmed, Subscription
  <2>2. tsm' \in TsmTable
    BY <1>14, TsmReserveType DEF FsmSendConfirmed
  <2>3. currentID' \in InvokeID
    BY <1>14, TsmAssumption DEF FsmSendConfirmed, IncrementID
  <2>4. QED
    BY <1>14, <2>1a, <2>1b, <2>2, <2>3, NextIndexType
    DEF FsmSendConfirmed, FsmStep, FsmState
<1>15. CASE UNCHANGED vars
  BY <1>15 DEF vars
<1>16. QED
  BY <1>1, <1>2, <1>3, <1>4, <1>5, <1>6, <1>7, <1>8, <1>9, <1>10, <1>11, <1>12,
     <1>13, <1>14, <1>15
  DEF Next, SubscribeCOV, bacnet_cov_task, handler_cov_fsm, FsmSend

(* The tables, the indices and the state machine of the COV service stay   *)
(* within their types.                                                     *)
THEOREM TypeCorrect == Spec => []TypeOK
  BY InitType, StepType, PTL DEF Spec

-----------------------------------------------------------------------------
(* The address list.  The four invariants about it are proved together:    *)
(* that a request finds its entry again rests on the entries being live    *)
(* and distinct, and that they stay so rests on the search.                *)
AddressInv ==
  /\ DestinationsLive
  /\ NoAddressLeak
  /\ AddressesDistinct
  /\ OneSubscriptionPerKey

(* bacnet_address_same is an equivalence, as far as the list needs it. *)
LEMMA SameEquivalence ==
  ASSUME NEW a, NEW b, NEW c
  PROVE  /\ bacnet_address_same(a, a)
         /\ bacnet_address_same(a, b) => bacnet_address_same(b, a)
         /\ bacnet_address_same(a, b) /\ bacnet_address_same(b, c)
              => bacnet_address_same(a, c)
  BY DEF bacnet_address_same

(* A renewal finds the entry its subscription already points to.           *)
LEMMA RenewalKeepsAddress ==
  ASSUME TypeOK, AddressInv, NEW i \in Sub, NEW r \in Request, Matches(i, r),
         NEW a \in AddrIndex, cov_address_add(r[1], a)
  PROVE  a = subs[i].dest /\ AddressAdded(r[1], a) = addrs
<1> DEFINE d == subs[i].dest
<1>1. d \in AddrIndex /\ addrs[d].valid
  BY DEF Matches, AddressInv, DestinationsLive
<1>2. bacnet_address_same(r[1], addrs[d].dest)
  BY <1>1, CovAssumption DEF Matches
<1>3. AddressHit(r[1], d)
  BY <1>1, <1>2 DEF AddressHit
<1>4. AddressHit(r[1], a)
  BY <1>1, <1>3 DEF cov_address_add
<1>5. bacnet_address_same(addrs[a].dest, addrs[d].dest)
  BY <1>2, <1>4, SameEquivalence DEF AddressHit
<1>6. a = d
  BY <1>1, <1>4, <1>5 DEF AddressHit, AddressInv, AddressesDistinct
<1>7. QED
  BY <1>4, <1>6 DEF AddressHit, AddressAdded

(* Taking subscriptions out of the list, then giving up the entries that   *)
(* nobody uses: what a cancellation and the timer do.                      *)
LEMMA RemovalKeepsAddressInv ==
  ASSUME TypeOK, AddressInv,
         subs' \in [Sub -> Subscription],
         \A i \in Sub : subs'[i].valid =>
           /\ subs[i].valid
           /\ subs'[i].dest = subs[i].dest
           /\ subs'[i].object = subs[i].object
           /\ subs'[i].pid = subs[i].pid,
         addrs' = cov_address_remove_unused(subs')
  PROVE  AddressInv'
<1>1. \A a \in AddrIndex :
        /\ addrs'[a].valid <=>
             addrs[a].valid /\ \E i \in Sub : subs'[i].valid /\ subs'[i].dest = a
        /\ addrs'[a].dest = addrs[a].dest
  BY DEF cov_address_remove_unused, TypeOK, CovAddress
<1>2. DestinationsLive'
  BY <1>1 DEF AddressInv, DestinationsLive
<1>3. NoAddressLeak'
  BY <1>1 DEF NoAddressLeak
<1>4. AddressesDistinct'
  BY <1>1 DEF AddressInv, AddressesDistinct
<1>5. OneSubscriptionPerKey'
  BY DEF AddressInv, OneSubscriptionPerKey
<1>6. QED
  BY <1>2, <1>3, <1>4, <1>5 DEF AddressInv

(* A step that changes no key of a subscription and no address entry.      *)
LEMMA SameKeysKeepAddressInv ==
  ASSUME TypeOK, AddressInv,
         \A i \in Sub :
           /\ subs'[i].valid = subs[i].valid
           /\ subs'[i].dest = subs[i].dest
           /\ subs'[i].object = subs[i].object
           /\ subs'[i].pid = subs[i].pid,
         addrs' = addrs
  PROVE  AddressInv'
  BY DEF AddressInv, DestinationsLive, NoAddressLeak, AddressesDistinct,
         OneSubscriptionPerKey

(* A new subscription: the entry cov_address_add found or made is live,    *)
(* distinct from the others, and no other subscription on it has the key.  *)
LEMMA SubscribeKeepsAddressInv ==
  ASSUME TypeOK, AddressInv, NEW i \in Sub, NEW r \in Request,
         NEW c \in BOOLEAN, NEW l \in Lifetime, Subscribe(i, r, c, l)
  PROVE  AddressInv'
<1>1. PICK a \in AddrIndex :
        /\ cov_address_add(r[1], a)
        /\ addrs' = AddressAdded(r[1], a)
        /\ subs' = [subs EXCEPT ![i] =
                      [valid |-> TRUE, confirmed |-> c, send_requested |-> TRUE,
                       dest |-> a, invokeID |-> 0, pid |-> r[2],
                       lifetime |-> l, object |-> r[3]]]
  BY DEF Subscribe
<1>2. ~ subs[i].valid /\ \A j \in Sub : ~ Matches(j, r)
  BY DEF Subscribe, FirstInvalid
<1>3. /\ subs'[i].valid /\ subs'[i].dest = a
      /\ subs'[i].object = r[3] /\ subs'[i].pid = r[2]
      /\ \A j \in Sub \ {i} : subs'[j] = subs[j]
  BY <1>1 DEF TypeOK
<1>4. /\ addrs'[a].valid
      /\ bacnet_address_same(r[1], addrs'[a].dest)
      /\ \A b \in AddrIndex \ {a} : addrs'[b] = addrs[b]
      /\ addrs[a].valid => addrs'[a] = addrs[a]
      /\ ~ addrs[a].valid => \A b \in AddrIndex : ~ AddressHit(r[1], b)
  BY <1>1, SameEquivalence DEF AddressAdded, cov_address_add, AddressHit, TypeOK
<1>5. DestinationsLive'
  BY <1>3, <1>4 DEF AddressInv, DestinationsLive
<1>6. NoAddressLeak'
  BY <1>2, <1>3, <1>4 DEF AddressInv, NoAddressLeak
<1>7. AddressesDistinct'
  <2>1. CASE addrs[a].valid
    BY <1>4, <2>1 DEF AddressInv, AddressesDistinct
  <2>2. CASE ~ addrs[a].valid
    <3>1. ASSUME NEW b \in AddrIndex \ {a}, addrs'[b].valid
          PROVE  /\ ~ bacnet_address_same(addrs'[a].dest, addrs'[b].dest)
                 /\ ~ bacnet_address_same(addrs'[b].dest, addrs'[a].dest)
      BY <1>4, <2>2, <3>1, SameEquivalence DEF AddressHit
    <3>2. QED
      BY <1>4, <3>1 DEF AddressInv, AddressesDistinct
  <2>3. QED
    BY <2>1, <2>2
<1>8. OneSubscriptionPerKey'
  <2>1. ASSUME NEW j \in Sub \ {i}, subs'[j].valid,
               subs'[j].object = r[3], subs'[j].pid = r[2], subs'[j].dest = a
        PROVE  FALSE
    <3>1. subs[j].valid /\ subs[j].object = r[3] /\ subs[j].pid = r[2]
          /\ subs[j].dest = a
      BY <1>3, <2>1
    <3>2. addrs[a].valid
      BY <3>1 DEF AddressInv, DestinationsLive
    <3>3. Matches(j, r)
      BY <1>4, <3>1, <3>2 DEF Matches
    <3>4. QED
      BY <1>2, <3>3
  <2>2. QED
    BY <1>3, <2>1 DEF AddressInv, OneSubscriptionPerKey
<1>9. QED
  BY <1>5, <1>6, <1>7, <1>8 DEF AddressInv

LEMMA InitAddressInv == Init => AddressInv
  BY DEF Init, AddressInv, DestinationsLive, NoAddressLeak, AddressesDistinct,
         OneSubscriptionPerKey

LEMMA StepAddressInv ==
  TypeOK /\ TypeOK' /\ AddressInv /\ [Next]_vars => AddressInv'
<1> SUFFICES ASSUME TypeOK, TypeOK', AddressInv, [Next]_vars PROVE AddressInv'
  OBVIOUS
<1>1. ASSUME NEW i \in Sub, NEW r \in Request, Cancel(i, r) PROVE AddressInv'
  <2>1. \A j \in Sub : subs'[j].valid => j # i /\ subs'[j] = subs[j]
    BY <1>1 DEF Cancel, TypeOK
  <2>2. QED
    BY <1>1, <2>1, RemovalKeepsAddressInv DEF Cancel, TypeOK
<1>2. ASSUME NEW i \in Sub, NEW r \in Request, NEW c \in BOOLEAN,
             NEW l \in Lifetime, Resubscribe(i, r, c, l)
      PROVE  AddressInv'
  <2>1. PICK a \in AddrIndex :
          /\ cov_address_add(r[1], a)
          /\ addrs' = AddressAdded(r[1], a)
          /\ subs' = [subs EXCEPT ![i] =
                        [@ EXCEPT !.dest = a, !.confirmed = c, !.lifetime = l,
                                  !.send_requested = TRUE, !.invokeID = 0]]
    BY <1>2 DEF Resubscribe
  <2>2. a = subs[i].dest /\ addrs' = addrs
    BY <1>2, <2>1, RenewalKeepsAddress DEF Resubscribe, Existing
  <2>3. \A j \in Sub :
          /\ subs'[j].valid = subs[j].valid
          /\ subs'[j].dest = subs[j].dest
          /\ subs'[j].object = subs[j].object
          /\ subs'[j].pid = subs[j].pid
    BY <2>1, <2>2 DEF TypeOK, Subscription
  <2>4. QED
    BY <2>2, <2>3, SameKeysKeepAddressInv
<1>3. ASSUME NEW i \in Sub, NEW r \in Request, NEW c \in BOOLEAN,
             NEW l \in Lifetime, Subscribe(i, r, c, l)
      PROVE  AddressInv'
  BY <1>3, SubscribeKeepsAddressInv
<1>4. CASE handler_cov_timer_seconds
  <2>1. \A i \in Sub :
          /\ i \in Expiring => ~ subs'[i].valid
          /\ i \notin Expiring =>
               /\ subs'[i].valid = subs[i].valid
               /\ subs'[i].dest = subs[i].dest
               /\ subs'[i].object = subs[i].object
               /\ subs'[i].pid = subs[i].pid
    <3>1. ASSUME NEW i \in Sub, i \in Expiring PROVE ~ subs'[i].valid
      BY <1>4, <3>1 DEF handler_cov_timer_seconds, TypeOK, Subscription
    <3>2. ASSUME NEW i \in Sub, i \notin Expiring
          PROVE  \/ subs'[i] = [subs[i] EXCEPT !.lifetime = @ - 1]
                 \/ subs'[i] = subs[i]
      BY <1>4, <3>2 DEF handler_cov_timer_seconds
    <3>3. QED
      BY <3>1, <3>2 DEF TypeOK, Subscription
  <2>2. CASE Expiring = {}
    BY <1>4, <2>1, <2>2, SameKeysKeepAddressInv DEF handler_cov_timer_seconds
  <2>3. CASE Expiring # {}
    BY <1>4, <2>1, <2>3, RemovalKeepsAddressInv
    DEF handler_cov_timer_seconds, TypeOK
  <2>4. QED
    BY <2>2, <2>3
<1>5. CASE UNCHANGED <<subs, addrs>>
  BY <1>5, SameKeysKeepAddressInv
<1>6. ASSUME addrs' = addrs,
             \/ FsmMark \/ FsmFree
             \/ \E sent \in BOOLEAN :
                  \/ FsmSendUnconfirmed(sent)
                  \/ \E id \in InvokeID : FsmSendConfirmed(id, sent)
      PROVE  AddressInv'
  <2> DEFINE KeysKept == \A i \in Sub :
               /\ subs'[i].valid = subs[i].valid
               /\ subs'[i].dest = subs[i].dest
               /\ subs'[i].object = subs[i].object
               /\ subs'[i].pid = subs[i].pid
  <2>1. KeysKept
    <3>1. CASE FsmMark
      BY <3>1 DEF FsmMark, TypeOK, Subscription
    <3>2. CASE FsmFree
      BY <3>2 DEF FsmFree, TypeOK, Subscription
    <3>3. ASSUME NEW sent \in BOOLEAN, FsmSendUnconfirmed(sent)
          PROVE  KeysKept
      BY <3>3 DEF FsmSendUnconfirmed, TypeOK, Subscription
    <3>4. ASSUME NEW sent \in BOOLEAN, NEW id \in InvokeID,
                 FsmSendConfirmed(id, sent)
          PROVE  KeysKept
      BY <3>4 DEF FsmSendConfirmed, TypeOK, Subscription
    <3> HIDE DEF KeysKept
    <3>5. QED
      BY <1>6, <3>1, <3>2, <3>3, <3>4
  <2>2. QED
    BY <1>6, <2>1, SameKeysKeepAddressInv
<1>7. QED
  BY <1>1, <1>2, <1>3, <1>4, <1>5, <1>6
  DEF Next, SubscribeCOV, Answer, TsmTimer, ObjectChange, bacnet_cov_task,
      handler_cov_fsm, FsmIdle, FsmMark, FsmClear, FsmFree, FsmSend,
      FsmSendNothing, FsmSendUnconfirmed, FsmSendConfirmed, vars

(* The address list of the COV service never leaks an entry, never drops   *)
(* one that is in use, and no client ever holds two subscriptions for one  *)
(* object and process id.                                                  *)
THEOREM AddressListCorrect == Spec => []AddressInv
<1>1. TypeOK /\ AddressInv /\ [Next]_vars => (TypeOK /\ AddressInv)'
  BY StepType, StepAddressInv
<1>2. QED
  BY <1>1, InitType, InitAddressInv, PTL DEF Spec

(* Every subscription can be sent to: its entry was not given up by the    *)
(* end of another one that shares it.                                      *)
THEOREM SubscribersReachable == Spec => []DestinationsLive
<1>1. AddressInv => DestinationsLive
  BY DEF AddressInv
<1>2. QED
  BY <1>1, AddressListCorrect, PTL

(* However subscriptions end, their entries of the address list are given  *)
(* up with the last of them.                                               *)
THEOREM AddressesReleased == Spec => []NoAddressLeak
<1>1. AddressInv => NoAddressLeak
  BY DEF AddressInv
<1>2. QED
  BY <1>1, AddressListCorrect, PTL

(* An address the stack takes for the same is listed once.                 *)
THEOREM AddressesListedOnce == Spec => []AddressesDistinct
<1>1. AddressInv => AddressesDistinct
  BY DEF AddressInv
<1>2. QED
  BY <1>1, AddressListCorrect, PTL

(* A cancellation or a renewal therefore never leaves a second entry of    *)
(* the same client behind, and no entry of the address list is lost.       *)
THEOREM SubscriptionKeysUnique ==
  Spec => [](OneSubscriptionPerKey /\ DestinationsLive /\ NoAddressLeak)
<1>1. AddressInv => OneSubscriptionPerKey /\ DestinationsLive /\ NoAddressLeak
  BY DEF AddressInv
<1>2. QED
  BY <1>1, AddressListCorrect, PTL

-----------------------------------------------------------------------------
(* The transaction table.  That freeing the first slot with an id frees    *)
(* the transaction needs the ids of the slots to be distinct.              *)
TransactionInv == NoTransactionLeak /\ TransactionIDsDistinct

LEMMA FreeEffect ==
  ASSUME TypeOK, TransactionIDsDistinct, NEW ids, 0 \notin ids, NEW k \in Slot
  PROVE  tsm_free_invoke_ids(tsm, ids)[k].id =
           IF tsm[k].id \in ids THEN 0 ELSE tsm[k].id
<1>1. CASE tsm[k].id \in ids
  <2>1. tsm[k].id # 0
    BY <1>1
  <2>2. tsm_find_invokeID_index(tsm, tsm[k].id, k)
    BY <2>1 DEF tsm_find_invokeID_index, TransactionIDsDistinct
  <2>3. QED
    BY <1>1, <2>2 DEF tsm_free_invoke_ids, TypeOK, TsmTable, SlotRecord
<1>2. CASE tsm[k].id \notin ids
  BY <1>2 DEF tsm_free_invoke_ids, tsm_find_invokeID_index
<1>3. QED
  BY <1>1, <1>2

LEMMA ReserveEffect ==
  ASSUME TypeOK, NEW id \in InvokeID, NEW k \in Slot
  PROVE  LET t == tsm_set_confirmed_unsegmented_transaction(tsm, id)
         IN  \/ t[k].id = id /\ tsm_find_invokeID_index(tsm, 0, k)
             \/ t[k] = tsm[k] /\ ~ tsm_find_invokeID_index(tsm, 0, k)
  BY DEF tsm_set_confirmed_unsegmented_transaction

(* Dropping transactions keeps the rest of the table in order, provided    *)
(* the holders of the others stay as they are.                             *)
LEMMA FreeKeepsTransactionInv ==
  ASSUME TypeOK, TransactionInv, NEW ids, 0 \notin ids,
         tsm' = tsm_free_invoke_ids(tsm, ids),
         \A i \in Sub :
           /\ subs[i].valid
           /\ subs[i].confirmed
           /\ subs[i].invokeID # 0
           /\ subs[i].invokeID \notin ids
           /\ InUse(tsm, subs[i].invokeID)
           => /\ subs'[i].valid
              /\ subs'[i].confirmed
              /\ subs'[i].invokeID = subs[i].invokeID
  PROVE  TransactionInv'
<1>1. \A k \in Slot : tsm'[k].id = IF tsm[k].id \in ids THEN 0 ELSE tsm[k].id
  BY FreeEffect DEF TransactionInv
<1>2. NoTransactionLeak'
  <2>1. SUFFICES ASSUME NEW k \in Slot, tsm'[k].id # 0
                 PROVE  \E i \in Sub : /\ subs'[i].valid /\ subs'[i].confirmed
                                       /\ subs'[i].invokeID = tsm'[k].id
    BY DEF NoTransactionLeak
  <2>2. tsm[k].id = tsm'[k].id /\ tsm[k].id \notin ids /\ tsm[k].id # 0
    BY <1>1, <2>1
  <2>3. PICK i \in Sub : /\ subs[i].valid /\ subs[i].confirmed
                         /\ subs[i].invokeID = tsm[k].id
    BY <2>2 DEF TransactionInv, NoTransactionLeak
  <2>4. QED
    BY <2>2, <2>3 DEF InUse
<1>3. TransactionIDsDistinct'
  BY <1>1 DEF TransactionInv, TransactionIDsDistinct
<1>4. QED
  BY <1>2, <1>3 DEF TransactionInv

LEMMA InitTransactionInv == Init => TransactionInv
  BY DEF Init, TransactionInv, NoTransactionLeak, TransactionIDsDistinct,
         EmptyTsm, FreeSlot

(* A step that leaves the table alone and every holder as it is.           *)
LEMMA SameKeepsTransactionInv ==
  ASSUME TransactionInv, tsm' = tsm,
         \A i \in Sub : /\ subs'[i].valid = subs[i].valid
                        /\ subs'[i].confirmed = subs[i].confirmed
                        /\ subs'[i].invokeID = subs[i].invokeID
  PROVE  TransactionInv'
  BY DEF TransactionInv, NoTransactionLeak, TransactionIDsDistinct

(* What a renewal and a cancellation do, in terms of the ids freed.        *)
LEMMA ReleaseEffect ==
  ASSUME TypeOK, NEW i \in Sub
  PROVE  TransactionReleased(i) =
           tsm_free_invoke_ids(tsm, {subs[i].invokeID} \ {0})
<1>1. CASE subs[i].invokeID # 0
  <2>1. {subs[i].invokeID} \ {0} = {subs[i].invokeID}
    BY <1>1
  <2>2. QED
    BY <1>1, <2>1 DEF TransactionReleased, tsm_free_invoke_id
<1>2. CASE subs[i].invokeID = 0
  <2>1. {subs[i].invokeID} \ {0} = {}
    BY <1>2
  <2>2. tsm_free_invoke_ids(tsm, {}) = tsm
    BY DEF tsm_free_invoke_ids, TypeOK, TsmTable
  <2>3. QED
    BY <1>2, <2>1, <2>2 DEF TransactionReleased
<1>3. QED
  BY <1>1, <1>2

LEMMA StepTransactionInv ==
  TypeOK /\ TypeOK' /\ TransactionInv /\ [Next]_vars => TransactionInv'
<1> SUFFICES ASSUME TypeOK, TypeOK', TransactionInv, [Next]_vars
             PROVE  TransactionInv'
  OBVIOUS
<1>1. ASSUME NEW i \in Sub, tsm' = TransactionReleased(i),
             \A j \in Sub \ {i} : subs'[j] = subs[j]
      PROVE  TransactionInv'
  <2> DEFINE ids == {subs[i].invokeID} \ {0}
  <2>1. tsm' = tsm_free_invoke_ids(tsm, ids) /\ 0 \notin ids
    BY <1>1, ReleaseEffect
  <2>2. \A j \in Sub : subs[j].invokeID # 0 /\ subs[j].invokeID \notin ids
                         => subs'[j] = subs[j]
    BY <1>1
  <2> HIDE DEF ids
  <2>3. QED
    BY <2>1, <2>2, FreeKeepsTransactionInv
<1>2. ASSUME NEW i \in Sub, NEW r \in Request, Cancel(i, r)
      PROVE  TransactionInv'
  BY <1>1, <1>2 DEF Cancel, TypeOK
<1>3. ASSUME NEW i \in Sub, NEW r \in Request, NEW c \in BOOLEAN,
             NEW l \in Lifetime, Resubscribe(i, r, c, l)
      PROVE  TransactionInv'
  BY <1>1, <1>3 DEF Resubscribe, TypeOK
<1>4. ASSUME NEW i \in Sub, NEW r \in Request, NEW c \in BOOLEAN,
             NEW l \in Lifetime, Subscribe(i, r, c, l)
      PROVE  TransactionInv'
  <2>1. /\ ~ subs[i].valid /\ tsm' = tsm
        /\ \A j \in Sub \ {i} : subs'[j] = subs[j]
    BY <1>4 DEF Subscribe, FirstInvalid, TypeOK
  <2>2. QED
    BY <2>1 DEF TransactionInv, NoTransactionLeak, TransactionIDsDistinct
<1>5. ASSUME NEW id \in InvokeID, Answer(id) PROVE TransactionInv'
  <2>1. tsm' = tsm_free_invoke_ids(tsm, {id}) /\ 0 \notin {id} /\ subs' = subs
    BY <1>5 DEF Answer, tsm_free_invoke_id
  <2>2. QED
    BY <2>1, FreeKeepsTransactionInv
<1>6. ASSUME NEW k \in Slot, TsmTimer(k) PROVE TransactionInv'
  <2>1. \A j \in Slot : tsm'[j].id = tsm[j].id
    BY <1>6 DEF TsmTimer, tsm_timer_expired, TypeOK, TsmTable, SlotRecord
  <2>2. QED
    BY <1>6, <2>1
    DEF TsmTimer, TransactionInv, NoTransactionLeak, TransactionIDsDistinct
<1>7. CASE handler_cov_timer_seconds
  <2> DEFINE ids == {subs[i].invokeID : i \in {j \in Expiring :
                       subs[j].confirmed /\ subs[j].invokeID # 0}}
  <2>1. tsm' = tsm_free_invoke_ids(tsm, ids)
    BY <1>7 DEF handler_cov_timer_seconds
  <2>2. 0 \notin ids
    OBVIOUS
  <2>3. ASSUME NEW i \in Sub, subs[i].confirmed, subs[i].invokeID # 0,
               subs[i].invokeID \notin ids, subs[i].valid
        PROVE  /\ subs'[i].valid
               /\ subs'[i].confirmed
               /\ subs'[i].invokeID = subs[i].invokeID
    <3>1. i \notin Expiring
      BY <2>3
    <3>2. \/ subs'[i] = [subs[i] EXCEPT !.lifetime = @ - 1]
          \/ subs'[i] = subs[i]
      BY <1>7, <3>1 DEF handler_cov_timer_seconds
    <3>3. QED
      BY <2>3, <3>2 DEF TypeOK, Subscription
  <2> HIDE DEF ids
  <2>4. QED
    BY <2>1, <2>2, <2>3, FreeKeepsTransactionInv
<1>8. CASE FsmMark
  <2>1. \A i \in Sub : /\ subs'[i].valid = subs[i].valid
                       /\ subs'[i].confirmed = subs[i].confirmed
                       /\ subs'[i].invokeID = subs[i].invokeID
    BY <1>8 DEF FsmMark, TypeOK, Subscription
  <2>2. QED
    BY <1>8, <2>1, SameKeepsTransactionInv DEF FsmMark
<1>9. CASE FsmFree
  <2> DEFINE id == subs[index].invokeID
  <2>1. \A j \in Sub \ {index} : subs'[j] = subs[j]
    BY <1>9 DEF FsmFree, TypeOK
  <2>2. CASE subs' = subs /\ tsm' = tsm
    BY <2>2, SameKeepsTransactionInv
  <2>3. CASE /\ id # 0 /\ subs' = [subs EXCEPT ![index].invokeID = 0]
             /\ tsm' = tsm /\ ~ InUse(tsm, id)
    BY <2>1, <2>3
    DEF TransactionInv, NoTransactionLeak, TransactionIDsDistinct, InUse
  <2>4. CASE id # 0 /\ tsm' = tsm_free_invoke_id(tsm, id)
    <3>1. tsm' = TransactionReleased(index)
      BY <2>4 DEF TransactionReleased
    <3>2. QED
      BY <1>1, <2>1, <3>1 DEF TypeOK
  <2>5. QED
    BY <1>9, <2>2, <2>3, <2>4 DEF FsmFree, tsm_invoke_id_free
<1>10. ASSUME NEW sent \in BOOLEAN, FsmSendUnconfirmed(sent)
       PROVE  TransactionInv'
  <2>1. \A i \in Sub : /\ subs'[i].valid = subs[i].valid
                       /\ subs'[i].confirmed = subs[i].confirmed
                       /\ subs'[i].invokeID = subs[i].invokeID
    BY <1>10 DEF FsmSendUnconfirmed, TypeOK, Subscription
  <2>2. QED
    BY <1>10, <2>1, SameKeepsTransactionInv DEF FsmSendUnconfirmed
<1>11. ASSUME NEW sent \in BOOLEAN, NEW id \in InvokeID,
              FsmSendConfirmed(id, sent)
       PROVE  TransactionInv'
  <2>1. /\ subs[index].valid /\ subs[index].confirmed
        /\ subs[index].invokeID = 0
        /\ \A k \in Slot : tsm[k].id # id
        /\ index \in Sub
    BY <1>11
    DEF FsmSendConfirmed, SendDue, tsm_next_free_invokeID, InUse, TypeOK
  <2>2. /\ subs'[index].valid /\ subs'[index].confirmed
        /\ subs'[index].invokeID = id
        /\ \A j \in Sub \ {index} : subs'[j] = subs[j]
    BY <1>11, <2>1 DEF FsmSendConfirmed, TypeOK, Subscription
  <2>3. \A k \in Slot : \/ tsm'[k].id = id /\ tsm_find_invokeID_index(tsm, 0, k)
                        \/ tsm'[k] = tsm[k]
    BY <1>11, ReserveEffect DEF FsmSendConfirmed
  <2>4. NoTransactionLeak'
    BY <2>1, <2>2, <2>3 DEF TransactionInv, NoTransactionLeak
  <2>5. TransactionIDsDistinct'
    <3>1. \A k, l \in Slot : tsm_find_invokeID_index(tsm, 0, k)
            /\ tsm_find_invokeID_index(tsm, 0, l) => k = l
      BY TsmAssumption DEF tsm_find_invokeID_index
    <3>2. QED
      BY <2>1, <2>3, <3>1 DEF TransactionInv, TransactionIDsDistinct
  <2>6. QED
    BY <2>4, <2>5 DEF TransactionInv
<1>12. CASE UNCHANGED <<subs, tsm>>
  BY <1>12, SameKeepsTransactionInv
<1>13. QED
  BY <1>2, <1>3, <1>4, <1>5, <1>6, <1>7, <1>8, <1>9, <1>10, <1>11, <1>12
  DEF Next, SubscribeCOV, ObjectChange, bacnet_cov_task, handler_cov_fsm,
      FsmIdle, FsmClear, FsmSend, FsmSendNothing, vars

(* Whatever is cancelled, renewed, expired, answered or timed out, in any  *)
(* order: a slot in use has a live confirmed subscription that will free   *)
(* it, and no two slots have one invoke id.                                *)
THEOREM TransactionTableCorrect == Spec => []TransactionInv
<1>1. TypeOK /\ TransactionInv /\ [Next]_vars => (TypeOK /\ TransactionInv)'
  BY StepType, StepTransactionInv
<1>2. QED
  BY <1>1, InitType, InitTransactionInv, PTL DEF Spec

(* Every slot in use is some live subscription's to release, and no id     *)
(* stands in two slots, however often the counter has wrapped.             *)
THEOREM TransactionsOwned == Spec => [](NoTransactionLeak /\ TransactionIDsDistinct)
<1>1. TransactionInv => NoTransactionLeak /\ TransactionIDsDistinct
  BY DEF TransactionInv
<1>2. QED
  BY <1>1, TransactionTableCorrect, PTL

(* tsm_free_invoke_id may stop at the first slot with the id.              *)
THEOREM InvokeIDsDistinct == Spec => []TransactionIDsDistinct
<1>1. TransactionInv => TransactionIDsDistinct
  BY DEF TransactionInv
<1>2. QED
  BY <1>1, TransactionTableCorrect, PTL

-----------------------------------------------------------------------------
(* Where a subscription's notifications go.                                *)
LEMMA StepDestinationStable ==
  ASSUME TypeOK, AddressInv, [Next]_vars,
         NEW i \in Sub, subs[i].valid, subs'[i].valid
  PROVE  addrs'[subs'[i].dest].dest = addrs[subs[i].dest].dest
<1> DEFINE d == subs[i].dest
<1>1. d \in AddrIndex /\ addrs[d].valid
  BY DEF AddressInv, DestinationsLive
<1>2. ASSUME \/ addrs' = cov_address_remove_unused(subs')
             \/ addrs' = addrs,
             subs'[i].dest = d
      PROVE  addrs'[subs'[i].dest].dest = addrs[d].dest
  <2>1. \A a \in AddrIndex : cov_address_remove_unused(subs')[a].dest = addrs[a].dest
    BY DEF cov_address_remove_unused, TypeOK, CovAddress
  <2>2. QED
    BY <1>1, <1>2, <2>1
<1>3. ASSUME NEW j \in Sub, NEW r \in Request, Cancel(j, r)
      PROVE  addrs'[subs'[i].dest].dest = addrs[d].dest
  <2>1. subs'[i] = subs[i]
    BY <1>3 DEF Cancel, TypeOK
  <2>2. QED
    BY <1>2, <1>3, <2>1 DEF Cancel
<1>4. ASSUME NEW j \in Sub, NEW r \in Request, NEW c \in BOOLEAN,
             NEW l \in Lifetime, Resubscribe(j, r, c, l)
      PROVE  addrs'[subs'[i].dest].dest = addrs[d].dest
  <2>1. PICK a \in AddrIndex :
          /\ cov_address_add(r[1], a)
          /\ addrs' = AddressAdded(r[1], a)
          /\ subs' = [subs EXCEPT ![j] =
                        [@ EXCEPT !.dest = a, !.confirmed = c, !.lifetime = l,
                                  !.send_requested = TRUE, !.invokeID = 0]]
    BY <1>4 DEF Resubscribe
  <2>2. a = subs[j].dest /\ addrs' = addrs
    BY <1>4, <2>1, RenewalKeepsAddress DEF Resubscribe, Existing
  <2>3. subs'[i].dest = d
    BY <2>1, <2>2 DEF TypeOK, Subscription
  <2>4. QED
    BY <2>2, <2>3
<1>5. ASSUME NEW j \in Sub, NEW r \in Request, NEW c \in BOOLEAN,
             NEW l \in Lifetime, Subscribe(j, r, c, l)
      PROVE  addrs'[subs'[i].dest].dest = addrs[d].dest
  <2>1. j # i /\ subs'[i] = subs[i]
    BY <1>5 DEF Subscribe, FirstInvalid, TypeOK
  <2>2. PICK a \in AddrIndex : addrs' = AddressAdded(r[1], a)
    BY <1>5 DEF Subscribe
  <2>3. addrs'[d] = addrs[d]
    BY <1>1, <2>2 DEF AddressAdded, TypeOK
  <2>4. QED
    BY <2>1, <2>3
<1>6. CASE handler_cov_timer_seconds
  <2>1. i \notin Expiring
    BY <1>6 DEF handler_cov_timer_seconds, TypeOK, Subscription
  <2>2. \/ subs'[i] = [subs[i] EXCEPT !.lifetime = @ - 1]
        \/ subs'[i] = subs[i]
    BY <1>6, <2>1 DEF handler_cov_timer_seconds
  <2>3. subs'[i].dest = d
    BY <2>2 DEF TypeOK, Subscription
  <2>4. QED
    BY <1>2, <1>6, <2>3 DEF handler_cov_timer_seconds
<1>7. CASE addrs' = addrs /\ subs'[i].dest = d
  BY <1>7
<1>8. CASE FsmMark
  BY <1>7, <1>8 DEF FsmMark, TypeOK, Subscription
<1>9. CASE FsmFree
  BY <1>7, <1>9 DEF FsmFree, TypeOK, Subscription
<1>10. ASSUME NEW sent \in BOOLEAN, FsmSendUnconfirmed(sent)
       PROVE  addrs'[subs'[i].dest].dest = addrs[d].dest
  BY <1>7, <1>10 DEF FsmSendUnconfirmed, TypeOK, Subscription
<1>11. ASSUME NEW sent \in BOOLEAN, NEW id \in InvokeID,
              FsmSendConfirmed(id, sent)
       PROVE  addrs'[subs'[i].dest].dest = addrs[d].dest
  BY <1>7, <1>11 DEF FsmSendConfirmed, TypeOK, Subscription
<1>12. CASE UNCHANGED <<subs, addrs>>
  BY <1>7, <1>12
<1>13. QED
  BY <1>3, <1>4, <1>5, <1>6, <1>8, <1>9, <1>10, <1>11, <1>12
  DEF Next, SubscribeCOV, Answer, TsmTimer, ObjectChange, bacnet_cov_task,
      handler_cov_fsm, FsmIdle, FsmClear, FsmSend, FsmSendNothing, vars

(* No request, answer or expiration of another client redirects the        *)
(* notifications of a subscription that stays valid.                       *)
THEOREM DestinationNeverMoves == Spec => DestinationStable
<1>1. TypeOK /\ AddressInv /\ [Next]_vars
        => [\A i \in Sub : subs[i].valid /\ subs'[i].valid =>
              addrs'[subs'[i].dest].dest = addrs[subs[i].dest].dest]_vars
  <2>1. SUFFICES ASSUME TypeOK, AddressInv, [Next]_vars
                 PROVE  \A i \in Sub : subs[i].valid /\ subs'[i].valid =>
                          addrs'[subs'[i].dest].dest = addrs[subs[i].dest].dest
    OBVIOUS
  <2>2. QED
    BY <2>1, StepDestinationStable
<1>2. QED
  BY <1>1, TypeCorrect, AddressListCorrect, PTL DEF Spec, DestinationStable
=============================================================================
