-------------------------------- MODULE Cov --------------------------------
(***************************************************************************)
(* Change-of-value subscriptions of the device: the tables of              *)
(* basic/service/h_cov.c, the transaction table they share with apdu_      *)
(* handler, and the tasks that drive them.                                 *)
(*                                                                         *)
(* Everything but the writing of object values happens under the datalink  *)
(* mutex.  A receive task takes it around one apdu_handler call, so a      *)
(* request or an answer is one atomic action.  bacnet_cov_task takes it    *)
(* once a second around two calls, the subscription timer and one step of  *)
(* the notification state machine: cov_pc tells how far it has come, and   *)
(* the receive tasks wait while it is not "delay".  The sensor and screen  *)
(* tasks write object values without the mutex, at any time.               *)
(***************************************************************************)
EXTENDS BacnetAddress, Tsm

CONSTANTS
  MAX_COV_SUBCRIPTIONS,   \* entries of COV_Subscriptions (128)
  MAX_COV_ADDRESSES,      \* entries of COV_Addresses (16)
  Object,                 \* objects whose type supports a COV value list
  AnalogInput0,           \* the object id handler_cov_init writes
  Request,                \* the <<source, process id, object>> clients use
  Lifetime,               \* lifetimes clients ask for; 0 is indefinite
  MaxLifetime,            \* bound: the largest of them
  DefaultLink,            \* datalink_default: "bip" or "mstp"
  TsmTimerRuns            \* does a task call tsm_timer_milliseconds?

ASSUME CovAssumption ==
  /\ MAX_COV_SUBCRIPTIONS \in Nat \ {0}
  /\ MAX_COV_ADDRESSES \in Nat \ {0}
  /\ Request \subseteq Address \X Nat \X Object
  /\ MaxLifetime \in Nat
  /\ Lifetime \subseteq 0 .. MaxLifetime
  /\ DefaultLink \in {"bip", "mstp"}
  /\ TsmTimerRuns \in BOOLEAN

VARIABLES
  subs,        \* COV_Subscriptions
  addrs,       \* COV_Addresses
  tsm,         \* TSM_List
  currentID,   \* Current_Invoke_ID
  state,       \* cov_task_state of handler_cov_fsm
  index,       \* index of handler_cov_fsm
  changed,     \* the Changed flag of each object
  cov_pc       \* where bacnet_cov_task stands

vars == <<subs, addrs, tsm, currentID, state, index, changed, cov_pc>>

Sub == 0 .. MAX_COV_SUBCRIPTIONS - 1
AddrIndex == 0 .. MAX_COV_ADDRESSES - 1
NoDest == MAX_COV_ADDRESSES
FsmState == {"IDLE", "MARK", "CLEAR", "FREE", "SEND"}

Subscription ==
  [valid : BOOLEAN, confirmed : BOOLEAN, send_requested : BOOLEAN,
   dest : AddrIndex \cup {NoDest}, invokeID : 0 .. MaxInvokeID,
   pid : Nat, lifetime : 0 .. MaxLifetime, object : Object \cup {AnalogInput0}]

CovAddress == [valid : BOOLEAN, dest : Address]

-----------------------------------------------------------------------------
(* The address table.                                                      *)

AddressHit(src, a) ==
  addrs[a].valid /\ bacnet_address_same(src, addrs[a].dest)

(* Variant: the list is not searched before a free entry is taken.         *)
cov_address_add_NoSearch(src, a) ==
  ~ addrs[a].valid /\ \A b \in AddrIndex : b < a => addrs[b].valid

(* a is the entry cov_address_add returns for src: the first that compares *)
(* equal, else the first that is free.                                     *)
cov_address_add(src, a) ==
  \/ AddressHit(src, a) /\ \A b \in AddrIndex : b < a => ~ AddressHit(src, b)
  \/ /\ \A b \in AddrIndex : ~ AddressHit(src, b)
     /\ ~ addrs[a].valid
     /\ \A b \in AddrIndex : b < a => addrs[b].valid

(* The table afterwards: an entry that was already there keeps its dest.   *)
AddressAdded(src, a) ==
  IF addrs[a].valid
    THEN addrs
    ELSE [addrs EXCEPT ![a] = [valid |-> TRUE, dest |-> src]]

(* Variants: the call is forgotten; the search does not stop when found.   *)
cov_address_remove_unused_Never(s) == addrs

cov_address_remove_unused_NoBreak(s) ==
  [a \in AddrIndex |->
     [addrs[a] EXCEPT !.valid =
        @ /\ LET i == MAX_COV_SUBCRIPTIONS - 1 IN s[i].valid /\ s[i].dest = a]]

(* The entries no subscription of s points to are given up.                *)
cov_address_remove_unused(s) ==
  [a \in AddrIndex |->
     [addrs[a] EXCEPT !.valid =
        @ /\ \E i \in Sub : s[i].valid /\ s[i].dest = a]]

-----------------------------------------------------------------------------
Init ==
  /\ subs = [i \in Sub |->
               [valid |-> FALSE, confirmed |-> FALSE, send_requested |-> FALSE,
                dest |-> NoDest, invokeID |-> 0, pid |-> 0, lifetime |-> 0,
                object |-> AnalogInput0]]
  /\ addrs = [a \in AddrIndex |-> [valid |-> FALSE, dest |-> ZeroAddress]]
  /\ tsm = EmptyTsm
  /\ currentID = 1
  /\ state = "IDLE"
  /\ index = 0
  /\ changed = [o \in Object |-> FALSE]
  /\ cov_pc = "delay"

-----------------------------------------------------------------------------
(* SubscribeCOV and SubscribeCOVProperty requests: cov_list_subscribe.     *)

(* Variant: the search ends at the first entry that is free.               *)
Matches_BeforeHole(i, r) ==
  /\ \A j \in Sub : j <= i => subs[j].valid
  /\ subs[i].object = r[3]
  /\ subs[i].pid = r[2]
  /\ \/ subs[i].dest = NoDest
     \/ ~ addrs[subs[i].dest].valid
     \/ bacnet_address_same(r[1], addrs[subs[i].dest].dest)

(* Variant: the process id is not compared.                                *)
Matches_AnyProcess(i, r) ==
  /\ subs[i].valid
  /\ subs[i].object = r[3]
  /\ \/ subs[i].dest = NoDest
     \/ ~ addrs[subs[i].dest].valid
     \/ bacnet_address_same(r[1], addrs[subs[i].dest].dest)

(* Entry i is for this object, process id and address; an entry whose      *)
(* address is gone matches any source.                                     *)
Matches(i, r) ==
  /\ subs[i].valid
  /\ subs[i].object = r[3]
  /\ subs[i].pid = r[2]
  /\ \/ subs[i].dest = NoDest
     \/ ~ addrs[subs[i].dest].valid
     \/ bacnet_address_same(r[1], addrs[subs[i].dest].dest)

Existing(i, r) ==
  Matches(i, r) /\ \A j \in Sub : j < i => ~ Matches(j, r)

FirstInvalid(i) ==
  ~ subs[i].valid /\ \A j \in Sub : j < i => subs[j].valid

(* Variant: the transaction is forgotten, not freed.                       *)
TransactionReleased_Never(i) == tsm

(* What a renewal and a cancellation do to the notification in flight.     *)
TransactionReleased(i) ==
  IF subs[i].invokeID # 0
    THEN tsm_free_invoke_id(tsm, subs[i].invokeID)
    ELSE tsm

LockFree == cov_pc = "delay"

(* A matching entry is renewed: the notification in flight is forgotten.   *)
Resubscribe(i, r, confirmed, lifetime) ==
  /\ LockFree
  /\ Existing(i, r)
  /\ \E a \in AddrIndex :
       /\ cov_address_add(r[1], a)
       /\ addrs' = AddressAdded(r[1], a)
       /\ subs' = [subs EXCEPT ![i] =
                     [@ EXCEPT !.dest = a, !.confirmed = confirmed,
                               !.lifetime = lifetime, !.send_requested = TRUE,
                               !.invokeID = 0]]
  /\ tsm' = TransactionReleased(i)
  /\ UNCHANGED <<currentID, state, index, changed, cov_pc>>

Cancel(i, r) ==
  /\ LockFree
  /\ Existing(i, r)
  /\ subs' = [subs EXCEPT ![i] =
                [@ EXCEPT !.valid = FALSE, !.dest = NoDest, !.invokeID = 0]]
  /\ addrs' = cov_address_remove_unused(subs')
  /\ tsm' = TransactionReleased(i)
  /\ UNCHANGED <<currentID, state, index, changed, cov_pc>>

(* No entry matches: the first invalid one is taken, if the address still  *)
(* fits.  Without a free entry or a free address the request is answered   *)
(* with an Error and nothing changes, so no action stands for it.          *)
Subscribe(i, r, confirmed, lifetime) ==
  /\ LockFree
  /\ FirstInvalid(i)
  /\ \A j \in Sub : ~ Matches(j, r)
  /\ \E a \in AddrIndex :
       /\ cov_address_add(r[1], a)
       /\ addrs' = AddressAdded(r[1], a)
       /\ subs' = [subs EXCEPT ![i] =
                     [valid |-> TRUE, confirmed |-> confirmed,
                      send_requested |-> TRUE, dest |-> a, invokeID |-> 0,
                      pid |-> r[2], lifetime |-> lifetime, object |-> r[3]]]
  /\ UNCHANGED <<tsm, currentID, state, index, changed, cov_pc>>

-----------------------------------------------------------------------------
(* SimpleACK, ComplexACK, Error, Reject and Abort in apdu_handler: they    *)
(* free the transaction of the invoke id they carry, whoever sent them.    *)
(* With an id no slot has they change nothing, nor does a SegmentACK,      *)
(* whose id is not read.                                                   *)
Answer(id) ==
  /\ LockFree
  /\ InUse(tsm, id)
  /\ tsm' = tsm_free_invoke_id(tsm, id)
  /\ UNCHANGED <<subs, addrs, currentID, state, index, changed, cov_pc>>

(* One slot's part of tsm_timer_milliseconds.                              *)
TsmTimer(k) ==
  /\ TsmTimerRuns
  /\ LockFree
  /\ tsm[k].state = "AWAIT_CONFIRMATION"
  /\ tsm' = tsm_timer_expired(tsm, k)
  /\ UNCHANGED <<subs, addrs, currentID, state, index, changed, cov_pc>>

(* A value worth reporting is written.                                     *)
ObjectChange(o) ==
  /\ changed' = [changed EXCEPT ![o] = TRUE]
  /\ UNCHANGED <<subs, addrs, tsm, currentID, state, index, cov_pc>>

-----------------------------------------------------------------------------
(* bacnet_cov_task, first call: handler_cov_timer_seconds(1).              *)

Expiring == {i \in Sub : subs[i].valid /\ subs[i].lifetime = 1}

handler_cov_timer_seconds ==
  /\ cov_pc = "delay"
  /\ cov_pc' = "fsm"
  /\ subs' = [i \in Sub |->
       IF i \in Expiring
         THEN [subs[i] EXCEPT !.valid = FALSE, !.dest = NoDest, !.lifetime = 0,
                              !.invokeID = IF subs[i].confirmed THEN 0 ELSE @]
         ELSE IF subs[i].valid /\ subs[i].lifetime > 0
                THEN [subs[i] EXCEPT !.lifetime = @ - 1]
                ELSE subs[i]]
  /\ addrs' = IF Expiring = {} THEN addrs ELSE cov_address_remove_unused(subs')
  /\ tsm' = tsm_free_invoke_ids(tsm,
              {subs[i].invokeID : i \in {j \in Expiring :
                 subs[j].confirmed /\ subs[j].invokeID # 0}})
  /\ UNCHANGED <<currentID, state, index, changed>>

-----------------------------------------------------------------------------
(* bacnet_cov_task, second call: one step of handler_cov_fsm.              *)

FsmStep(s) == cov_pc = "fsm" /\ state = s /\ cov_pc' = "delay"

(* Variant: one entry too far.                                             *)
NextIndex_OffByOne(next) ==
  IF index = MAX_COV_SUBCRIPTIONS
    THEN index' = 0 /\ state' = next
    ELSE index' = index + 1 /\ state' = state

(* The end of a case of the switch: on to the next entry, and from the     *)
(* last one to the next state.                                             *)
NextIndex(next) ==
  IF index = MAX_COV_SUBCRIPTIONS - 1
    THEN index' = 0 /\ state' = next
    ELSE index' = index + 1 /\ state' = state

FsmIdle ==
  /\ FsmStep("IDLE")
  /\ index' = 0
  /\ state' = "MARK"
  /\ UNCHANGED <<subs, addrs, tsm, currentID, changed>>

(* Variant: marked whether the object changed or not.                      *)
FsmMark_Unchanged ==
  /\ FsmStep("MARK")
  /\ subs' = IF subs[index].valid
               THEN [subs EXCEPT ![index].send_requested = TRUE]
               ELSE subs
  /\ NextIndex("CLEAR")
  /\ UNCHANGED <<addrs, tsm, currentID, changed>>

FsmMark ==
  /\ FsmStep("MARK")
  /\ subs' = IF subs[index].valid /\ changed[subs[index].object]
               THEN [subs EXCEPT ![index].send_requested = TRUE]
               ELSE subs
  /\ NextIndex("CLEAR")
  /\ UNCHANGED <<addrs, tsm, currentID, changed>>

(* Variant: cleared for every subscription, marked or not.                 *)
FsmClear_Unmarked ==
  /\ FsmStep("CLEAR")
  /\ changed' = IF subs[index].valid
                  THEN [changed EXCEPT ![subs[index].object] = FALSE]
                  ELSE changed
  /\ NextIndex("FREE")
  /\ UNCHANGED <<subs, addrs, tsm, currentID>>

FsmClear ==
  /\ FsmStep("CLEAR")
  /\ changed' = IF subs[index].valid /\ subs[index].send_requested
                  THEN [changed EXCEPT ![subs[index].object] = FALSE]
                  ELSE changed
  /\ NextIndex("FREE")
  /\ UNCHANGED <<subs, addrs, tsm, currentID>>

(* Variant: only a failed transaction is noticed, not an answered one.     *)
FsmFree_OnlyFailed ==
  /\ FsmStep("FREE")
  /\ LET id == subs[index].invokeID
         failed == tsm_invoke_id_failed(tsm, id)
     IN /\ subs' = IF subs[index].valid /\ id # 0 /\ failed
                     THEN [subs EXCEPT ![index].invokeID = 0]
                     ELSE subs
        /\ tsm' = IF id # 0 /\ failed THEN tsm_free_invoke_id(tsm, id) ELSE tsm
  /\ NextIndex("SEND")
  /\ UNCHANGED <<addrs, currentID, changed>>

(* Housekeeping: the invoke id of an answered or failed notification.      *)
FsmFree ==
  /\ FsmStep("FREE")
  /\ LET id == subs[index].invokeID
         pending == subs[index].valid /\ subs[index].confirmed /\ id # 0
         failed == tsm_invoke_id_failed(tsm, id)
     IN /\ subs' = IF pending /\ (tsm_invoke_id_free(tsm, id) \/ failed)
                     THEN [subs EXCEPT ![index].invokeID = 0]
                     ELSE subs
        /\ tsm' = IF pending /\ failed THEN tsm_free_invoke_id(tsm, id) ELSE tsm
  /\ NextIndex("SEND")
  /\ UNCHANGED <<addrs, currentID, changed>>

(* Entry i has a notification to send and may send it now.                 *)
SendDue(i) ==
  /\ subs[i].valid
  /\ subs[i].send_requested
  /\ subs[i].confirmed =>
       subs[i].invokeID = 0 /\ tsm_transaction_available(tsm)

DestKnown(i) == subs[i].dest \in AddrIndex /\ addrs[subs[i].dest].valid

(* datalink_send_pdu on the link bacnet_cov_task has selected may take the *)
(* PDU for dest.  It may also fail, for want of a socket or of room.       *)
LinkTakes(dest) == DefaultLink = "bip" => BipCanSend(dest)

FsmSendNothing ==
  /\ FsmStep("SEND")
  /\ ~ (SendDue(index) /\ DestKnown(index))
  /\ NextIndex("IDLE")
  /\ UNCHANGED <<subs, addrs, tsm, currentID, changed>>

(* cov_send_request for an unconfirmed subscription.                       *)
FsmSendUnconfirmed(sent) ==
  /\ FsmStep("SEND")
  /\ SendDue(index) /\ DestKnown(index) /\ ~ subs[index].confirmed
  /\ sent => LinkTakes(addrs[subs[index].dest].dest)
  /\ subs' = [subs EXCEPT ![index].send_requested = ~ sent]
  /\ NextIndex("IDLE")
  /\ UNCHANGED <<addrs, tsm, currentID, changed>>

(* cov_send_request for a confirmed one: the transaction is started before *)
(* the datalink is asked, and stays when the datalink refuses.             *)
FsmSendConfirmed(id, sent) ==
  /\ FsmStep("SEND")
  /\ SendDue(index) /\ DestKnown(index) /\ subs[index].confirmed
  /\ tsm_next_free_invokeID(tsm, currentID, id)
  /\ sent => LinkTakes(addrs[subs[index].dest].dest)
  /\ subs' = [subs EXCEPT ![index].send_requested = ~ sent,
                          ![index].invokeID = id]
  /\ tsm' = tsm_set_confirmed_unsegmented_transaction(tsm, id)
  /\ currentID' = IncrementID(id)
  /\ NextIndex("IDLE")
  /\ UNCHANGED <<addrs, changed>>

FsmSend ==
  \/ FsmSendNothing
  \/ \E sent \in BOOLEAN :
       \/ FsmSendUnconfirmed(sent)
       \/ \E id \in InvokeID : FsmSendConfirmed(id, sent)

handler_cov_fsm == FsmIdle \/ FsmMark \/ FsmClear \/ FsmFree \/ FsmSend

bacnet_cov_task == handler_cov_timer_seconds \/ handler_cov_fsm

-----------------------------------------------------------------------------
SubscribeCOV ==
  \E i \in Sub, r \in Request :
    \/ Cancel(i, r)
    \/ \E confirmed \in BOOLEAN, lifetime \in Lifetime :
         Resubscribe(i, r, confirmed, lifetime) \/ Subscribe(i, r, confirmed, lifetime)

Next ==
  \/ SubscribeCOV
  \/ \E id \in InvokeID : Answer(id)
  \/ \E k \in Slot : TsmTimer(k)
  \/ \E o \in Object : ObjectChange(o)
  \/ bacnet_cov_task

Spec == Init /\ [][Next]_vars

-----------------------------------------------------------------------------
TypeOK ==
  /\ subs \in [Sub -> Subscription]
  /\ \A i \in Sub : subs[i].valid => subs[i].object \in Object
  /\ addrs \in [AddrIndex -> CovAddress]
  /\ tsm \in TsmTable
  /\ currentID \in InvokeID
  /\ state \in FsmState
  /\ index \in Sub
  /\ changed \in [Object -> BOOLEAN]
  /\ cov_pc \in {"delay", "fsm"}

-----------------------------------------------------------------------------
(* The address list is shared by the subscriptions and kept by hand: no    *)
(* valid subscription may point at an entry that was given up, or its      *)
(* notifications stop (cov_address_get returns NULL) and any client        *)
(* matches it in cov_list_subscribe.                                       *)
DestinationsLive ==
  \A i \in Sub : subs[i].valid =>
    subs[i].dest \in AddrIndex /\ addrs[subs[i].dest].valid

(* Nor may an entry outlive its last subscription: after 16 of those       *)
(* cov_address_add refuses every new client.                               *)
NoAddressLeak ==
  \A a \in AddrIndex : addrs[a].valid =>
    \E i \in Sub : subs[i].valid /\ subs[i].dest = a

(* No two entries of the address list compare equal, so that the first hit *)
(* of cov_address_add is the only one.                                     *)
AddressesDistinct ==
  \A a, b \in AddrIndex :
    addrs[a].valid /\ addrs[b].valid
      /\ bacnet_address_same(addrs[a].dest, addrs[b].dest) => a = b

(* A client never holds two subscriptions for one object and process id:   *)
(* cov_list_subscribe stops at the first match, so a cancellation would    *)
(* leave the other one behind.                                             *)
OneSubscriptionPerKey ==
  \A i, j \in Sub :
    /\ subs[i].valid /\ subs[j].valid
    /\ subs[i].object = subs[j].object
    /\ subs[i].pid = subs[j].pid
    /\ subs[i].dest = subs[j].dest
    => i = j

(* Every transaction in the table belongs to a live confirmed subscription *)
(* that will release it; the eight slots are all the device has, and       *)
(* cancelling, renewing and expiring each release on a path of their own.  *)
NoTransactionLeak ==
  \A k \in Slot : tsm[k].id # 0 =>
    \E i \in Sub : subs[i].valid /\ subs[i].confirmed
                      /\ subs[i].invokeID = tsm[k].id

(* No two slots carry one invoke id, although the counter wraps while old  *)
(* transactions are still waiting: tsm_free_invoke_id only frees the first *)
(* slot it finds.                                                          *)
TransactionIDsDistinct ==
  \A k, l \in Slot : tsm[k].id # 0 /\ tsm[k].id = tsm[l].id => k = l

(* A subscription that stays valid goes on notifying the address it was    *)
(* made from: entries of the address list are never rewritten or moved     *)
(* under it by the requests and expirations of other clients.              *)
DestinationStable ==
  [][\A i \in Sub :
       subs[i].valid /\ subs'[i].valid =>
         addrs'[subs'[i].dest].dest = addrs[subs[i].dest].dest]_vars
=============================================================================
