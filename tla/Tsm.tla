-------------------------------- MODULE Tsm --------------------------------
(***************************************************************************)
(* The transaction table of basic/tsm/tsm.c as operators on a table        *)
(* t \in TsmTable: which invoke id occupies which slot, and whether the    *)
(* slot still waits for the peer's answer.  An id of 0 marks a free slot.  *)
(* The stored copy of the PDU is left out.                                 *)
(***************************************************************************)
EXTENDS Naturals

CONSTANTS
  MAX_TSM_TRANSACTIONS,   \* slots of TSM_List
  MaxInvokeID,            \* largest uint8_t invoke id: 255 in the program
  ApduRetries             \* apdu_retries()

ASSUME TsmAssumption ==
  /\ MAX_TSM_TRANSACTIONS \in Nat \ {0}
  /\ MaxInvokeID \in Nat
  /\ MaxInvokeID > MAX_TSM_TRANSACTIONS
  /\ ApduRetries \in Nat

Slot == 0 .. MAX_TSM_TRANSACTIONS - 1

InvokeID == 1 .. MaxInvokeID

SlotRecord ==
  [id : 0 .. MaxInvokeID, state : {"IDLE", "AWAIT_CONFIRMATION"},
   retry : 0 .. ApduRetries]

TsmTable == [Slot -> SlotRecord]

FreeSlot == [id |-> 0, state |-> "IDLE", retry |-> 0]

EmptyTsm == [k \in Slot |-> FreeSlot]

(* k is the slot a linear search for id stops at.                          *)
tsm_find_invokeID_index(t, id, k) ==
  /\ t[k].id = id
  /\ \A j \in Slot : j < k => t[j].id # id

InUse(t, id) == \E k \in Slot : t[k].id = id

tsm_transaction_available(t) == InUse(t, 0)

tsm_invoke_id_free(t, id) == ~ InUse(t, id)

tsm_invoke_id_failed(t, id) ==
  \E k \in Slot : tsm_find_invokeID_index(t, id, k) /\ t[k].state = "IDLE"

(* The counter after c: it wraps to 1, never to 0.                         *)
IncrementID(c) == IF c = MaxInvokeID THEN 1 ELSE c + 1

(* The ids the loop of tsm_next_free_invokeID passes over before id when   *)
(* the counter stands at c.                                                *)
PassedOver(c, id) ==
  IF c <= id THEN c .. id - 1 ELSE (c .. MaxInvokeID) \cup (1 .. id - 1)

(* Variant: the counter is taken as it stands.                             *)
tsm_next_free_invokeID_NoCheck(t, c, id) ==
  IF tsm_transaction_available(t) THEN id = c ELSE id = 0

(* id is what tsm_next_free_invokeID returns (0: no slot is available).    *)
tsm_next_free_invokeID(t, c, id) ==
  IF tsm_transaction_available(t)
    THEN /\ id \in InvokeID
         /\ ~ InUse(t, id)
         /\ \A p \in PassedOver(c, id) : InUse(t, p)
    ELSE id = 0

(* The reserved slot, once tsm_set_confirmed_unsegmented_transaction has   *)
(* started it: the first free one takes id and awaits the confirmation.    *)
tsm_set_confirmed_unsegmented_transaction(t, id) ==
  [k \in Slot |->
     IF tsm_find_invokeID_index(t, 0, k)
       THEN [id |-> id, state |-> "AWAIT_CONFIRMATION", retry |-> 0]
       ELSE t[k]]

(* tsm_free_invoke_id called for every id of ids: the slot a search for it *)
(* finds becomes idle and free.                                            *)
tsm_free_invoke_ids(t, ids) ==
  [k \in Slot |->
     IF \E id \in ids : tsm_find_invokeID_index(t, id, k)
       THEN [t[k] EXCEPT !.id = 0, !.state = "IDLE"]
       ELSE t[k]]

tsm_free_invoke_id(t, id) == tsm_free_invoke_ids(t, {id})

(* The part of tsm_timer_milliseconds for a slot whose RequestTimer has    *)
(* run out: another retry, or IDLE with the id still set, which is how a   *)
(* failed transaction is told.                                             *)
tsm_timer_expired(t, k) ==
  IF t[k].retry < ApduRetries
    THEN [t EXCEPT ![k].retry = @ + 1]
    ELSE [t EXCEPT ![k].state = "IDLE"]

=============================================================================
