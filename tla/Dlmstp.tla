------------------------------- MODULE Dlmstp -------------------------------
(***************************************************************************)
(* Sending on MS/TP: the datalink mutex and the link it selects            *)
(* (bacnet_app.c, datalink.c), the PDU queue of dlmstp.c in its ring       *)
(* buffer, and what the master node state machine takes out of it.         *)
(*                                                                         *)
(* Four tasks send under the mutex.  One of them, bacnet_mstp_rx, also     *)
(* runs the state machine, which empties the queue without the mutex while *)
(* another task may be filling it.  Time is left out: the machine may give *)
(* up waiting for an answer whenever there is none.                        *)
(***************************************************************************)
EXTENDS Integers, FiniteSets

CONSTANTS
  DLMSTP_MAX_INFO_FRAMES,  \* packets of PDU_Queue (1)
  Nmax_info_frames,        \* frames that may be sent per token (80)
  Unsigned,                \* values of an unsigned counter (2^32)
  Request,                 \* [src, id] of the confirmed requests that come
  DefaultLink              \* datalink_default

ASSUME DlmstpAssumption ==
  /\ {DLMSTP_MAX_INFO_FRAMES, Nmax_info_frames, Unsigned} \subseteq Nat \ {0}
  /\ Unsigned > DLMSTP_MAX_INFO_FRAMES
  /\ Unsigned % DLMSTP_MAX_INFO_FRAMES = 0
  /\ Request \subseteq [src : Nat, id : Nat]
  /\ DefaultLink \in {"bip", "mstp"}

VARIABLES
  mutex,      \* the task that has bacnet_datalink_mutex
  link,       \* Datalink_Transport
  pc,         \* where each task stands
  job,        \* the PDU each task is about to send
  slots,      \* PDU_Buffer
  head, tail, \* of PDU_Queue
  node,       \* master_state, as far as the queue is concerned
  held,       \* the request that is kept while it waits for its answer
  frames,     \* FrameCount
  out,        \* OutputBuffer
  sent,       \* the last PDU that went out on the line
  postponed   \* requests that were answered Reply Postponed, and no more yet

locking == <<mutex, link>>
ring == <<slots, head, tail>>
machine == <<node, held, frames>>
vars == <<locking, pc, job, ring, machine, out, sent, postponed>>

Task == {"mstp_rx", "maint", "cov", "rx"}
Link == {"bip", "mstp"}

(* The link each task asks bacnet_app_datalink_lock for.                   *)
LinkOf(t) ==
  IF t \in {"mstp_rx", "maint"} THEN "mstp"
  ELSE IF t = "rx" THEN "bip" ELSE DefaultLink

Reply(r) == [type |-> "Reply", src |-> r.src, id |-> r.id]
NoReply == [type |-> "None", src |-> 0, id |-> 0]
IAm == [type |-> "I-Am", src |-> 0, id |-> 0]
Notification == [type |-> "Notification", src |-> 0, id |-> 0]
Pdu == {Reply(r) : r \in Request} \cup {IAm, Notification}
Partial == [type |-> "Partial", src |-> 0, id |-> 0]
NoRequest == [src |-> 0, id |-> 0]

Init ==
  /\ mutex = "none"
  /\ link = DefaultLink
  /\ pc = [t \in Task |-> "idle"]
  /\ job = [t \in Task |-> NoReply]
  /\ slots = [i \in 0 .. DLMSTP_MAX_INFO_FRAMES - 1 |-> NoReply]
  /\ head = 0
  /\ tail = 0
  /\ node = "IDLE"
  /\ held = NoRequest
  /\ frames = 0
  /\ out = NoReply
  /\ sent = NoReply
  /\ postponed = {}

-----------------------------------------------------------------------------
(* The ring buffer of basic/sys/ringbuf.c.                                 *)

(* Variant: the counter does not wrap around.                              *)
Plus1_NoWrap(n) == n + 1

Plus1(n) == (n + 1) % Unsigned

Index(n) == n % DLMSTP_MAX_INFO_FRAMES
Ringbuf_Count == (head - tail) % Unsigned
Ringbuf_Empty == Ringbuf_Count = 0

(* Variant: one more than there is room for.                               *)
Ringbuf_Full_OffByOne == Ringbuf_Count > DLMSTP_MAX_INFO_FRAMES

Ringbuf_Full == Ringbuf_Count = DLMSTP_MAX_INFO_FRAMES

Oldest == slots[Index(tail)]

-----------------------------------------------------------------------------
(* Tasks that send.                                                        *)

Goto(t, label) == pc' = [pc EXCEPT ![t] = label]

(* Something is to be sent: the I-Am of every minute, a notification, an   *)
(* answer on IP.                                                           *)
Wake(t, p) ==
  /\ t # "mstp_rx"
  /\ pc[t] = "idle"
  /\ p = IF t = "maint" THEN IAm ELSE Notification
  /\ job' = [job EXCEPT ![t] = p]
  /\ Goto(t, "lock")
  /\ UNCHANGED <<locking, ring, machine, out, sent, postponed>>

(* Variant: as if the mutex could not be created.                          *)
bacnet_app_datalink_lock_NoMutex(t) ==
  /\ pc[t] = "lock"
  /\ link' = LinkOf(t)
  /\ Goto(t, "send")
  /\ UNCHANGED <<mutex, job, ring, machine, out, sent, postponed>>

bacnet_app_datalink_lock(t) ==
  /\ pc[t] = "lock"
  /\ mutex = "none"
  /\ mutex' = t
  /\ link' = LinkOf(t)
  /\ Goto(t, "send")
  /\ UNCHANGED <<job, ring, machine, out, sent, postponed>>

(* The handler has nothing to send, or sends by bip_send_pdu.              *)
SendElsewhere(t) ==
  /\ pc[t] = "send"
  /\ job[t] = NoReply \/ link = "bip"
  /\ Goto(t, "unlock")
  /\ UNCHANGED <<locking, job, ring, machine, out, sent, postponed>>

(* dlmstp_send_pdu: a packet is found and is about to be filled.           *)
Ringbuf_Data_Peek(t) ==
  /\ pc[t] = "send"
  /\ job[t] # NoReply /\ link = "mstp"
  /\ ~ Ringbuf_Full
  /\ slots' = [slots EXCEPT ![Index(head)] = Partial]
  /\ Goto(t, "fill")
  /\ UNCHANGED <<locking, job, head, tail, machine, out, sent, postponed>>

(* There is no room: dlmstp_send_pdu returns 0, and the PDU is forgotten.  *)
Refuse(t) ==
  /\ pc[t] = "send"
  /\ job[t] # NoReply /\ link = "mstp"
  /\ Ringbuf_Full
  /\ Goto(t, "unlock")
  /\ UNCHANGED <<locking, job, ring, machine, out, sent, postponed>>

Fill(t) ==
  /\ pc[t] = "fill"
  /\ slots' = [slots EXCEPT ![Index(head)] = job[t]]
  /\ Goto(t, "put")
  /\ UNCHANGED <<locking, job, head, tail, machine, out, sent, postponed>>

Ringbuf_Data_Put(t) ==
  /\ pc[t] = "put"
  /\ head' = Plus1(head)
  /\ Goto(t, "unlock")
  /\ UNCHANGED <<locking, job, slots, tail, machine, out, sent, postponed>>

bacnet_app_datalink_unlock(t) ==
  /\ pc[t] = "unlock"
  /\ link' = DefaultLink
  /\ mutex' = "none"
  /\ job' = [job EXCEPT ![t] = NoReply]
  /\ Goto(t, "idle")
  /\ UNCHANGED <<ring, machine, out, sent, postponed>>

-----------------------------------------------------------------------------
(* The master node state machine, run by bacnet_mstp_rx in dlmstp_receive. *)

Machine(st) == pc["mstp_rx"] = "idle" /\ node = st

(* A confirmed request: the machine keeps it, the task handles it.  Its    *)
(* client has not been put off with a request before.                      *)
ReceiveRequest(r) ==
  /\ Machine("IDLE")
  /\ r \notin postponed
  /\ held' = r
  /\ node' = "ANSWER_DATA_REQUEST"
  /\ job' = [job EXCEPT !["mstp_rx"] = Reply(r)]
  /\ Goto("mstp_rx", "lock")
  /\ UNCHANGED <<locking, ring, frames, out, sent, postponed>>

(* Who-Is, answered by an I-Am, and what is not answered.                  *)
ReceiveUnconfirmed(p) ==
  /\ Machine("IDLE")
  /\ job' = [job EXCEPT !["mstp_rx"] = p]
  /\ Goto("mstp_rx", "lock")
  /\ UNCHANGED <<locking, ring, machine, out, sent, postponed>>

ReceiveToken ==
  /\ Machine("IDLE")
  /\ node' = "USE_TOKEN"
  /\ frames' = 0
  /\ UNCHANGED <<locking, pc, job, ring, held, out, sent, postponed>>

(* The oldest packet is converted to a frame, and popped afterwards.       *)
Convert ==
  /\ out' = Oldest
  /\ Goto("mstp_rx", "pop")
  /\ UNCHANGED <<locking, job, ring, machine, sent, postponed>>

MSTP_Get_Send == Machine("USE_TOKEN") /\ ~ Ringbuf_Empty /\ Convert

(* Is p the reply to the request that is held?  The stations of the two    *)
(* are compared too, but bacnet_address_same never finds them different.   *)
npdu_is_data_expecting_reply(p) == p.type = "Reply" /\ p.id = held.id

MSTP_Get_Reply ==
  /\ Machine("ANSWER_DATA_REQUEST")
  /\ ~ Ringbuf_Empty /\ npdu_is_data_expecting_reply(Oldest)
  /\ Convert

Answered == {r \in Request : Reply(r) = out}

(* Variant: a reply stays in the queue.                                    *)
Ringbuf_Pop_NotReply ==
  /\ pc["mstp_rx"] = "pop"
  /\ tail' = IF node = "USE_TOKEN" THEN Plus1(tail) ELSE tail
  /\ sent' = out
  /\ postponed' = postponed \ Answered
  /\ Goto("mstp_rx", "idle")
  /\ IF node = "USE_TOKEN"
       THEN /\ frames' = frames + 1
            /\ node' = IF frames' < Nmax_info_frames THEN node ELSE "IDLE"
            /\ UNCHANGED held
       ELSE node' = "IDLE" /\ held' = NoRequest /\ UNCHANGED frames
  /\ UNCHANGED <<locking, job, slots, head, out>>

(* The packet is popped and the frame sent: with the token, one more of    *)
(* those it allows, else as the answer.                                    *)
Ringbuf_Pop ==
  /\ pc["mstp_rx"] = "pop"
  /\ tail' = Plus1(tail)
  /\ sent' = out
  /\ postponed' = postponed \ Answered
  /\ Goto("mstp_rx", "idle")
  /\ IF node = "USE_TOKEN"
       THEN /\ frames' = frames + 1
            /\ node' = IF frames' < Nmax_info_frames THEN node ELSE "IDLE"
            /\ UNCHANGED held
       ELSE node' = "IDLE" /\ held' = NoRequest /\ UNCHANGED frames
  /\ UNCHANGED <<locking, job, slots, head, out>>

(* Variant: whether or not something waits to be sent.                     *)
NothingToSend_Any ==
  /\ Machine("USE_TOKEN")
  /\ node' = "IDLE"
  /\ UNCHANGED <<locking, pc, job, ring, held, frames, out, sent, postponed>>

NothingToSend ==
  /\ Machine("USE_TOKEN")
  /\ Ringbuf_Empty
  /\ node' = "IDLE"
  /\ UNCHANGED <<locking, pc, job, ring, held, frames, out, sent, postponed>>

(* No answer in time: Reply Postponed is sent.                             *)
DeferredReply ==
  /\ Machine("ANSWER_DATA_REQUEST")
  /\ Ringbuf_Empty \/ ~ npdu_is_data_expecting_reply(Oldest)
  /\ node' = "IDLE"
  /\ held' = NoRequest
  /\ postponed' = postponed \cup {held}
  /\ UNCHANGED <<locking, pc, job, ring, frames, out, sent>>

-----------------------------------------------------------------------------
(* What a task does once it is under way.                                  *)
Step(t) ==
  \/ SendElsewhere(t) \/ Ringbuf_Data_Peek(t) \/ Refuse(t) \/ Fill(t)
  \/ Ringbuf_Data_Put(t) \/ bacnet_app_datalink_unlock(t)

MachineStep ==
  \/ MSTP_Get_Send \/ MSTP_Get_Reply \/ Ringbuf_Pop \/ NothingToSend
  \/ DeferredReply

Next ==
  \/ \E t \in Task :
       Step(t) \/ bacnet_app_datalink_lock(t) \/ \E p \in Pdu : Wake(t, p)
  \/ MachineStep
  \/ \E r \in Request : ReceiveRequest(r)
  \/ \E p \in {IAm, NoReply} : ReceiveUnconfirmed(p)
  \/ ReceiveToken

(* Tasks run, and none is passed over for ever when the mutex is given:    *)
(* FreeRTOS gives it to the waiting task of the highest priority, and no   *)
(* task asks again without a delay.  The token comes again and again, as   *)
(* TokenComesRound of Mstp has it.                                         *)
Fairness ==
  /\ \A t \in Task : WF_vars(Step(t)) /\ SF_vars(bacnet_app_datalink_lock(t))
  /\ WF_vars(MachineStep)
  /\ SF_vars(ReceiveToken)

Safety == Init /\ [][Next]_vars
Spec == Safety /\ Fairness

-----------------------------------------------------------------------------
TypeOK ==
  /\ mutex \in Task \cup {"none"}
  /\ link \in Link
  /\ pc \in [Task -> {"idle", "lock", "send", "fill", "put", "unlock", "pop"}]
  /\ job \in [Task -> Pdu \cup {NoReply}]
  /\ slots \in [0 .. DLMSTP_MAX_INFO_FRAMES - 1 -> Pdu \cup {NoReply, Partial}]
  /\ head \in 0 .. Unsigned - 1
  /\ tail \in 0 .. Unsigned - 1
  /\ node \in {"IDLE", "USE_TOKEN", "ANSWER_DATA_REQUEST"}
  /\ held \in Request \cup {NoRequest}
  /\ frames \in 0 .. Nmax_info_frames
  /\ out \in Pdu \cup {NoReply, Partial}
  /\ sent \in Pdu \cup {NoReply, Partial}
  /\ postponed \subseteq Request

(* A task sends on the link it asked for, however the four of them         *)
(* interleave: Datalink_Transport is one variable for all.                 *)
LinkOfCaller ==
  \A t \in Task : pc[t] \in {"send", "fill", "put", "unlock"} => link = LinkOf(t)

(* A packet is not filled while the state machine, which does not take the *)
(* mutex, still reads it, and no two tasks fill the same one.              *)
PacketsApart ==
  /\ pc["mstp_rx"] = "pop" => out = Oldest /\ out # Partial
  /\ \A t, u \in Task : pc[t] \in {"fill", "put"} /\ pc[u] \in {"fill", "put"}
                          => t = u

(* The ring buffer is a queue: what was put is sent once, whole and in the *)
(* order in which it was put, although counters wrap around and one task   *)
(* puts while another takes.                                               *)
Queued ==
  [i \in 1 .. Ringbuf_Count |-> slots[Index(tail + i - 1)]]

Queue ==
  INSTANCE PduQueue WITH
    queue <- Queued, NoPdu <- NoReply, Size <- DLMSTP_MAX_INFO_FRAMES

ImplementsQueue == Queue!Spec

(* Whatever was accepted is sent in the end: packets are taken again and   *)
(* again, or there comes a time when none is left.                         *)
QueueDrains == []<> Ringbuf_Empty \/ []<><<tail' # tail>>_vars

(* A request that was answered Reply Postponed is answered when the token  *)
(* comes, as the comment on DeferredReply in MSTP_Master_Node_FSM has it.  *)
PostponedReplyComes ==
  \A r \in Request : r \in postponed ~> r \notin postponed
=============================================================================
