---------------------------- MODULE DlmstpProofs ----------------------------
(* Theorems about Dlmstp, for every size of the queue, range of the        *)
(* counters, set of requests and default link.                             *)
EXTENDS Dlmstp, ModuloProofs, Sequences, SequenceTheorems, TLAPS

M == DLMSTP_MAX_INFO_FRAMES

-----------------------------------------------------------------------------
(* Ring buffers: h and t are the counters, c is how many packets there are. *)

Counter == 0 .. Unsigned - 1

Count(h, t) == (h - t) % Unsigned

LEMMA Sizes ==
  /\ M \in Nat \ {0} /\ Unsigned \in Nat \ {0}
  /\ M < Unsigned /\ Unsigned % M = 0 /\ Unsigned % Unsigned = 0
<1>1. Unsigned \in Nat \ {0}
  BY DlmstpAssumption
<1>2. Unsigned % Unsigned = 0
  <2>1. (Unsigned * 1 + 0) % Unsigned = 0
    BY <1>1, RestUnique
  <2> QED  BY <1>1, <2>1
<1> QED  BY <1>2, DlmstpAssumption DEF M

LEMMA CounterTypes ==
  ASSUME NEW n \in Int
  PROVE  Index(n) \in 0 .. M - 1 /\ Plus1(n) \in Counter
BY Sizes, DivMod DEF Index, Plus1, Counter, M

(* What a count is: the distance of the counters, up to wraps around.      *)
LEMMA CountIs ==
  ASSUME NEW h \in Counter, NEW t \in Counter
  PROVE  /\ Count(h, t) \in Counter
         /\ \E n \in Int : h = t + Count(h, t) + Unsigned * n
<1> DEFINE n == (h - t) \div Unsigned
<1>1. Count(h, t) \in Counter /\ n \in Int
      /\ h - t = Unsigned * n + Count(h, t)
  BY Sizes, DivMod DEF Count, Counter
<1>2. h \in Int /\ t \in Int /\ Count(h, t) \in Int /\ Unsigned * n \in Int
  BY <1>1, Sizes DEF Counter
<1> HIDE DEF n
<1>3. h = t + Count(h, t) + Unsigned * n
  BY <1>1, <1>2
<1> QED  BY <1>1, <1>3

(* Putting makes it one more, if that is still less than a wrap.           *)
LEMMA CountPut ==
  ASSUME NEW h \in Counter, NEW t \in Counter, Count(h, t) < M
  PROVE  Count(Plus1(h), t) = Count(h, t) + 1
<1> DEFINE c == Count(h, t)
<1>1. PICK n \in Int : h = t + c + Unsigned * n
  BY CountIs
<1>2. h \in Int /\ t \in Int /\ c \in Counter /\ c \in Int /\ c < M
  BY CountIs DEF Counter
<1> HIDE DEF c
<1>3. Count(Plus1(h), t) = (h + 1 - t) % Unsigned
  <2>1. (((h + 1) % Unsigned) + (- t)) % Unsigned = ((h + 1) + (- t)) % Unsigned
    <3> DEFINE a == h + 1
               j == - t
    <3>1. a \in Int /\ j \in Int
      BY <1>2
    <3> HIDE DEF a, j
    <3>2. ((a % Unsigned) + j) % Unsigned = (a + j) % Unsigned
      BY <3>1, Sizes, RestOfSum
    <3> QED  BY <3>2 DEF a, j
  <2>2. (h + 1) % Unsigned \in Int
    BY <1>2, CounterTypes DEF Plus1, Counter
  <2>3. ((h + 1) % Unsigned) + (- t) = ((h + 1) % Unsigned) - t
    BY <1>2, <2>2
  <2>4. (h + 1) + (- t) = h + 1 - t
    BY <1>2
  <2> QED  BY <2>1, <2>3, <2>4 DEF Count, Plus1
<1>4. h + 1 - t = Unsigned * n + (c + 1)
  <2>1. Unsigned * n \in Int  BY Sizes
  <2> QED  BY <1>1, <1>2, <2>1
<1>5. c + 1 \in 0 .. Unsigned - 1
  BY <1>2, Sizes DEF Counter
<1>6. (Unsigned * n + (c + 1)) % Unsigned = c + 1
  <2> DEFINE r == c + 1
  <2> HIDE DEF r
  <2>1. r \in 0 .. Unsigned - 1  BY <1>5 DEF r
  <2>2. (Unsigned * n + r) % Unsigned = r  BY <2>1, Sizes, RestUnique
  <2> QED  BY <2>2 DEF r
<1> QED  BY <1>3, <1>4, <1>6 DEF c

(* Popping makes it one less.                                              *)
LEMMA CountPop ==
  ASSUME NEW h \in Counter, NEW t \in Counter, Count(h, t) # 0
  PROVE  Count(h, Plus1(t)) = Count(h, t) - 1
<1> DEFINE c == Count(h, t)
           p == (t + 1) \div Unsigned
<1>1. PICK n \in Int : h = t + c + Unsigned * n
  BY CountIs
<1>2. h \in Int /\ t \in Int /\ c \in Counter /\ c \in Int /\ c # 0
  BY CountIs DEF Counter
<1>3. p \in Int /\ Plus1(t) \in Int /\ t + 1 = Unsigned * p + Plus1(t)
  BY <1>2, Sizes, DivMod DEF Plus1
<1> HIDE DEF c, p
<1>4. h - Plus1(t) = Unsigned * (n + p) + (c - 1)
  <2>1. Unsigned * n \in Int /\ Unsigned * p \in Int
        /\ Unsigned * (n + p) = Unsigned * n + Unsigned * p
    BY <1>3, Sizes
  <2> QED  BY <1>1, <1>2, <1>3, <2>1
<1>5. (Unsigned * (n + p) + (c - 1)) % Unsigned = c - 1
  <2> DEFINE r == c - 1
             q == n + p
  <2>1. r \in 0 .. Unsigned - 1 /\ q \in Int
    BY <1>1, <1>2, <1>3, Sizes DEF Counter
  <2> HIDE DEF r, q
  <2>2. (Unsigned * q + r) % Unsigned = r  BY <2>1, Sizes, RestUnique
  <2> QED  BY <2>2 DEF r, q
<1>6. Count(h, Plus1(t)) = (h - Plus1(t)) % Unsigned
  BY DEF Count
<1>7. Count(h, Plus1(t)) = c - 1
  BY <1>4, <1>5, <1>6
<1> QED  BY <1>7 DEF c

(* The packet behind the last one is where head points.                    *)
LEMMA HeadSlot ==
  ASSUME NEW h \in Counter, NEW t \in Counter
  PROVE  Index(h) = Index(t + Count(h, t))
<1> DEFINE c == Count(h, t)
           q == Unsigned \div M
           s == t + c
<1>1. PICK n \in Int : h = t + c + Unsigned * n
  BY CountIs
<1>2. h \in Int /\ t \in Int /\ c \in Int /\ s \in Int
  BY CountIs DEF Counter
<1>3. Unsigned = M * q /\ q \in Int
  BY Sizes, DivMod
<1> HIDE DEF c, q
<1>4. (M * q) * n = M * (q * n) /\ q * n \in Int
  BY <1>3, Sizes
<1>5. h = M * (q * n) + s
  BY <1>1, <1>2, <1>3, <1>4
<1>6. (M * (q * n) + s) % M = s % M
  <2> DEFINE k == q * n
  <2> HIDE DEF k, s
  <2>1. k \in Int  BY <1>4 DEF k
  <2>2. (M * k + s) % M = s % M  BY <1>2, <2>1, Sizes, RestOfShift
  <2> QED  BY <2>2 DEF k
<1>7. h % M = s % M
  BY <1>5, <1>6
<1> QED  BY <1>7 DEF Index, M, c

(* Packets that are less than the size apart are not the same.             *)
LEMMA SlotsApart ==
  ASSUME NEW a \in Int, NEW b \in Int, a < b, b < a + M
  PROVE  Index(a) # Index(b)
<1> SUFFICES ASSUME Index(a) = Index(b) PROVE FALSE
  OBVIOUS
<1>1. a % M = b % M
  BY DEF Index, M
<1>2. - M < a - b /\ a - b < M
  BY Sizes
<1>3. a = b
  BY <1>1, <1>2, Sizes, SameRest
<1> QED  BY <1>3

(* A wrap around of a counter does not show in the index.                  *)
LEMMA IndexPlus1 ==
  ASSUME NEW n \in Int, NEW j \in Int
  PROVE  Index(Plus1(n) + j) = Index(n + 1 + j)
<1> DEFINE a == n + 1
<1> a \in Int  OBVIOUS
<1> HIDE DEF a
<1>1. ((a % Unsigned) + j) % M = (a + j) % M
  BY Sizes, RestOfSum
<1> QED  BY <1>1 DEF a, Index, Plus1, M

-----------------------------------------------------------------------------
(* The steps, one name for each.                                           *)

PduTypes ==
  /\ IAm \in Pdu /\ Notification \in Pdu
  /\ \A r \in Request : Reply(r) \in Pdu
  /\ NoReply \notin Pdu /\ Partial \notin Pdu
  /\ \A p \in Pdu : p.type # "None" /\ p.type # "Partial"

LEMMA Pdus == PduTypes
<1>1. IAm \in Pdu /\ Notification \in Pdu /\ \A r \in Request : Reply(r) \in Pdu
  BY DEF Pdu
<1>2. \A p \in Pdu : p.type # "None" /\ p.type # "Partial"
  <2> SUFFICES ASSUME NEW p \in Pdu
               PROVE  p.type # "None" /\ p.type # "Partial"
    OBVIOUS
  <2>1. CASE p \in {IAm, Notification}
    BY <2>1 DEF IAm, Notification
  <2>2. ASSUME NEW r \in Request, p = Reply(r)
        PROVE  p.type # "None" /\ p.type # "Partial"
    BY <2>2 DEF Reply
  <2> QED  BY <2>1, <2>2 DEF Pdu
<1>3. NoReply.type = "None" /\ Partial.type = "Partial"
  BY DEF NoReply, Partial
<1> QED  BY <1>1, <1>2, <1>3 DEF PduTypes

(* Parts of the type invariant, so that a step only needs the ones it      *)
(* changes.                                                                *)
TaskTypes ==
  /\ mutex \in Task \cup {"none"}
  /\ link \in Link
  /\ pc \in [Task -> {"idle", "lock", "send", "fill", "put", "unlock", "pop"}]
  /\ job \in [Task -> Pdu \cup {NoReply}]

RingTypes ==
  /\ slots \in [0 .. M - 1 -> Pdu \cup {NoReply, Partial}]
  /\ head \in Counter
  /\ tail \in Counter

(* When the machine is about to pop it has the token or a request.         *)
MachineTypes ==
  /\ node \in {"IDLE", "USE_TOKEN", "ANSWER_DATA_REQUEST"}
  /\ held \in Request \cup {NoRequest}
  /\ frames \in 0 .. Nmax_info_frames
  /\ out \in Pdu \cup {NoReply, Partial}
  /\ sent \in Pdu \cup {NoReply, Partial}
  /\ postponed \subseteq Request
  /\ node = "USE_TOKEN" => frames < Nmax_info_frames
  /\ node = "ANSWER_DATA_REQUEST" => held \in Request
  /\ \A t \in Task : pc[t] = "pop" => t = "mstp_rx" /\ node # "IDLE"

Types == TaskTypes /\ RingTypes /\ MachineTypes

LEMMA InitTypes == Init => Types
<1> SUFFICES ASSUME Init PROVE Types
  OBVIOUS
<1>1. TaskTypes
  BY DlmstpAssumption DEF Init, TaskTypes, Task, Link
<1>2. RingTypes
  BY Sizes DEF Init, RingTypes, Counter, M
<1>3. MachineTypes
  BY DlmstpAssumption DEF Init, MachineTypes, Task
<1> QED  BY <1>1, <1>2, <1>3 DEF Types

LEMMA StepTaskTypes == Types /\ [Next]_vars => TaskTypes'
<1> SUFFICES ASSUME Types, [Next]_vars PROVE TaskTypes'
  OBVIOUS
<1> USE Pdus DEF Types, TaskTypes, PduTypes, Goto
<1>1. ASSUME NEW t \in Task, NEW p \in Pdu, Wake(t, p) PROVE TaskTypes'
  BY <1>1 DEF Wake, locking
<1>2. ASSUME NEW t \in Task, bacnet_app_datalink_lock(t) PROVE TaskTypes'
  BY <1>2, DlmstpAssumption DEF bacnet_app_datalink_lock, LinkOf, Link
<1>3. ASSUME NEW t \in Task, Step(t) PROVE TaskTypes'
  BY <1>3, DlmstpAssumption
    DEF Step, SendElsewhere, Ringbuf_Data_Peek, Refuse, Fill, Ringbuf_Data_Put,
        bacnet_app_datalink_unlock, locking, Link
<1>4. ASSUME MachineStep PROVE TaskTypes'
  BY <1>4
    DEF MachineStep, MSTP_Get_Send, MSTP_Get_Reply, Convert, Ringbuf_Pop,
        NothingToSend, DeferredReply, locking
<1>5. ASSUME NEW r \in Request, ReceiveRequest(r) PROVE TaskTypes'
  BY <1>5 DEF ReceiveRequest, locking
<1>6. ASSUME NEW p \in {IAm, NoReply}, ReceiveUnconfirmed(p) PROVE TaskTypes'
  BY <1>6 DEF ReceiveUnconfirmed, locking
<1>7. ASSUME ReceiveToken PROVE TaskTypes'
  BY <1>7 DEF ReceiveToken, locking
<1>8. CASE UNCHANGED vars
  BY <1>8 DEF vars, locking
<1> QED  BY <1>1, <1>2, <1>3, <1>4, <1>5, <1>6, <1>7, <1>8 DEF Next

LEMMA StepRingTypes == Types /\ [Next]_vars => RingTypes'
<1> SUFFICES ASSUME Types, [Next]_vars PROVE RingTypes'
  OBVIOUS
<1> USE Pdus, CounterTypes DEF Types, RingTypes, PduTypes
<1>1. ASSUME NEW t \in Task, NEW p \in Pdu, Wake(t, p) PROVE RingTypes'
  BY <1>1 DEF Wake, ring
<1>2. ASSUME NEW t \in Task, bacnet_app_datalink_lock(t) PROVE RingTypes'
  BY <1>2 DEF bacnet_app_datalink_lock, ring
<1>3. ASSUME NEW t \in Task, Step(t) PROVE RingTypes'
  <2>1. job[t] \in Pdu \cup {NoReply}  BY DEF TaskTypes
  <2>2. head \in Int  BY DEF Counter
  <2>3. Plus1(head) \in Counter  BY <2>2, CounterTypes
  <2>4. CASE slots' = slots /\ head' = head /\ tail' = tail
    BY <2>4
  <2>5. CASE Ringbuf_Data_Peek(t)
    BY <2>5 DEF Ringbuf_Data_Peek
  <2>6. CASE Fill(t)
    BY <2>1, <2>6 DEF Fill
  <2>7. CASE Ringbuf_Data_Put(t)
    BY <2>3, <2>7 DEF Ringbuf_Data_Put
  <2> QED  BY <1>3, <2>4, <2>5, <2>6, <2>7
        DEF Step, SendElsewhere, Refuse, bacnet_app_datalink_unlock, ring
<1>4. ASSUME MachineStep PROVE RingTypes'
  <2>1. tail \in Int  BY DEF Counter
  <2>2. Plus1(tail) \in Counter  BY <2>1, CounterTypes
  <2> QED  BY <1>4, <2>2
        DEF MachineStep, MSTP_Get_Send, MSTP_Get_Reply, Convert, Ringbuf_Pop,
            NothingToSend, DeferredReply, ring
<1>5. ASSUME NEW r \in Request, ReceiveRequest(r) PROVE RingTypes'
  BY <1>5 DEF ReceiveRequest, ring
<1>6. ASSUME NEW p \in {IAm, NoReply}, ReceiveUnconfirmed(p) PROVE RingTypes'
  BY <1>6 DEF ReceiveUnconfirmed, ring
<1>7. ASSUME ReceiveToken PROVE RingTypes'
  BY <1>7 DEF ReceiveToken, ring
<1>8. CASE UNCHANGED vars
  BY <1>8 DEF vars, ring
<1> QED  BY <1>1, <1>2, <1>3, <1>4, <1>5, <1>6, <1>7, <1>8 DEF Next

LEMMA StepMachineTypes == Types /\ [Next]_vars => MachineTypes'
<1> SUFFICES ASSUME Types, [Next]_vars PROVE MachineTypes'
  OBVIOUS
<1> USE DEF Types, MachineTypes, Goto, TaskTypes
<1>1. ASSUME NEW t \in Task, NEW p \in Pdu, Wake(t, p) PROVE MachineTypes'
  BY <1>1 DEF Wake, machine
<1>2. ASSUME NEW t \in Task, bacnet_app_datalink_lock(t) PROVE MachineTypes'
  BY <1>2 DEF bacnet_app_datalink_lock, machine
<1>3. ASSUME NEW t \in Task, Step(t) PROVE MachineTypes'
  BY <1>3
    DEF Step, SendElsewhere, Ringbuf_Data_Peek, Refuse, Fill, Ringbuf_Data_Put,
        bacnet_app_datalink_unlock, machine
<1>4. ASSUME MachineStep PROVE MachineTypes'
  <2>1. CASE MSTP_Get_Send \/ MSTP_Get_Reply
    <3>1. Oldest \in Pdu \cup {NoReply, Partial}
      BY CounterTypes DEF Oldest, RingTypes, Counter
    <3> QED  BY <2>1, <3>1 DEF MSTP_Get_Send, MSTP_Get_Reply, Convert, Machine, machine
  <2>2. CASE Ringbuf_Pop
    BY <2>2, DlmstpAssumption DEF Ringbuf_Pop, Answered
  <2>3. CASE NothingToSend
    BY <2>3 DEF NothingToSend, Machine
  <2>4. CASE DeferredReply
    BY <2>4 DEF DeferredReply, Machine
  <2> QED  BY <1>4, <2>1, <2>2, <2>3, <2>4 DEF MachineStep
<1>5. ASSUME NEW r \in Request, ReceiveRequest(r) PROVE MachineTypes'
  BY <1>5 DEF ReceiveRequest, Machine
<1>6. ASSUME NEW p \in {IAm, NoReply}, ReceiveUnconfirmed(p) PROVE MachineTypes'
  BY <1>6 DEF ReceiveUnconfirmed, Machine, machine
<1>7. ASSUME ReceiveToken PROVE MachineTypes'
  BY <1>7, DlmstpAssumption DEF ReceiveToken, Machine
<1>8. CASE UNCHANGED vars
  BY <1>8 DEF vars, machine
<1> QED  BY <1>1, <1>2, <1>3, <1>4, <1>5, <1>6, <1>7, <1>8 DEF Next

LEMMA StepTypes == Types /\ [Next]_vars => Types'
BY StepTaskTypes, StepRingTypes, StepMachineTypes DEF Types

LEMMA TypesHold == Safety => []Types
BY InitTypes, StepTypes, PTL DEF Safety

(* The types, for any number of packets and any range of the counters.     *)
THEOREM DlmstpTypeCorrect == Spec => []TypeOK
<1>1. Types => TypeOK
  BY DEF Types, TaskTypes, RingTypes, MachineTypes, TypeOK, Counter, M
<1> QED  BY <1>1, TypesHold, PTL DEF Spec

-----------------------------------------------------------------------------
(* The mutex: one task at most is between lock and unlock, and the link is *)
(* the one it asked for.                                                   *)

Locked ==
  /\ \A t \in Task : pc[t] \in {"send", "fill", "put", "unlock"} => mutex = t
  /\ mutex # "none" => link = LinkOf(mutex)

LEMMA InitLocked == Init => Locked
BY DEF Init, Locked, Task

LEMMA StepLocked == TaskTypes /\ Locked /\ [Next]_vars => Locked'
<1> SUFFICES ASSUME TaskTypes, Locked, [Next]_vars PROVE Locked'
  OBVIOUS
<1> USE DEF TaskTypes, Locked, Goto
<1>1. ASSUME NEW t \in Task, NEW p \in Pdu, Wake(t, p) PROVE Locked'
  BY <1>1 DEF Wake, locking, LinkOf
<1>2. ASSUME NEW t \in Task, bacnet_app_datalink_lock(t) PROVE Locked'
  <2>1. \A u \in Task : pc[u] \notin {"send", "fill", "put", "unlock"}
    BY <1>2 DEF bacnet_app_datalink_lock, Task
  <2> QED  BY <1>2, <2>1 DEF bacnet_app_datalink_lock, LinkOf
<1>3. ASSUME NEW t \in Task, Step(t) PROVE Locked'
  <2>1. CASE bacnet_app_datalink_unlock(t)
    BY <2>1 DEF bacnet_app_datalink_unlock
  <2>2. CASE ~ bacnet_app_datalink_unlock(t)
    BY <1>3, <2>2
      DEF Step, SendElsewhere, Ringbuf_Data_Peek, Refuse, Fill,
          Ringbuf_Data_Put, locking, LinkOf
  <2> QED  BY <2>1, <2>2
<1>4. ASSUME MachineStep PROVE Locked'
  BY <1>4
    DEF MachineStep, MSTP_Get_Send, MSTP_Get_Reply, Convert, Ringbuf_Pop,
        NothingToSend, DeferredReply, locking, LinkOf, Task
<1>5. ASSUME NEW r \in Request, ReceiveRequest(r) PROVE Locked'
  BY <1>5 DEF ReceiveRequest, locking, LinkOf, Task
<1>6. ASSUME NEW p \in {IAm, NoReply}, ReceiveUnconfirmed(p) PROVE Locked'
  BY <1>6 DEF ReceiveUnconfirmed, locking, LinkOf, Task
<1>7. ASSUME ReceiveToken PROVE Locked'
  BY <1>7 DEF ReceiveToken, locking, LinkOf
<1>8. CASE UNCHANGED vars
  BY <1>8 DEF vars, locking, LinkOf
<1> QED  BY <1>1, <1>2, <1>3, <1>4, <1>5, <1>6, <1>7, <1>8 DEF Next

LEMMA LockedHolds == Safety => []Locked
<1>1. Init => Locked
  BY InitLocked
<1>2. Types /\ Locked /\ [Next]_vars => Locked'
  BY StepLocked DEF Types
<1> QED  BY <1>1, <1>2, TypesHold, PTL DEF Safety

(* However the four tasks interleave, a task sends on the link it asked    *)
(* for.                                                                    *)
THEOREM TaskHasItsLink == Spec => []LinkOfCaller
<1>1. Locked => LinkOfCaller
  <2> SUFFICES ASSUME Locked, NEW t \in Task,
                      pc[t] \in {"send", "fill", "put", "unlock"}
               PROVE  link = LinkOf(t)
    BY DEF LinkOfCaller
  <2>1. mutex = t /\ t # "none"
    BY DEF Locked, Task
  <2> QED  BY <2>1 DEF Locked
<1> QED  BY <1>1, LockedHolds, PTL DEF Spec

-----------------------------------------------------------------------------
(* The packets between tail and head are whole PDUs, the one a task is     *)
(* filling is behind them, and the one that is being converted is the      *)
(* first.                                                                  *)

Queueing ==
  /\ Ringbuf_Count \in 0 .. M
  /\ \A i \in 1 .. Ringbuf_Count : slots[Index(tail + i - 1)] \in Pdu

Filling ==
  \A t \in Task :
    /\ pc[t] \in {"fill", "put"} => Ringbuf_Count < M /\ job[t] \in Pdu
    /\ pc[t] = "put" => slots[Index(head)] = job[t]

Taking ==
  pc["mstp_rx"] = "pop" =>
    /\ Ringbuf_Count # 0
    /\ out = Oldest

Ring == Queueing /\ Filling /\ Taking

Inv == Types /\ Locked /\ Ring

LEMMA CountType ==
  ASSUME RingTypes
  PROVE  /\ Ringbuf_Count = Count(head, tail)
         /\ Ringbuf_Count \in Counter /\ Ringbuf_Count \in Nat
         /\ head \in Int /\ tail \in Int
BY CountIs DEF RingTypes, Ringbuf_Count, Count, Counter

(* Nobody else is at work on the queue.                                    *)
LEMMA AloneWithQueue ==
  ASSUME Locked, NEW t \in Task, pc[t] \in {"send", "fill", "put", "unlock"}
  PROVE  \A u \in Task : u # t => pc[u] \notin {"send", "fill", "put", "unlock"}
BY DEF Locked

(* Writing the packet at head leaves those in the queue alone.             *)
LEMMA WriteAtHead ==
  ASSUME Inv, Ringbuf_Count < M, NEW p,
         slots' = [slots EXCEPT ![Index(head)] = p],
         UNCHANGED <<head, tail>>
  PROVE  /\ Queueing'
         /\ Ringbuf_Count' = Ringbuf_Count
         /\ \A i \in 1 .. Ringbuf_Count :
              slots'[Index(tail + i - 1)] = slots[Index(tail + i - 1)]
         /\ Ringbuf_Count # 0 => Oldest' = Oldest
         /\ slots'[Index(head)] = p
<1> DEFINE c == Ringbuf_Count
<1>1. c = Count(head, tail) /\ c \in Nat /\ head \in Int /\ tail \in Int /\ c < M
  BY CountType DEF Inv, Types
<1>2. c' = c
  BY DEF Ringbuf_Count
<1>3. Index(head) = Index(tail + c)
  BY <1>1, HeadSlot DEF Inv, Types, RingTypes
<1>4. ASSUME NEW i \in 1 .. c
      PROVE  slots'[Index(tail + i - 1)] = slots[Index(tail + i - 1)]
  <2> HIDE DEF c
  <2>1. tail + i - 1 \in Int /\ tail + c \in Int
        /\ tail + i - 1 < tail + c /\ tail + c < tail + i - 1 + M
    BY <1>1, Sizes
  <2>2. Index(tail + i - 1) # Index(head)
    BY <1>3, <2>1, SlotsApart
  <2>3. Index(tail + i - 1) \in 0 .. M - 1
    BY <2>1, CounterTypes
  <2> QED  BY <2>2, <2>3 DEF Inv, Types, RingTypes
<1>5. \A i \in 1 .. c : (slots[Index(tail + i - 1)])' = slots'[Index(tail + i - 1)]
  BY DEF Index
<1>6. Queueing'
  <2>1. \A i \in 1 .. c : (slots[Index(tail + i - 1)])' \in Pdu
    BY <1>4, <1>5 DEF Inv, Ring, Queueing
  <2>2. c' \in 0 .. M
    BY <1>2 DEF Inv, Ring, Queueing
  <2> QED  BY <1>2, <2>1, <2>2 DEF Queueing
<1>7. ASSUME c # 0 PROVE Oldest' = Oldest
  <2> HIDE DEF c
  <2>1. 1 \in 1 .. c /\ tail + 1 - 1 = tail
    BY <1>1, <1>7
  <2>2. slots'[Index(tail)] = slots[Index(tail)]
    BY <1>4, <2>1
  <2> QED  BY <2>2 DEF Oldest, Index
<1>8. slots'[Index(head)] = p
  BY <1>1, CounterTypes DEF Inv, Types, RingTypes
<1> QED  BY <1>2, <1>4, <1>6, <1>7, <1>8

(* Putting adds the packet at head to the queue.                           *)
LEMMA PutAtHead ==
  ASSUME Inv, NEW t \in Task, Ringbuf_Data_Put(t)
  PROVE  /\ Queueing'
         /\ Ringbuf_Count < M /\ job[t] \in Pdu
         /\ Ringbuf_Count' = Ringbuf_Count + 1
         /\ \A i \in 1 .. Ringbuf_Count :
              (slots[Index(tail + i - 1)])' = slots[Index(tail + i - 1)]
         /\ slots[Index(tail + (Ringbuf_Count + 1) - 1)] = job[t]
<1> DEFINE c == Ringbuf_Count
<1>1. c = Count(head, tail) /\ c \in Nat /\ head \in Int /\ tail \in Int
  BY CountType DEF Inv, Types
<1>2. c < M /\ job[t] \in Pdu /\ slots[Index(head)] = job[t]
  BY DEF Ringbuf_Data_Put, Inv, Ring, Filling
<1>3. head' = Plus1(head) /\ tail' = tail /\ slots' = slots
  BY DEF Ringbuf_Data_Put
<1>4. c' = c + 1
  <2>1. c' = Count(Plus1(head), tail)
    BY <1>3 DEF Ringbuf_Count, Count
  <2>2. Count(Plus1(head), tail) = Count(head, tail) + 1
    BY <1>1, <1>2, CountPut DEF Inv, Types, RingTypes
  <2> QED  BY <1>1, <2>1, <2>2
<1>5. slots[Index(tail + (c + 1) - 1)] = job[t]
  <2>1. Index(head) = Index(tail + c)
    BY <1>1, HeadSlot DEF Inv, Types, RingTypes
  <2>2. tail + (c + 1) - 1 = tail + c
    BY <1>1
  <2> QED  BY <1>2, <2>1, <2>2
<1>6. \A i : (slots[Index(tail + i - 1)])' = slots[Index(tail + i - 1)]
  BY <1>3 DEF Index
<1>7. Queueing'
  <2> HIDE DEF c
  <2>1. ASSUME NEW i \in 1 .. c + 1 PROVE slots[Index(tail + i - 1)] \in Pdu
    <3>1. CASE i \in 1 .. c
      BY <3>1 DEF Inv, Ring, Queueing, c
    <3>2. CASE i = c + 1
      BY <1>2, <1>5, <3>2
    <3> QED  BY <1>1, <2>1, <3>1, <3>2
  <2>2. c + 1 \in 0 .. M
    BY <1>1, <1>2, Sizes
  <2> QED  BY <1>4, <1>6, <2>1, <2>2 DEF Queueing, c
<1> QED  BY <1>2, <1>4, <1>5, <1>6, <1>7

(* Popping takes the first packet out of the queue.                        *)
LEMMA PopAtTail ==
  ASSUME Inv, Ringbuf_Pop
  PROVE  /\ Queueing'
         /\ Ringbuf_Count # 0
         /\ Ringbuf_Count' = Ringbuf_Count - 1
         /\ \A i \in 1 .. Ringbuf_Count' :
              (slots[Index(tail + i - 1)])' = slots[Index(tail + (i + 1) - 1)]
<1> DEFINE c == Ringbuf_Count
<1>1. c = Count(head, tail) /\ c \in Nat /\ head \in Int /\ tail \in Int
      /\ c \in 0 .. M
  BY CountType DEF Inv, Types, Ring, Queueing
<1>2. c # 0
  BY DEF Ringbuf_Pop, Inv, Ring, Taking
<1>3. tail' = Plus1(tail) /\ head' = head /\ slots' = slots
  BY DEF Ringbuf_Pop
<1>4. c' = c - 1
  <2>1. c' = Count(head, Plus1(tail))
    BY <1>3 DEF Ringbuf_Count, Count
  <2>2. Count(head, Plus1(tail)) = Count(head, tail) - 1
    BY <1>1, <1>2, CountPop DEF Inv, Types, RingTypes
  <2> QED  BY <1>1, <2>1, <2>2
<1>5. ASSUME NEW i \in 1 .. c'
      PROVE  (slots[Index(tail + i - 1)])' = slots[Index(tail + (i + 1) - 1)]
  <2> DEFINE j == i - 1
  <2>0. i \in Int /\ j \in Int
    BY <1>1, <1>4
  <2>1. Index(Plus1(tail) + j) = Index(tail + 1 + j)
    <3> HIDE DEF j
    <3> QED  BY <1>1, <2>0, IndexPlus1
  <2>2. tail + 1 + j = tail + (i + 1) - 1
    BY <1>1, <2>0
  <2>3. Plus1(tail) \in Int
    BY <1>1, CounterTypes DEF Counter
  <2>4. Plus1(tail) + j = Plus1(tail) + i - 1
    BY <2>0, <2>3
  <2>5. (slots[Index(tail + i - 1)])' = slots[Index(Plus1(tail) + i - 1)]
    BY <1>3 DEF Index
  <2> QED  BY <2>1, <2>2, <2>4, <2>5
<1>6. Queueing'
  <2>1. c' \in 0 .. M
    BY <1>1, <1>2, <1>4, Sizes
  <2>2. ASSUME NEW i \in 1 .. c' PROVE (slots[Index(tail + i - 1)])' \in Pdu
    <3>1. i + 1 \in 1 .. c
      BY <1>1, <1>4
    <3>2. slots[Index(tail + (i + 1) - 1)] \in Pdu
      BY <3>1 DEF Inv, Ring, Queueing
    <3> QED  BY <1>5, <3>2
  <2> QED  BY <2>1, <2>2 DEF Queueing
<1> QED  BY <1>2, <1>4, <1>5, <1>6

LEMMA InitRing == Init => Ring
<1> SUFFICES ASSUME Init PROVE Ring
  OBVIOUS
<1>1. Ringbuf_Count = 0
  <2>1. (Unsigned * 0 + 0) % Unsigned = 0
    BY Sizes, RestUnique
  <2>2. head - tail = 0
    BY DEF Init
  <2> QED  BY <2>1, <2>2, Sizes DEF Ringbuf_Count
<1>2. Queueing
  BY <1>1, Sizes DEF Queueing
<1>3. Filling /\ Taking
  BY DEF Init, Filling, Taking, Task
<1> QED  BY <1>2, <1>3 DEF Ring

(* Steps that leave the queue and what is taken from it alone.             *)
LEMMA RingKept ==
  ASSUME Inv, UNCHANGED <<ring, out>>,
         \A t \in Task : pc'[t] \in {"fill", "put", "pop"} =>
                           pc'[t] = pc[t] /\ job'[t] = job[t]
  PROVE  Ring'
<1>1. Ringbuf_Count' = Ringbuf_Count /\ Oldest' = Oldest
  BY DEF ring, Ringbuf_Count, Oldest, Index
<1>2. Queueing'
  BY <1>1 DEF Inv, Ring, Queueing, ring, Index
<1>3. Filling'
  BY <1>1 DEF Inv, Ring, Filling, ring, Index
<1>4. Taking'
  BY <1>1 DEF Inv, Ring, Taking, Task
<1> QED  BY <1>2, <1>3, <1>4 DEF Ring

LEMMA StepRing == Inv /\ [Next]_vars => Ring'
<1> SUFFICES ASSUME Inv, [Next]_vars PROVE Ring'
  OBVIOUS
<1> USE DEF Goto
<1>0. pc \in [Task -> {"idle", "lock", "send", "fill", "put", "unlock", "pop"}]
      /\ job \in [Task -> Pdu \cup {NoReply}] /\ "mstp_rx" \in Task
      /\ \A t \in Task : pc[t] = "pop" => t = "mstp_rx"
  BY DEF Inv, Types, TaskTypes, MachineTypes, Task
<1>1. ASSUME NEW t \in Task, NEW p \in Pdu, Wake(t, p) PROVE Ring'
  BY <1>0, <1>1, RingKept DEF Wake, machine, ring
<1>2. ASSUME NEW t \in Task, bacnet_app_datalink_lock(t) PROVE Ring'
  BY <1>0, <1>2, RingKept DEF bacnet_app_datalink_lock, machine, ring
<1>3. ASSUME NEW t \in Task, SendElsewhere(t) \/ Refuse(t)
                             \/ bacnet_app_datalink_unlock(t)
      PROVE  Ring'
  BY <1>0, <1>3, RingKept
    DEF SendElsewhere, Refuse, bacnet_app_datalink_unlock, machine, ring
<1>4. ASSUME NEW t \in Task, Ringbuf_Data_Peek(t) PROVE Ring'
  <2>1. Ringbuf_Count < M
    BY <1>4, Sizes DEF Ringbuf_Data_Peek, Ringbuf_Full, Inv, Ring, Queueing, M
  <2>2. Queueing' /\ Ringbuf_Count' = Ringbuf_Count
        /\ (Ringbuf_Count # 0 => Oldest' = Oldest)
    BY <1>4, <2>1, WriteAtHead DEF Ringbuf_Data_Peek
  <2>3. \A u \in Task : u # t => pc[u] \notin {"send", "fill", "put", "unlock"}
    BY <1>4, AloneWithQueue DEF Ringbuf_Data_Peek, Inv
  <2>4. Filling'
    BY <1>0, <1>4, <2>1, <2>2, <2>3 DEF Ringbuf_Data_Peek, Filling
  <2>5. Taking'
    BY <1>0, <1>4, <2>2 DEF Ringbuf_Data_Peek, Taking, Inv, Ring, machine
  <2> QED  BY <2>2, <2>4, <2>5 DEF Ring
<1>5. ASSUME NEW t \in Task, Fill(t) PROVE Ring'
  <2>1. Ringbuf_Count < M /\ job[t] \in Pdu
    BY <1>5 DEF Fill, Inv, Ring, Filling
  <2>2. Queueing' /\ Ringbuf_Count' = Ringbuf_Count
        /\ (Ringbuf_Count # 0 => Oldest' = Oldest)
        /\ slots'[Index(head)] = job[t]
    BY <1>5, <2>1, WriteAtHead DEF Fill
  <2>3. \A u \in Task : u # t => pc[u] \notin {"send", "fill", "put", "unlock"}
    BY <1>5, AloneWithQueue DEF Fill, Inv
  <2>4. (slots[Index(head)])' = slots'[Index(head)]
    BY <1>5 DEF Fill, Index
  <2>5. Filling'
    BY <1>0, <1>5, <2>1, <2>2, <2>3, <2>4 DEF Fill, Filling
  <2>6. Taking'
    BY <1>0, <1>5, <2>2 DEF Fill, Taking, Inv, Ring, machine
  <2> QED  BY <2>2, <2>5, <2>6 DEF Ring
<1>6. ASSUME NEW t \in Task, Ringbuf_Data_Put(t) PROVE Ring'
  <2>1. Queueing' /\ Ringbuf_Count' = Ringbuf_Count + 1
    BY <1>6, PutAtHead
  <2>2. \A u \in Task : u # t => pc[u] \notin {"send", "fill", "put", "unlock"}
    BY <1>6, AloneWithQueue DEF Ringbuf_Data_Put, Inv
  <2>3. Filling'
    BY <1>0, <1>6, <2>2 DEF Ringbuf_Data_Put, Filling
  <2>4. Ringbuf_Count \in Nat
    BY CountType DEF Inv, Types
  <2>5. Oldest' = Oldest
    BY <1>6 DEF Ringbuf_Data_Put, Oldest, Index
  <2>6. Taking'
    BY <1>0, <1>6, <2>1, <2>4, <2>5
      DEF Ringbuf_Data_Put, Taking, Inv, Ring, machine
  <2> QED  BY <2>1, <2>3, <2>6 DEF Ring
<1>7. ASSUME MSTP_Get_Send \/ MSTP_Get_Reply PROVE Ring'
  <2>1. Convert /\ ~ Ringbuf_Empty /\ UNCHANGED <<ring, machine>> /\ job' = job
    BY <1>7 DEF MSTP_Get_Send, MSTP_Get_Reply, Convert
  <2>2. Ringbuf_Count' = Ringbuf_Count /\ Oldest' = Oldest
    BY <2>1 DEF ring, Ringbuf_Count, Oldest, Index
  <2>3. Queueing'
    BY <2>1, <2>2 DEF Inv, Ring, Queueing, ring, Index
  <2>4. Filling'
    BY <1>0, <2>1, <2>2 DEF Convert, Inv, Ring, Filling, ring, Index
  <2>5. Taking'
    BY <2>1, <2>2 DEF Convert, Ringbuf_Empty, Taking
  <2> QED  BY <2>3, <2>4, <2>5 DEF Ring
<1>8. ASSUME Ringbuf_Pop PROVE Ring'
  <2>1. Queueing' /\ Ringbuf_Count # 0 /\ Ringbuf_Count' = Ringbuf_Count - 1
    BY <1>8, PopAtTail
  <2>2. Ringbuf_Count \in Nat
    BY CountType DEF Inv, Types
  <2>3. Filling'
    <3>1. slots' = slots /\ head' = head /\ job' = job
          /\ pc' = [pc EXCEPT !["mstp_rx"] = "idle"]
      BY <1>8 DEF Ringbuf_Pop
    <3>2. M \in Nat
      BY Sizes
    <3> QED  BY <1>0, <2>1, <2>2, <3>1, <3>2 DEF Inv, Ring, Filling, Index
  <2>4. Taking'
    BY <1>0, <1>8 DEF Ringbuf_Pop, Taking
  <2> QED  BY <2>1, <2>3, <2>4 DEF Ring
<1>9. ASSUME NothingToSend \/ DeferredReply \/ ReceiveToken PROVE Ring'
  BY <1>0, <1>9, RingKept
    DEF NothingToSend, DeferredReply, ReceiveToken, Machine, ring
<1>10. ASSUME NEW r \in Request, ReceiveRequest(r) PROVE Ring'
  BY <1>0, <1>10, RingKept DEF ReceiveRequest, ring
<1>11. ASSUME NEW p \in {IAm, NoReply}, ReceiveUnconfirmed(p) PROVE Ring'
  BY <1>0, <1>11, RingKept DEF ReceiveUnconfirmed, ring
<1>12. CASE UNCHANGED vars
  BY <1>0, <1>12, RingKept DEF vars, machine
<1> QED  BY <1>1, <1>2, <1>3, <1>4, <1>5, <1>6, <1>7, <1>8, <1>9, <1>10, <1>11,
            <1>12 DEF Next, Step, MachineStep

LEMMA InvHolds == Safety => []Inv
<1>1. Init => Ring
  BY InitRing
<1>2. Inv /\ [Next]_vars => Ring'
  BY StepRing
<1>3. Types /\ Locked /\ Ring <=> Inv
  BY DEF Inv
<1> QED  BY <1>1, <1>2, <1>3, TypesHold, LockedHolds, PTL DEF Safety

(* The state machine, which does not take the mutex, never converts a      *)
(* packet that a task is still filling, and no two tasks fill one.         *)
THEOREM PacketsKeptApart == Spec => []PacketsApart
<1>1. Inv => PacketsApart
  <2> SUFFICES ASSUME Inv PROVE PacketsApart
    OBVIOUS
  <2>1. ASSUME pc["mstp_rx"] = "pop" PROVE out = Oldest /\ out # Partial
    <3>1. out = Oldest /\ Ringbuf_Count # 0
      BY <2>1 DEF Inv, Ring, Taking
    <3>2. 1 \in 1 .. Ringbuf_Count /\ tail + 1 - 1 = tail
      BY <3>1, CountType DEF Inv, Types
    <3>3. Oldest \in Pdu
      BY <3>2 DEF Inv, Ring, Queueing, Oldest
    <3> QED  BY <3>1, <3>3, Pdus DEF PduTypes
  <2>2. ASSUME NEW t \in Task, NEW u \in Task,
               pc[t] \in {"fill", "put"}, pc[u] \in {"fill", "put"}
        PROVE  t = u
    BY <2>2, AloneWithQueue DEF Inv
  <2> QED  BY <2>1, <2>2 DEF PacketsApart
<1> QED  BY <1>1, InvHolds, PTL DEF Spec

-----------------------------------------------------------------------------
(* The ring buffer implements the queue.                                   *)

LEMMA QueuedIs ==
  ASSUME Inv
  PROVE  Queued \in Seq(Pdu) /\ Len(Queued) = Ringbuf_Count /\ Ringbuf_Count \in Nat
<1>1. Ringbuf_Count \in Nat
  BY CountType DEF Inv, Types
<1>2. \A i \in 1 .. Ringbuf_Count : slots[Index(tail + i - 1)] \in Pdu
  BY DEF Inv, Ring, Queueing
<1> DEFINE c == Ringbuf_Count
           f(i) == slots[Index(tail + i - 1)]
<1>3. Queued = [i \in 1 .. c |-> f(i)]
  BY DEF Queued
<1> HIDE DEF c, f
<1>4. c \in Nat /\ \A i \in 1 .. c : f(i) \in Pdu
  BY <1>1, <1>2 DEF c, f
<1>5. [i \in 1 .. c |-> f(i)] \in Seq(Pdu) /\ Len([i \in 1 .. c |-> f(i)]) = c
  BY <1>4
<1> QED  BY <1>1, <1>3, <1>5 DEF c

(* Packets that stay what they are, in a queue as long as before.          *)
LEMMA QueueKept ==
  ASSUME Inv, Ringbuf_Count' = Ringbuf_Count,
         \A i \in 1 .. Ringbuf_Count :
           (slots[Index(tail + i - 1)])' = slots[Index(tail + i - 1)]
  PROVE  Queued' = Queued
BY DEF Queued

LEMMA StepQueue == Inv /\ [Next]_vars => [Queue!Next]_(Queue!vars)
<1> SUFFICES ASSUME Inv, [Next]_vars PROVE [Queue!Next]_(Queue!vars)
  OBVIOUS
<1> DEFINE c == Ringbuf_Count
<1>1. Queued \in Seq(Pdu) /\ Len(Queued) = c /\ c \in Nat
  BY QueuedIs
<1>2. ASSUME UNCHANGED ring PROVE Queued' = Queued
  BY <1>2, QueueKept DEF ring, Ringbuf_Count, Index
<1>3. ASSUME NEW t \in Task, Ringbuf_Data_Peek(t) \/ Fill(t) PROVE Queued' = Queued
  <2>1. c < M
    BY <1>3, Sizes DEF Ringbuf_Data_Peek, Fill, Ringbuf_Full, Inv, Ring, Queueing,
                       Filling, M
  <2>2. PICK p : slots' = [slots EXCEPT ![Index(head)] = p]
                 /\ UNCHANGED <<head, tail>>
    BY <1>3 DEF Ringbuf_Data_Peek, Fill
  <2>3. c' = c /\ \A i \in 1 .. c :
                    slots'[Index(tail + i - 1)] = slots[Index(tail + i - 1)]
    BY <2>1, <2>2, WriteAtHead
  <2>4. \A i : (slots[Index(tail + i - 1)])' = slots'[Index(tail + i - 1)]
    BY <2>2 DEF Index
  <2> QED  BY <2>3, <2>4, QueueKept
<1>4. ASSUME NEW t \in Task, Ringbuf_Data_Put(t) PROVE Queue!Accept(job[t])
  <2>1. /\ c < M /\ c' = c + 1
        /\ \A i \in 1 .. c :
             (slots[Index(tail + i - 1)])' = slots[Index(tail + i - 1)]
        /\ slots[Index(tail + (c + 1) - 1)] = job[t]
        /\ slots' = slots /\ tail' = tail
    BY <1>4, PutAtHead DEF Ringbuf_Data_Put
  <2>2. Queued' = [i \in 1 .. c + 1 |-> IF i \in 1 .. c THEN Queued[i] ELSE job[t]]
    <3>1. Queued' = [i \in 1 .. c' |-> (slots[Index(tail + i - 1)])']
      BY DEF Queued
    <3>2. ASSUME NEW i \in 1 .. c + 1
          PROVE  (slots[Index(tail + i - 1)])'
                   = IF i \in 1 .. c THEN Queued[i] ELSE job[t]
      <4>1. CASE i \in 1 .. c
        BY <2>1, <4>1 DEF Queued
      <4>2. CASE i = c + 1
        BY <1>1, <2>1, <4>2 DEF Index
      <4> QED  BY <1>1, <4>1, <4>2
    <3> QED  BY <2>1, <3>1, <3>2
  <2>3. Append(Queued, job[t])
          = [i \in 1 .. c + 1 |-> IF i \in 1 .. c THEN Queued[i] ELSE job[t]]
    <3> HIDE DEF c
    <3> QED  BY <1>1
  <2>4. Queued' = Append(Queued, job[t])
    BY <2>2, <2>3
  <2>5. Len(Queued) < DLMSTP_MAX_INFO_FRAMES
    BY <1>1, <2>1 DEF M
  <2>6. sent' = sent
    BY <1>4 DEF Ringbuf_Data_Put
  <2> QED  BY <2>4, <2>5, <2>6 DEF Queue!Accept
<1>5. ASSUME Ringbuf_Pop PROVE Queue!Send
  <2>1. /\ c # 0 /\ c' = c - 1
        /\ \A i \in 1 .. c' :
             (slots[Index(tail + i - 1)])' = slots[Index(tail + (i + 1) - 1)]
    BY <1>5, PopAtTail
  <2>2. Queued' = [i \in 1 .. c - 1 |-> Queued[i + 1]]
    <3>1. Queued' = [i \in 1 .. c' |-> (slots[Index(tail + i - 1)])']
      BY DEF Queued
    <3>2. ASSUME NEW i \in 1 .. c'
          PROVE  (slots[Index(tail + i - 1)])' = Queued[i + 1]
      <4>1. i + 1 \in 1 .. c
        BY <1>1, <2>1
      <4> QED  BY <2>1, <4>1 DEF Queued
    <3> QED  BY <2>1, <3>1, <3>2
  <2>3. Queued # <<>> /\ Head(Queued) = Queued[1]
        /\ Tail(Queued) = [i \in 1 .. c - 1 |-> Queued[i + 1]]
    <3>1. c # 0
      BY <2>1
    <3> DEFINE q == Queued
    <3>2. q \in Seq(Pdu) /\ Len(q) = c /\ c \in Nat
      BY <1>1
    <3> HIDE DEF c, q
    <3>3. q # <<>>
      BY <3>1, <3>2
    <3>4. Head(q) = q[1]
      BY <3>2, <3>3
    <3> DEFINE r == [i \in 1 .. c - 1 |-> q[i + 1]]
    <3>5. r \in Seq(Pdu) /\ Len(r) = c - 1 /\ \A i \in 1 .. c - 1 : r[i] = q[i + 1]
      <4>1. \A i \in 1 .. c - 1 : q[i + 1] \in Pdu
        BY <3>2
      <4>2. c - 1 \in Nat
        BY <3>1, <3>2
      <4> QED  BY <4>1, <4>2
    <3>6. /\ Tail(q) \in Seq(Pdu) /\ Len(Tail(q)) = c - 1
          /\ \A i \in 1 .. c - 1 : Tail(q)[i] = q[i + 1]
      BY <3>2, <3>3, HeadTailProperties
    <3>7. Tail(q) = r
      <4> HIDE DEF r
      <4> QED  BY <3>5, <3>6, SeqEqual
    <3> QED  BY <3>3, <3>4, <3>7 DEF q
  <2>4. sent' = Queued[1]
    <3>1. sent' = Oldest
      BY <1>5 DEF Ringbuf_Pop, Inv, Ring, Taking
    <3>2. 1 \in 1 .. c /\ tail + 1 - 1 = tail
      BY <1>1, <2>1, CountType DEF Inv, Types
    <3> QED  BY <3>1, <3>2 DEF Queued, Oldest
  <2> QED  BY <2>2, <2>3, <2>4 DEF Queue!Send
<1>6. ASSUME NEW t \in Task, Step(t) PROVE [Queue!Next]_(Queue!vars)
  <2>1. CASE Ringbuf_Data_Peek(t) \/ Fill(t)
    BY <1>3, <2>1 DEF Ringbuf_Data_Peek, Fill, Queue!vars
  <2>2. CASE Ringbuf_Data_Put(t)
    <3>1. job[t] \in Pdu
      BY <2>2, PutAtHead
    <3> QED  BY <1>4, <2>2, <3>1 DEF Queue!Next
  <2>3. CASE SendElsewhere(t) \/ Refuse(t) \/ bacnet_app_datalink_unlock(t)
    BY <1>2, <2>3
      DEF SendElsewhere, Refuse, bacnet_app_datalink_unlock, Queue!vars
  <2> QED  BY <1>6, <2>1, <2>2, <2>3 DEF Step
<1>7. ASSUME MachineStep PROVE [Queue!Next]_(Queue!vars)
  <2>1. CASE Ringbuf_Pop
    BY <1>5, <2>1 DEF Queue!Next
  <2>2. CASE MSTP_Get_Send \/ MSTP_Get_Reply \/ NothingToSend \/ DeferredReply
    BY <1>2, <2>2
      DEF MSTP_Get_Send, MSTP_Get_Reply, Convert, NothingToSend, DeferredReply,
          Queue!vars
  <2> QED  BY <1>7, <2>1, <2>2 DEF MachineStep
<1>8. ASSUME \/ \E t \in Task :
                  bacnet_app_datalink_lock(t) \/ \E p \in Pdu : Wake(t, p)
             \/ \E r \in Request : ReceiveRequest(r)
             \/ \E p \in {IAm, NoReply} : ReceiveUnconfirmed(p)
             \/ ReceiveToken
             \/ UNCHANGED vars
      PROVE  [Queue!Next]_(Queue!vars)
  <2>1. UNCHANGED ring /\ sent' = sent
    BY <1>8
      DEF bacnet_app_datalink_lock, Wake, ReceiveRequest, ReceiveUnconfirmed,
          ReceiveToken, vars
  <2> QED  BY <1>2, <2>1 DEF Queue!vars
<1> QED  BY <1>6, <1>7, <1>8 DEF Next

(* Whatever the size of the queue and the range of its counters: what was  *)
(* put is sent once, whole and in the order in which it was put.           *)
THEOREM RingIsQueue == Spec => ImplementsQueue
<1>1. Init => Queue!Init
  <2> SUFFICES ASSUME Init PROVE Queue!Init
    OBVIOUS
  <2>1. Ringbuf_Count = 0
    <3>1. (Unsigned * 0 + 0) % Unsigned = 0
      BY Sizes, RestUnique
    <3>2. head - tail = 0
      BY DEF Init
    <3> QED  BY <3>1, <3>2, Sizes DEF Ringbuf_Count
  <2>2. Queued = <<>>
    BY <2>1 DEF Queued
  <2>3. sent = NoReply
    BY DEF Init
  <2> QED  BY <2>2, <2>3 DEF Queue!Init
<1> QED  BY <1>1, StepQueue, InvHolds, PTL DEF Spec, Safety, ImplementsQueue, Queue!Spec
=============================================================================
